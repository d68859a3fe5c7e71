----------------------------- MODULE AddressUse -----------------------------
(***************************************************************************)
(* What the clients are promised: an address has at most one user at a     *)
(* time, and a client uses at most one address, once.                      *)
(***************************************************************************)
CONSTANTS
    Client,   \* the clients
    Ip        \* the addresses

VARIABLES
    users,    \* users[ip]: the clients that use ip
    past      \* clients that have stopped using an address

useVars == <<users, past>>

UseInit == users = [ip \in Ip |-> {}] /\ past = {}

Take(c, ip) ==
    /\ c \notin past /\ \A i \in Ip : c \notin users[i]
    /\ users[ip] = {}
    /\ users' = [users EXCEPT ![ip] = {c}]
    /\ UNCHANGED past

Leave(c, ip) ==
    /\ users[ip] = {c}
    /\ users' = [users EXCEPT ![ip] = {}]
    /\ past' = past \cup {c}

UseNext == \E c \in Client, ip \in Ip : Take(c, ip) \/ Leave(c, ip)
UseSpec == UseInit /\ [][UseNext]_useVars
=============================================================================

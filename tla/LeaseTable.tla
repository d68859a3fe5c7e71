----------------------------- MODULE LeaseTable -----------------------------
(***************************************************************************)
(* What the address table of the server promises, with no tree, no mutex   *)
(* and no threads: every address has at most one holder, a holder loses    *)
(* its address only when the address is given back or its lease runs out,  *)
(* and an address changes hands only after it was free.                    *)
(***************************************************************************)
EXTENDS Naturals

CONSTANTS
    Mac,        \* the clients, by hardware address
    Nobody,     \* the holder of a free address
    Ip,         \* the addresses
    LeaseTime   \* default_lease_time

VARIABLES
    holder,     \* holder[ip]: ip_assignment_node.mac of the node of ip
    start,      \* start[ip]: ip_assignment_node.lease_start of that node, 0 when free
    now         \* time(NULL)

tableVars == <<holder, start, now>>

(* A lease has run out once its age exceeds LeaseTime, strictly. *)
RunOut(ip) == holder[ip] # Nobody /\ now - start[ip] > LeaseTime

TableInit ==
    /\ holder = [ip \in Ip |-> Nobody]
    /\ start = [ip \in Ip |-> 0]
    /\ now = 0

(* A free address is leased to client m (insert_ip_assignment). *)
GrantHeld(m, ip) ==     \* mutant: whoever holds the address
    /\ holder' = [holder EXCEPT ![ip] = m]
    /\ start' = [start EXCEPT ![ip] = now]
    /\ UNCHANGED now
Grant(m, ip) ==
    /\ holder[ip] = Nobody
    /\ holder' = [holder EXCEPT ![ip] = m]
    /\ start' = [start EXCEPT ![ip] = now]
    /\ UNCHANGED now

(* The lease of ip starts again (the renewal of client_handler). *)
Renew(ip) ==
    /\ holder[ip] # Nobody
    /\ start' = [start EXCEPT ![ip] = now]
    /\ UNCHANGED <<holder, now>>

(* One address is given back (delete_ip_assignment, for a RELEASE or DECLINE). *)
GiveBack(ip) ==
    /\ holder[ip] # Nobody
    /\ holder' = [holder EXCEPT ![ip] = Nobody]
    /\ start' = [start EXCEPT ![ip] = 0]
    /\ UNCHANGED now

(* Any number of leases that have run out are reclaimed together (check_expired_leases). *)
Reclaim ==
    /\ \E S \in SUBSET {ip \in Ip : RunOut(ip)} :
         /\ holder' = [ip \in Ip |-> IF ip \in S THEN Nobody ELSE holder[ip]]
         /\ start' = [ip \in Ip |-> IF ip \in S THEN 0 ELSE start[ip]]
    /\ UNCHANGED now

Tick ==
    /\ now' = now + 1
    /\ UNCHANGED <<holder, start>>

TableNext ==
    \/ \E ip \in Ip : (\E m \in Mac : Grant(m, ip)) \/ Renew(ip) \/ GiveBack(ip)
    \/ Reclaim
    \/ Tick

TableSpec == TableInit /\ [][TableNext]_tableVars
=============================================================================

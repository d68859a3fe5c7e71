---------------------------- MODULE MCDhcpSystem ----------------------------
(* Small instances of DhcpSystem for TLC. *)
EXTENDS DhcpSystem, TLC

CONSTANTS c1, c2, i1, i2, given, unread   \* clients, addresses, what an ACK says

Symmetry == Permutations({c1, c2}) \cup Permutations({i1, i2})

(* What a structure on the stack may hold; an ACK of the server replaces it. *)
Zeroes == {[lease_time |-> 0, renewal_time |-> 0, rebind_time |-> 0]}

(* Every offer passes the check of validate_offered_ip. *)
FitInit == Init /\ \A c \in Client : fits[c] = Ip
FitSpec == FitInit /\ [][Next]_vars
=============================================================================

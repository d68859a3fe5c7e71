--------------------------- MODULE MCIpAssignments ---------------------------
(* Small instances of IpAssignments and CallsInTurn for TLC. *)
EXTENDS CallsInTurn, TLC

CONSTANTS c1, c2,   \* two clients and their handlers
          n1, n2, n3, n4  \* heap blocks

Symmetry == Permutations({c1, c2}) \cup Permutations({n1, n2, n3, n4})

Entry(ip, c, l, r) == [ip |-> ip, mac |-> c, start |-> 0, left |-> l, right |-> r]
Blank == Entry(0, Nobody, Null, Null)
Resting ==
    /\ locked = FALSE /\ now = 0 /\ calls = 0 /\ alive = TRUE /\ intact = TRUE
    /\ th = [t \in Thread |-> Idle]

(* Later moments, states that Init leads to.  1 and 2 were leased in turn, 4 was  *)
(* requested by name, 3 was leased, a client that is gone gave back 1, and 1 was  *)
(* leased again, so that the root 2 has two children and the right one a left.    *)
FullTable ==
    /\ node = (n1 :> Entry(1, c1, Null, Null) @@ n2 :> Entry(2, c2, n1, n4)
                 @@ n3 :> Entry(3, c1, Null, Null) @@ n4 :> Entry(4, c2, n3, Null))
    /\ used = Addr /\ root = n2 /\ cursor = 2
    /\ stage = (c1 :> "offered" @@ c2 :> "acked")
    /\ promised = (c1 :> {1, 3} @@ c2 :> {2, 4})
    /\ Resting

(* 1 and 2 were leased, and a client that is gone gave back 1. *)
OneLease ==
    /\ node = [n \in Addr |-> IF n = n2 THEN Entry(2, c1, Null, Null) ELSE Blank]
    /\ used = {n2} /\ root = n2 /\ cursor = 3
    /\ stage = (c1 :> "offered" @@ c2 :> "offered")
    /\ promised = (c1 :> {2} @@ c2 :> {})
    /\ Resting

(* 1 and 2 were leased in turn, the second below the first. *)
TwoLeases ==
    /\ node = (n1 :> Entry(1, c1, Null, n2) @@ n2 :> Entry(2, c2, Null, Null)
                 @@ n3 :> Blank @@ n4 :> Blank)
    /\ used = {n1, n2} /\ root = n1 /\ cursor = 3
    /\ stage = (c1 :> "offered" @@ c2 :> "offered")
    /\ promised = (c1 :> {1} @@ c2 :> {2})
    /\ Resting

AnySpec == (Init \/ FullTable \/ OneLease \/ TwoLeases) /\ inTurn = TRUE /\ [][TurnNext]_turnVars
=============================================================================

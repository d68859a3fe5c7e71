----------------------------- MODULE CallsInTurn -----------------------------
(***************************************************************************)
(* The address table of IpAssignments as long as its calls come in turn:   *)
(* then it does keep the promise of LeaseTable, with its tree of nodes,    *)
(* its recursions that store pointers on their way back, and its deletions *)
(* that never end.  A history variable tells when they no longer do.       *)
(***************************************************************************)
EXTENDS IpAssignments

(* malloc finds a block for every address of the range. *)
ASSUME HeapAssumption == IsFiniteSet(Addr) /\ Cardinality(Addr) >= PoolSize

VARIABLE inTurn   \* history: no two calls have met, and no new root was dropped

InCall(t) == th[t].pc \notin {"idle", "ended"}
OneAtATime == \A s, t \in Thread : InCall(s) /\ InCall(t) => s = t

(* The main loop goes on with a root that its sweep has freed. *)
DropsRoot == RootBack(Main) /\ th[Main].ret # root

Watch == inTurn' = (inTurn /\ OneAtATime' /\ ~DropsRoot)
TurnInit == Init /\ inTurn = TRUE
TurnNext == Next /\ Watch
turnVars == <<vars, inTurn>>
TurnSpec == TurnInit /\ [][TurnNext]_turnVars

-----------------------------------------------------------------------------
(* What a lookup of ip meets from block p down: the blocks in every set that    *)
(* has p and, with a block that is not ip's, its child on the side of ip.       *)
Descends(S, ip) == \A a \in S : node[a].ip # ip => Child(a, SideOf(ip, a)) \in S \cup {Null}
From(p, ip) ==
    {b \in Addr : \A S \in SUBSET Addr : {p} \ {Null} \subseteq S /\ Descends(S, ip) => b \in S}

(* Whenever no call is under way, each lease is where a lookup of its address   *)
(* finds it: no insertion, deletion, renewal or sweep has lost one.             *)
LeasesFound == inTurn /\ (\A t \in Thread : ~InCall(t)) =>
    \A a \in used : a \in From(root, node[a].ip)

(* Shared addresses and double frees come of calls that meet or of a root that  *)
(* was dropped, of nothing else.                                                *)
SafeInTurn == inTurn => alive /\ NoSharedAddress

(* The leases of the table: the nodes that are allocated. *)
Lease(ip) == CHOOSE a \in used : node[a].ip = ip
Leased(ip) == \E a \in used : node[a].ip = ip
Leases == INSTANCE LeaseTable
    WITH Mac <- Client, Ip <- Pool,
         holder <- [ip \in Pool |-> IF Leased(ip) THEN node[Lease(ip)].mac ELSE Nobody],
         start <- [ip \in Pool |-> IF Leased(ip) THEN node[Lease(ip)].start ELSE 0]

(* As long as calls come in turn, every step of the tree is a step of the       *)
(* abstract table, or none; and a sweep takes only leases that have run out.     *)
KeepsPromise ==
    [][inTurn' => /\ Leases!TableNext
                  /\ InCall(Main) => Leases!Reclaim \/ Leases!Tick]_Leases!tableVars
=============================================================================

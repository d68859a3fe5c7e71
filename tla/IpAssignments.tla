--------------------------- MODULE IpAssignments ---------------------------
(***************************************************************************)
(* The binary search tree of leases and its mutex, as the threads of the   *)
(* server really use them: find_ip_assignment unlocks the mutex before it  *)
(* locks it, insert_ip_assignment and check_expired_leases take no lock,   *)
(* delete_ip_assignment locks once per level.  Nodes live in a heap; a     *)
(* step reads or writes one node.  A handler serves its own client, so a   *)
(* client stands for its handler thread and for its hardware address.      *)
(***************************************************************************)
EXTENDS Integers, Sequences, FiniteSets

CONSTANTS
    Client,      \* the handler threads, and the clients they serve
    Main,        \* the main thread, which sweeps
    Nobody,      \* no client: the mac in a node that was freed
    Addr,        \* addresses of heap blocks
    Null,        \* NULL
    StartIp,     \* global_ip_range.start_ip
    EndIp,       \* global_ip_range.end_ip
    LeaseTime,   \* default_lease_time
    Calls,       \* calls handlers make: subset of {"assign", "request", "renew", "giveback"}
    MaxCalls,    \* bound: calls of all threads together
    MaxDepth,    \* bound: depth of a recursion
    MaxTime      \* bound: seconds the clock advances

ASSUME TableAssumption ==
    /\ Main \notin Client /\ Nobody \notin Client /\ Null \notin Addr
    /\ StartIp \in Nat \ {0} /\ EndIp \in Nat /\ StartIp <= EndIp
    /\ LeaseTime \in Nat /\ MaxCalls \in Nat /\ MaxDepth \in Nat /\ MaxTime \in Nat

VARIABLES
    node,      \* node[a]: the contents of block a
    used,      \* blocks allocated and not freed
    root,      \* ip_assignment_root
    locked,    \* ip_assignment_mutex: any thread may unlock it
    cursor,    \* last_assigned_ip
    now,       \* time(NULL)
    th,        \* th[t]: the call thread t is in and its local variables
    calls,     \* calls begun
    stage,     \* stage[c]: how far the handler of c is: ack_sent once "acked"
    alive,     \* the process has not aborted on a double free
    intact,    \* history: no deletion has changed the tree since the start
    promised   \* history: addresses offered or ACKed to a client, not deleted since

heapVars == <<node, used, root>>
vars == <<heapVars, locked, cursor, now, th, calls, stage, alive, intact, promised>>

Thread == Client \cup {Main}
Ptr == Addr \cup {Null}
Pool == StartIp..EndIp
PoolSize == EndIp - StartIp + 1
Ip == Nat      \* a race of the cursor may leave the pool

Side == {"left", "right"}
Node == [ip : Ip, mac : Client \cup {Nobody}, start : Nat, left : Ptr, right : Ptr]

(* A frame of a recursion that will store the result of its call at at.side;    *)
(* time is check_expired_leases' current_time.                                  *)
Frame == [at : Addr, side : Side, by : {"insert", "delete", "sweep"}, time : Nat]

Pc == {"idle", "a_lock", "a_cursor", "a_read", "a_advance", "a_wrap", "a_unlock",
       "f_unlock", "f_lock", "f_walk", "found", "i_walk", "n_write", "d_lock", "d_min",
       "s_enter", "s_check", "back", "ended"}
Op == {"none", "assign", "request", "renew", "giveback", "sweep"}

(* A thread's locals: cur walks the tree, ret is the value a call returns. *)
Local == [pc : Pc, op : Op, ip : Ip, cur : Ptr, ret : Ptr, path : Seq(Frame),
          tries : 0..(PoolSize - 1)]
Idle == [pc |-> "idle", op |-> "none", ip |-> 0, cur |-> Null, ret |-> Null,
         path |-> <<>>, tries |-> 0]

Top(t) == th[t].path[Len(th[t].path)]
Pop(t) == SubSeq(th[t].path, 1, Len(th[t].path) - 1)
Push(t, by, side) ==
    Append(th[t].path, [at |-> th[t].cur, side |-> side, by |-> by, time |-> now])
Child(a, side) == IF side = "left" THEN node[a].left ELSE node[a].right
Store(a, side, p) ==
    node' = [node EXCEPT ![a] = IF side = "left" THEN [@ EXCEPT !.left = p]
                                                 ELSE [@ EXCEPT !.right = p]]

(* The same with the comparison turned round. *)
SideOfTurned(ip, a) == IF ip > node[a].ip THEN "left" ELSE "right"
SideOf(ip, a) == IF ip < node[a].ip THEN "left" ELSE "right"

At(t, pc) == alive /\ th[t].pc = pc

(* A call ends; a DECLINE or a RELEASE ends the handler with it. *)
Return(t) ==
    th' = [th EXCEPT ![t] =
             [Idle EXCEPT !.pc = IF th[t].op = "giveback" THEN "ended" ELSE "idle"]]
Promise(c, ip) == promised' = [promised EXCEPT ![c] = @ \cup {ip}]

-----------------------------------------------------------------------------
(* A handler or the main loop begins a call.  A handler starts with the DISCOVER  *)
(* it was created for; its first REQUEST is answered, those after it renew.       *)
Stages == [none |-> {"assign"}, offered |-> {"assign", "request", "giveback"},
           acked |-> {"assign", "renew", "giveback"}]
NextStage(c, op) ==
    CASE op = "request" -> "acked"
      [] op = "assign" /\ stage[c] = "none" -> "offered"
      [] OTHER -> stage[c]

BeginHandling(c) ==
    /\ At(c, "idle") /\ calls < MaxCalls
    /\ calls' = calls + 1
    /\ \E op \in Stages[stage[c]] \cap Calls : \E ip \in Pool :
         /\ stage' = [stage EXCEPT ![c] = NextStage(c, op)]
         /\ th' = [th EXCEPT ![c] = IF op = "assign"
                                     THEN [Idle EXCEPT !.pc = "a_lock", !.op = op]
                                     ELSE [Idle EXCEPT !.pc = "f_unlock", !.op = op, !.ip = ip]]
    /\ UNCHANGED <<heapVars, locked, cursor, now, alive, intact, promised>>

BeginSweep ==
    /\ At(Main, "idle") /\ calls < MaxCalls
    /\ calls' = calls + 1
    /\ th' = [th EXCEPT ![Main] = [Idle EXCEPT !.pc = "s_enter", !.op = "sweep", !.cur = root]]
    /\ UNCHANGED <<heapVars, locked, cursor, now, stage, alive, intact, promised>>

(* find_ip_assignment: unlock, lock, walk, unlock. *)
FindUnlock(t) ==
    /\ At(t, "f_unlock")
    /\ locked' = FALSE
    /\ th' = [th EXCEPT ![t].pc = "f_lock", ![t].cur = root]
    /\ UNCHANGED <<heapVars, cursor, now, calls, stage, alive, intact, promised>>

FindLock(t) ==
    /\ At(t, "f_lock") /\ ~locked
    /\ locked' = TRUE
    /\ th' = [th EXCEPT ![t].pc = "f_walk"]
    /\ UNCHANGED <<heapVars, cursor, now, calls, stage, alive, intact, promised>>

(* A return that forgets the mutex. *)
FindReturnLocked(t) == th' = [th EXCEPT ![t].pc = "found"] /\ UNCHANGED locked
FindReturn(t) == th' = [th EXCEPT ![t].pc = "found"] /\ locked' = FALSE

FindWalk(t) ==
    /\ At(t, "f_walk")
    /\ LET a == th[t].cur
       IN \/ /\ a # Null /\ node[a].ip # th[t].ip
             /\ th' = [th EXCEPT ![t].cur = Child(a, SideOf(th[t].ip, a))]
             /\ UNCHANGED locked
          \/ /\ a # Null => node[a].ip = th[t].ip
             /\ FindReturn(t)
    /\ UNCHANGED <<heapVars, cursor, now, calls, stage, alive, intact, promised>>

-----------------------------------------------------------------------------
(* assign_ip_address.  The cursor is checked, read, advanced and wrapped in     *)
(* steps of their own: after the first lookup the mutex no longer guards them.  *)
AssignLock(t) ==
    /\ At(t, "a_lock") /\ ~locked
    /\ locked' = TRUE
    /\ th' = [th EXCEPT ![t].pc = "a_cursor"]
    /\ UNCHANGED <<heapVars, cursor, now, calls, stage, alive, intact, promised>>

AssignCursor(t) ==
    /\ At(t, "a_cursor")
    /\ cursor' = IF cursor \in Pool THEN cursor ELSE StartIp
    /\ th' = [th EXCEPT ![t].pc = "a_read"]
    /\ UNCHANGED <<heapVars, locked, now, calls, stage, alive, intact, promised>>

AssignRead(t) ==
    /\ At(t, "a_read")
    /\ th' = [th EXCEPT ![t].pc = "f_unlock", ![t].ip = cursor]
    /\ UNCHANGED <<heapVars, locked, cursor, now, calls, stage, alive, intact, promised>>

(* Back to start_ip after the last address. *)
WrappedLate(ip) == IF ip > EndIp + 1 THEN StartIp ELSE ip   \* mutant: one address late
Wrapped(ip) == IF ip > EndIp THEN StartIp ELSE ip

(* The bound of the do-while loop, and the same off by one. *)
FullRoundLate(t) == th[t].tries >= PoolSize
FullRound(t) == th[t].tries + 1 >= PoolSize

(* The lookup found the address: the next one, or the end after a full round. *)
AssignNext(t) ==
    /\ At(t, "found") /\ th[t].op = "assign" /\ th[t].cur # Null
    /\ \/ /\ ~FullRound(t)
          /\ th' = [th EXCEPT ![t].pc = "f_unlock", ![t].ip = Wrapped(@ + 1),
                              ![t].tries = @ + 1]
          /\ UNCHANGED locked
       \/ /\ FullRound(t)
          /\ Return(t)
          /\ locked' = FALSE
    /\ UNCHANGED <<heapVars, cursor, now, calls, stage, alive, intact, promised>>

AssignAdvance(t) ==
    /\ At(t, "a_advance")
    /\ cursor' = th[t].ip + 1
    /\ th' = [th EXCEPT ![t].pc = "a_wrap"]
    /\ UNCHANGED <<heapVars, locked, now, calls, stage, alive, intact, promised>>

AssignWrap(t) ==
    /\ At(t, "a_wrap")
    /\ cursor' = Wrapped(cursor)
    /\ th' = [th EXCEPT ![t].pc = "a_unlock"]
    /\ UNCHANGED <<heapVars, locked, now, calls, stage, alive, intact, promised>>

(* The unlock at the end, and the OFFER. *)
AssignUnlock(t) ==
    /\ At(t, "a_unlock")
    /\ locked' = FALSE
    /\ Promise(t, th[t].ip)
    /\ Return(t)
    /\ UNCHANGED <<heapVars, cursor, now, calls, stage, alive, intact>>

-----------------------------------------------------------------------------
(* handle_dhcp_request, the renewal, and the end of a client, after the lookup. *)
RequestFound(t) ==
    /\ At(t, "found") /\ th[t].op = "request" /\ th[t].cur # Null
    /\ IF node[th[t].cur].mac = t THEN Promise(t, th[t].ip) ELSE UNCHANGED promised
    /\ Return(t)
    /\ UNCHANGED <<heapVars, locked, cursor, now, calls, stage, alive, intact>>

RenewFound(t) ==
    /\ At(t, "found") /\ th[t].op = "renew"
    /\ IF th[t].cur # Null /\ node[th[t].cur].mac = t
       THEN th' = [th EXCEPT ![t].pc = "n_write"]
       ELSE Return(t)
    /\ UNCHANGED <<heapVars, locked, cursor, now, calls, stage, alive, intact, promised>>

RenewWrite(t) ==
    /\ At(t, "n_write")
    /\ node' = [node EXCEPT ![th[t].cur].start = now]
    /\ Return(t)
    /\ UNCHANGED <<used, root, locked, cursor, now, calls, stage, alive, intact, promised>>

GiveBackFound(t) ==
    /\ At(t, "found") /\ th[t].op = "giveback"
    /\ IF th[t].cur # Null
       THEN th' = [th EXCEPT ![t].pc = "d_lock", ![t].cur = root]
       ELSE Return(t)
    /\ UNCHANGED <<heapVars, locked, cursor, now, calls, stage, alive, intact, promised>>

-----------------------------------------------------------------------------
(* insert_ip_assignment.  An ACK leaves before the insertion, an OFFER after.   *)
(* The blocks it allocates on the way down and forgets are left out.            *)
InsertStart(t) ==
    /\ At(t, "found") /\ th[t].op \in {"assign", "request"} /\ th[t].cur = Null
    /\ IF th[t].op = "request" THEN Promise(t, th[t].ip) ELSE UNCHANGED promised
    /\ th' = [th EXCEPT ![t].pc = "i_walk", ![t].cur = root]
    /\ UNCHANGED <<heapVars, locked, cursor, now, calls, stage, alive, intact>>

InsertWalk(t) ==
    LET a == th[t].cur
        side == SideOf(th[t].ip, a)
    IN /\ At(t, "i_walk") /\ a # Null /\ node[a].ip # th[t].ip
       /\ Len(th[t].path) < MaxDepth
       /\ th' = [th EXCEPT ![t].path = Push(t, "insert", side), ![t].cur = Child(a, side)]
       /\ UNCHANGED <<heapVars, locked, cursor, now, calls, stage, alive, intact, promised>>

(* At the bottom a new node is linked; an address already there is left alone.  *)
(* With no memory left nothing is linked.                                       *)
InsertEnd(t) ==
    /\ At(t, "i_walk")
    /\ \/ /\ th[t].cur = Null
          /\ \E a \in Addr \ used :
               /\ node' = [node EXCEPT ![a] = [ip |-> th[t].ip, mac |-> t, start |-> now,
                                              left |-> Null, right |-> Null]]
               /\ used' = used \cup {a}
               /\ th' = [th EXCEPT ![t].pc = "back", ![t].ret = a]
       \/ /\ th[t].cur = Null /\ used = Addr
          /\ th' = [th EXCEPT ![t].pc = "back", ![t].ret = Null]
          /\ UNCHANGED <<node, used>>
       \/ /\ th[t].cur # Null
          /\ node[th[t].cur].ip = th[t].ip
          /\ th' = [th EXCEPT ![t].pc = "back", ![t].ret = th[t].cur]
          /\ UNCHANGED <<node, used>>
    /\ UNCHANGED <<root, locked, cursor, now, calls, stage, alive, intact, promised>>

-----------------------------------------------------------------------------
(* delete_ip_assignment, one level a step: lock, look at the node, go down with *)
(* the lock still held or unlock and return.                                    *)
(* free: what malloc writes into a free block covers ip and mac only. *)
Free(a) ==
    \/ /\ a \in used
       /\ used' = used \ {a}
       /\ \E garbage \in {0, EndIp + 2} :
            node' = [node EXCEPT ![a].ip = garbage, ![a].mac = Nobody]
       /\ UNCHANGED alive
    \/ /\ a \notin used
       /\ alive' = FALSE
       /\ UNCHANGED <<used, node>>

DeleteDown(t) ==
    LET a == th[t].cur
        side == SideOf(th[t].ip, a)
    IN /\ At(t, "d_lock") /\ ~locked /\ a # Null /\ node[a].ip # th[t].ip
       /\ Len(th[t].path) < MaxDepth
       /\ locked' = TRUE
       /\ th' = [th EXCEPT ![t].path = Push(t, "delete", side), ![t].cur = Child(a, side)]
       /\ UNCHANGED <<heapVars, cursor, now, calls, stage, alive, intact, promised>>

DeleteMissing(t) ==
    /\ At(t, "d_lock") /\ ~locked /\ th[t].cur = Null
    /\ th' = [th EXCEPT ![t].pc = "back", ![t].ret = Null]
    /\ UNCHANGED <<heapVars, locked, cursor, now, calls, stage, alive, intact, promised>>

(* What is left of a node with at most one child, and the other child. *)
RestSwapped(a) == IF node[a].left = Null THEN node[a].left ELSE node[a].right
Rest(a) == IF node[a].left = Null THEN node[a].right ELSE node[a].left

(* Such a node is freed and its child returned. *)
DeleteLeaf(t) ==
    LET a == th[t].cur
    IN /\ At(t, "d_lock") /\ ~locked /\ a # Null /\ node[a].ip = th[t].ip
       /\ node[a].left = Null \/ node[a].right = Null
       /\ Free(a)
       /\ intact' = FALSE
       /\ promised' = [c \in Client |-> promised[c] \ {th[t].ip}]
       /\ th' = [th EXCEPT ![t].pc = "back", ![t].ret = Rest(a)]
       /\ UNCHANGED <<root, locked, cursor, now, calls, stage>>

(* A node with two children: find_min walks down the left of its right child,  *)
DeleteInner(t) ==
    LET a == th[t].cur
    IN /\ At(t, "d_lock") /\ ~locked /\ a # Null /\ node[a].ip = th[t].ip
       /\ node[a].left # Null /\ node[a].right # Null
       /\ Len(th[t].path) < MaxDepth
       /\ locked' = TRUE
       /\ th' = [th EXCEPT ![t].pc = "d_min", ![t].path = Push(t, "delete", "right"),
                           ![t].cur = node[a].right]
       /\ UNCHANGED <<heapVars, cursor, now, calls, stage, alive, intact, promised>>

FindMin(t) ==
    /\ At(t, "d_min") /\ node[th[t].cur].left # Null
    /\ th' = [th EXCEPT ![t].cur = node[@].left]
    /\ UNCHANGED <<heapVars, locked, cursor, now, calls, stage, alive, intact, promised>>

(* and the node takes over the minimum, which is deleted below. *)
DeleteCopy(t) ==
    LET a == Top(t).at
        m == node[th[t].cur]
    IN /\ At(t, "d_min") /\ m.left = Null
       /\ node' = [node EXCEPT ![a] = [m EXCEPT !.left = node[a].left, !.right = node[a].right]]
       /\ intact' = FALSE
       /\ promised' = [c \in Client |-> promised[c] \ {th[t].ip}]
       /\ th' = [th EXCEPT ![t].pc = "d_lock", ![t].ip = m.ip, ![t].cur = node[a].right]
       /\ UNCHANGED <<used, root, locked, cursor, now, calls, stage, alive>>

-----------------------------------------------------------------------------
(* check_expired_leases: left, right, then the node itself, with no lock. *)
OverAtEnd(age) == age >= LeaseTime     \* mutant: one second early
Over(age) == age > LeaseTime

SweepEnter(t) ==
    /\ At(t, "s_enter")
    /\ \/ /\ th[t].cur # Null /\ Len(th[t].path) < MaxDepth
          /\ th' = [th EXCEPT ![t].path = Push(t, "sweep", "left"),
                              ![t].cur = node[th[t].cur].left]
       \/ /\ th[t].cur = Null
          /\ th' = [th EXCEPT ![t].pc = "back", ![t].ret = Null]
    /\ UNCHANGED <<heapVars, locked, cursor, now, calls, stage, alive, intact, promised>>

SweepCheck(t) ==
    LET a == Top(t).at
        age == Top(t).time - node[a].start
    IN /\ At(t, "s_check")
       /\ \/ /\ Over(age)
             /\ th' = [th EXCEPT ![t].pc = "d_lock", ![t].cur = a, ![t].ip = node[a].ip,
                                 ![t].path = Pop(t)]
          \/ /\ ~Over(age)
             /\ th' = [th EXCEPT ![t].pc = "back", ![t].ret = a, ![t].path = Pop(t)]
       /\ UNCHANGED <<heapVars, locked, cursor, now, calls, stage, alive, intact, promised>>

-----------------------------------------------------------------------------
(* A recursive call returns: its caller stores the result in the child it went  *)
(* down to, whatever that child has become meanwhile.                           *)
InsertBack(t) ==
    /\ At(t, "back") /\ th[t].path # <<>> /\ Top(t).by = "insert"
    /\ Store(Top(t).at, Top(t).side, th[t].ret)
    /\ th' = [th EXCEPT ![t].path = Pop(t), ![t].ret = Top(t).at]
    /\ UNCHANGED <<used, root, locked, cursor, now, calls, stage, alive, intact, promised>>

DeleteBack(t) ==
    /\ At(t, "back") /\ th[t].path # <<>> /\ Top(t).by = "delete"
    /\ Store(Top(t).at, Top(t).side, th[t].ret)
    /\ locked' = FALSE
    /\ th' = [th EXCEPT ![t].path = Pop(t), ![t].ret = Top(t).at]
    /\ UNCHANGED <<used, root, cursor, now, calls, stage, alive, intact, promised>>

SweepBack(t) ==
    /\ At(t, "back") /\ th[t].path # <<>> /\ Top(t).by = "sweep"
    /\ Store(Top(t).at, Top(t).side, th[t].ret)
    /\ \/ /\ Top(t).side = "left"
          /\ th' = [th EXCEPT ![t].pc = "s_enter", ![t].cur = node[Top(t).at].right,
                              ![t].path = Append(Pop(t), [Top(t) EXCEPT !.side = "right"])]
       \/ /\ Top(t).side = "right"
          /\ th' = [th EXCEPT ![t].pc = "s_check"]
    /\ UNCHANGED <<used, root, locked, cursor, now, calls, stage, alive, intact, promised>>

(* The outermost call returns: handlers assign ip_assignment_root, the main     *)
(* loop drops the value.                                                        *)
RootBack(t) ==
    /\ At(t, "back") /\ th[t].path = <<>>
    /\ IF t = Main THEN UNCHANGED root ELSE root' = th[t].ret
    /\ IF th[t].op = "assign" THEN th' = [th EXCEPT ![t].pc = "a_advance"] ELSE Return(t)
    /\ UNCHANGED <<node, used, locked, cursor, now, calls, stage, alive, intact, promised>>

Tick ==
    /\ alive /\ now < MaxTime
    /\ now' = now + 1
    /\ UNCHANGED <<heapVars, locked, cursor, th, calls, stage, alive, intact, promised>>

-----------------------------------------------------------------------------
Init ==
    /\ node = [a \in Addr |-> [ip |-> 0, mac |-> Nobody, start |-> 0,
                               left |-> Null, right |-> Null]]
    /\ used = {} /\ root = Null /\ locked = FALSE
    /\ cursor = 0 /\ now = 0
    /\ th = [t \in Thread |-> Idle]
    /\ calls = 0 /\ stage = [c \in Client |-> "none"]
    /\ alive = TRUE /\ intact = TRUE
    /\ promised = [c \in Client |-> {}]

Find(t) == FindUnlock(t) \/ FindLock(t) \/ FindWalk(t)
Assign(t) ==
    AssignLock(t) \/ AssignCursor(t) \/ AssignRead(t) \/ AssignNext(t)
        \/ AssignAdvance(t) \/ AssignWrap(t) \/ AssignUnlock(t)
Answer(t) == RequestFound(t) \/ RenewFound(t) \/ RenewWrite(t) \/ GiveBackFound(t)
Insert(t) == InsertStart(t) \/ InsertWalk(t) \/ InsertEnd(t) \/ InsertBack(t)
Delete(t) ==
    \/ DeleteDown(t) \/ DeleteMissing(t) \/ DeleteLeaf(t) \/ DeleteInner(t)
    \/ FindMin(t) \/ DeleteCopy(t) \/ DeleteBack(t)
Sweep(t) == SweepEnter(t) \/ SweepCheck(t) \/ SweepBack(t)
Step(t) ==
    \/ t \in Client /\ (Find(t) \/ Assign(t) \/ Answer(t) \/ Insert(t))
    \/ t = Main /\ Sweep(t)
    \/ Delete(t) \/ RootBack(t)

Next ==
    \/ Tick \/ BeginSweep
    \/ \E c \in Client : BeginHandling(c)
    \/ \E t \in Thread : Step(t)
Spec == Init /\ [][Next]_vars

-----------------------------------------------------------------------------
(* Every variable keeps its type (type invariant of the module). *)
TypeOK ==
    /\ node \in [Addr -> Node]
    /\ used \subseteq Addr /\ root \in Ptr
    /\ locked \in BOOLEAN /\ alive \in BOOLEAN /\ intact \in BOOLEAN
    /\ cursor \in Ip /\ now \in Nat
    /\ th \in [Thread -> Local]
    /\ calls \in 0..MaxCalls /\ stage \in [Client -> DOMAIN Stages]
    /\ promised \in [Client -> SUBSET Ip]

(* A thread inside a stretch of code that began with pthread_mutex_lock and     *)
(* will end with pthread_mutex_unlock.                                          *)
Holding(t) ==
    \/ th[t].pc \in {"a_cursor", "a_read", "f_unlock", "f_walk"}
    \/ th[t].pc \in {"d_lock", "d_min", "back"} /\ th[t].path # <<>> /\ Top(t).by = "delete"

(* The mutex is never left locked by a call that is over, on any of the exits   *)
(* of assign_ip_address, find_ip_assignment and delete_ip_assignment, although  *)
(* threads unlock it for one another.  A deletion that waits for the lock it    *)
(* took one level up is a call that is not over.                                *)
LockNeverOrphaned == locked => \E t \in Thread : Holding(t)

(* last_assigned_ip is past the range only in the window between its advance    *)
(* and its wrap (dhcp_server.c:648-650): whatever the threads write over one    *)
(* another's cursor, none is left there once no thread is in that window.       *)
CursorHome == cursor > EndIp => \E t \in Thread : th[t].pc = "a_wrap"

(* Until a deletion changes the tree, insertions that interleave without a lock *)
(* leave a search tree: they may lose nodes, never order.                       *)
Closed(S) == \A a \in S : {node[a].left, node[a].right} \ {Null} \subseteq S
Below(p) == {b \in Addr : \A S \in SUBSET Addr : {p} \ {Null} \subseteq S /\ Closed(S) => b \in S}
SearchOrder == intact =>
    \A a \in Below(root) :
        /\ \A b \in Below(node[a].left) : node[b].ip < node[a].ip
        /\ \A b \in Below(node[a].right) : node[b].ip > node[a].ip

(* PLANNING.md:57: simultaneous requests never get the same address. *)
NoSharedAddress ==
    \A c, d \in Client : c # d => promised[c] \cap promised[d] = {}
=============================================================================

------------------------- MODULE IpAssignmentsProofs -------------------------
(***************************************************************************)
(* The tree and its mutex, for every number of handlers, every pool and    *)
(* every heap: each step keeps the types, and no call leaves the mutex     *)
(* locked behind it.                                                       *)
(***************************************************************************)
EXTENDS IpAssignments, TLAPS

LEMMA PoolNotEmpty == PoolSize \in Nat \ {0} /\ Pool \subseteq Ip
BY TableAssumption DEF PoolSize, Pool, Ip

(* The places of the code and the calls, by name. *)
LEMMA Names ==
    /\ "idle" \in Pc /\ "ended" \in Pc /\ "a_lock" \in Pc /\ "a_cursor" \in Pc
    /\ "a_read" \in Pc /\ "a_advance" \in Pc /\ "a_wrap" \in Pc /\ "a_unlock" \in Pc
    /\ "f_unlock" \in Pc /\ "f_lock" \in Pc /\ "f_walk" \in Pc /\ "found" \in Pc
    /\ "i_walk" \in Pc /\ "n_write" \in Pc /\ "d_lock" \in Pc /\ "d_min" \in Pc
    /\ "s_enter" \in Pc /\ "s_check" \in Pc /\ "back" \in Pc
    /\ "assign" \in Op /\ "request" \in Op /\ "renew" \in Op /\ "giveback" \in Op
    /\ "sweep" \in Op /\ "none" \in Op
BY DEF Pc, Op

LEMMA IdleLocal == Idle \in Local
BY PoolNotEmpty, Names DEF Idle, Local, Ip, Ptr

(* The frame on top of a path, and what push and pop make of it. *)
LEMMA PathFacts ==
    ASSUME TypeOK, NEW t \in Thread
    PROVE  /\ th[t].path # <<>> => Top(t) \in Frame
           /\ th[t].path # <<>> => Pop(t) \in Seq(Frame)
           /\ \A by \in {"insert", "delete", "sweep"}, side \in Side :
                th[t].cur \in Addr => Push(t, by, side) \in Seq(Frame)
  <1>1. th[t].path \in Seq(Frame) /\ now \in Nat
    BY DEF TypeOK, Local
  <1>2. ASSUME th[t].path # <<>>
        PROVE  Top(t) \in Frame /\ Pop(t) \in Seq(Frame)
    BY <1>1, <1>2 DEF Top, Pop
  <1>3. ASSUME NEW by \in {"insert", "delete", "sweep"}, NEW side \in Side, th[t].cur \in Addr
        PROVE  Push(t, by, side) \in Seq(Frame)
    <2>1. [at |-> th[t].cur, side |-> side, by |-> by, time |-> now] \in Frame
      BY <1>1, <1>3 DEF Frame
    <2> QED BY <2>1, <1>1 DEF Push
  <1> QED BY <1>2, <1>3

(* What a push and a pop make of a path, element by element. *)
LEMMA PushElements ==
    ASSUME NEW path \in Seq(Frame), NEW e \in Frame
    PROVE  /\ Append(path, e) \in Seq(Frame) /\ Len(path) \in Nat
           /\ Len(Append(path, e)) = Len(path) + 1
           /\ \A i \in 1..Len(path) : Append(path, e)[i] = path[i]
           /\ Append(path, e)[Len(path) + 1] = e
OBVIOUS

LEMMA PopElements ==
    ASSUME NEW path \in Seq(Frame), path # <<>>
    PROVE  /\ SubSeq(path, 1, Len(path) - 1) \in Seq(Frame)
           /\ Len(path) \in Nat \ {0} /\ path[Len(path)] \in Frame
           /\ Len(SubSeq(path, 1, Len(path) - 1)) = Len(path) - 1
           /\ \A i \in 1..(Len(path) - 1) : SubSeq(path, 1, Len(path) - 1)[i] = path[i]
OBVIOUS

LEMMA AppendNotEmpty ==
    ASSUME NEW S, NEW s \in Seq(S), NEW e \in S
    PROVE  Append(s, e) # <<>>
  <1>1. Len(Append(s, e)) = Len(s) + 1 /\ Len(s) \in Nat
    OBVIOUS
  <1> QED BY <1>1

LEMMA PushNotEmpty ==
    ASSUME TypeOK, NEW t \in Thread, th[t].cur \in Addr
    PROVE  Push(t, "delete", "right") # <<>>
  <1>1. th[t].path \in Seq(Frame) /\ now \in Nat
    BY DEF TypeOK, Local
  <1>2. [at |-> th[t].cur, side |-> "right", by |-> "delete", time |-> now] \in Frame
    BY <1>1 DEF Frame, Side
  <1> QED BY <1>1, <1>2, AppendNotEmpty DEF Push

(* Storing a pointer in a child of a block keeps the heap's type. *)
LEMMA StoreKeepsNodes ==
    ASSUME node \in [Addr -> Node], NEW a \in Addr, NEW side \in Side, NEW p \in Ptr,
           Store(a, side, p)
    PROVE  node' \in [Addr -> Node]
BY DEF Store, Node

(* A step that keeps every thread's locals in their type, with the rest. *)
LEMMA ReturnKeepsLocals ==
    ASSUME th \in [Thread -> Local], NEW t \in Thread, Return(t)
    PROVE  th' \in [Thread -> Local]
BY IdleLocal, Names DEF Return, Local, Idle

(* Where find_min is, and where check_expired_leases looks at a node, there is one. *)
Anchored ==
    \A t \in Thread :
        /\ th[t].pc = "d_min" => th[t].cur # Null
        /\ th[t].pc \in {"d_min", "s_check"} => th[t].path # <<>>

(* What the types say of the thread that moves and of the block it looks at. *)
LEMMA StepFacts ==
    ASSUME TypeOK, NEW t \in Thread
    PROVE  /\ th \in [Thread -> Local] /\ root \in Ptr /\ cursor \in Ip
           /\ th[t].ip \in Ip /\ th[t].cur \in Ptr /\ th[t].ret \in Ptr
           /\ th[t].path \in Seq(Frame) /\ th[t].tries \in 0..(PoolSize - 1)
           /\ \A a \in Addr : /\ node[a].ip \in Ip /\ node[a].left \in Ptr
                               /\ node[a].right \in Ptr /\ node[a].start \in Nat
BY DEF TypeOK, Local, Node

LEMMA PtrFacts ==
    /\ Null \in Ptr /\ Null \notin Addr
    /\ \A a \in Addr : a \in Ptr
    /\ \A p \in Ptr : p # Null => p \in Addr
BY TableAssumption DEF Ptr

LEMMA SideFacts ==
    ASSUME TypeOK, NEW ip \in Ip, NEW a \in Addr
    PROVE  /\ SideOf(ip, a) \in Side /\ "left" \in Side /\ "right" \in Side
           /\ \A side \in Side : Child(a, side) \in Ptr
BY DEF TypeOK, Node, SideOf, Side, Child

LEMMA LocalsStep ==
    ASSUME TypeOK, Anchored, NEW t \in Thread, Step(t)
    PROVE  th' \in [Thread -> Local]
  <1>a. /\ th \in [Thread -> Local] /\ root \in Ptr /\ cursor \in Ip
        /\ th[t].ip \in Ip /\ th[t].cur \in Ptr /\ th[t].ret \in Ptr
        /\ th[t].path \in Seq(Frame) /\ th[t].tries \in 0..(PoolSize - 1)
    BY StepFacts
  <1>b. \A a \in Addr : /\ node[a].ip \in Ip /\ node[a].left \in Ptr
                        /\ node[a].right \in Ptr /\ node[a].start \in Nat
    BY StepFacts
  <1>c. th[t].path # <<>> => /\ Top(t).at \in Addr /\ Top(t).side \in Side
                             /\ Pop(t) \in Seq(Frame)
    BY PathFacts DEF Frame
  <1>d. /\ \A side \in Side : th[t].cur \in Addr =>
             /\ Push(t, "insert", side) \in Seq(Frame)
             /\ Push(t, "delete", side) \in Seq(Frame)
             /\ Push(t, "sweep", side) \in Seq(Frame)
             /\ Child(th[t].cur, side) \in Ptr
             /\ SideOf(th[t].ip, th[t].cur) \in Side
        /\ "left" \in Side /\ "right" \in Side
    BY <1>a, PathFacts, SideFacts DEF Side
  <1>e. th[t].path # <<>> => Append(Pop(t), [Top(t) EXCEPT !.side = "right"]) \in Seq(Frame)
    <2>1. ASSUME th[t].path # <<>> PROVE [Top(t) EXCEPT !.side = "right"] \in Frame
      BY <2>1, PathFacts DEF Frame, Side
    <2> QED BY <2>1, <1>c
  <1>f. /\ th[t].pc = "d_min" => th[t].cur # Null
        /\ th[t].pc \in {"d_min", "s_check"} => th[t].path # <<>>
    BY DEF Anchored
  <1>1. CASE FindUnlock(t)
    BY <1>1, <1>a, <1>b, Names, ReturnKeepsLocals
    DEF FindUnlock, Local
  <1>2. CASE FindLock(t)
    BY <1>2, <1>a, <1>b, Names, ReturnKeepsLocals
    DEF FindLock, Local
  <1>3. CASE FindWalk(t)
    <2>1. CASE th[t].cur # Null /\ node[th[t].cur].ip # th[t].ip
      <3>1. th' = [th EXCEPT ![t].cur = Child(th[t].cur, SideOf(th[t].ip, th[t].cur))]
        BY <1>3, <2>1 DEF FindWalk
      <3>2. Child(th[t].cur, SideOf(th[t].ip, th[t].cur)) \in Ptr
        BY <1>a, <1>d, <2>1, PtrFacts
      <3> QED BY <3>1, <3>2, <1>a DEF Local
    <2>2. CASE ~(th[t].cur # Null /\ node[th[t].cur].ip # th[t].ip)
      BY <1>3, <2>2, <1>a, Names DEF FindWalk, FindReturn, Local
    <2> QED BY <2>1, <2>2
  <1>4. CASE AssignLock(t)
    BY <1>4, <1>a, <1>b, Names, ReturnKeepsLocals
    DEF AssignLock, Local
  <1>5. CASE AssignCursor(t)
    BY <1>5, <1>a, <1>b, Names, ReturnKeepsLocals
    DEF AssignCursor, Local
  <1>6. CASE AssignRead(t)
    BY <1>6, <1>a, <1>b, Names, ReturnKeepsLocals
    DEF AssignRead, Local
  <1>7. CASE AssignNext(t)
    BY <1>7, <1>a, <1>b, Names, ReturnKeepsLocals
    DEF AssignNext, Wrapped, FullRound, Local
  <1>8. CASE AssignAdvance(t)
    BY <1>8, <1>a, <1>b, Names, ReturnKeepsLocals
    DEF AssignAdvance, Local
  <1>9. CASE AssignWrap(t)
    BY <1>9, <1>a, <1>b, Names, ReturnKeepsLocals
    DEF AssignWrap, Local
  <1>10. CASE AssignUnlock(t)
    BY <1>10, <1>a, <1>b, Names, ReturnKeepsLocals
    DEF AssignUnlock, Local
  <1>11. CASE RequestFound(t)
    BY <1>11, <1>a, <1>b, Names, ReturnKeepsLocals
    DEF RequestFound, Local
  <1>12. CASE RenewFound(t)
    BY <1>12, <1>a, <1>b, Names, ReturnKeepsLocals
    DEF RenewFound, Local
  <1>13. CASE RenewWrite(t)
    BY <1>13, <1>a, <1>b, Names, ReturnKeepsLocals
    DEF RenewWrite, Local
  <1>14. CASE GiveBackFound(t)
    <2>1. CASE th[t].cur # Null
      BY <1>14, <2>1, <1>a, Names DEF GiveBackFound, Local
    <2>2. CASE th[t].cur = Null
      BY <1>14, <2>2, <1>a, ReturnKeepsLocals DEF GiveBackFound
    <2> QED BY <2>1, <2>2
  <1>15. CASE InsertStart(t)
    BY <1>15, <1>a, <1>b, Names, ReturnKeepsLocals
    DEF InsertStart, Local
  <1>16. CASE InsertWalk(t)
    BY <1>16, <1>a, <1>b, Names, ReturnKeepsLocals, <1>d, PtrFacts
    DEF InsertWalk, Local
  <1>17. CASE InsertEnd(t)
    <2>1. PICK p \in Ptr : th' = [th EXCEPT ![t].pc = "back", ![t].ret = p]
      BY <1>17, <1>a, PtrFacts DEF InsertEnd
    <2> QED BY <2>1, <1>a, Names DEF Local
  <1>18. CASE InsertBack(t)
    BY <1>18, <1>a, <1>b, Names, ReturnKeepsLocals, <1>c, PtrFacts
    DEF InsertBack, Local
  <1>19. CASE DeleteDown(t)
    BY <1>19, <1>a, <1>b, Names, ReturnKeepsLocals, <1>d, PtrFacts
    DEF DeleteDown, Local
  <1>20. CASE DeleteMissing(t)
    BY <1>20, <1>a, <1>b, Names, ReturnKeepsLocals, PtrFacts
    DEF DeleteMissing, Local
  <1>21. CASE DeleteLeaf(t)
    <2>1. PICK p \in Ptr : th' = [th EXCEPT ![t].pc = "back", ![t].ret = p]
      <3>1. th[t].cur \in Addr
        BY <1>21, <1>a, PtrFacts DEF DeleteLeaf, Rest
      <3>2. node[th[t].cur].left \in Ptr /\ node[th[t].cur].right \in Ptr
        BY <3>1, <1>b
      <3> QED BY <1>21, <3>2 DEF DeleteLeaf, Rest
    <2> QED BY <2>1, <1>a, Names DEF Local
  <1>22. CASE DeleteInner(t)
    <2>1. PICK path \in Seq(Frame), p \in Ptr :
            th' = [th EXCEPT ![t].pc = "d_min", ![t].path = path, ![t].cur = p]
      <3>1. th[t].cur \in Addr
        BY <1>22, <1>a, PtrFacts DEF DeleteInner
      <3>2. node[th[t].cur].right \in Ptr /\ Push(t, "delete", "right") \in Seq(Frame)
        BY <3>1, <1>b, <1>d
      <3> QED BY <1>22, <3>2 DEF DeleteInner
    <2> QED BY <2>1, <1>a, Names DEF Local
  <1>23. CASE FindMin(t)
    BY <1>23, <1>a, <1>b, Names, ReturnKeepsLocals, <1>f, PtrFacts
    DEF FindMin, Local, At
  <1>24. CASE DeleteCopy(t)
    <2>1. PICK ip \in Ip, p \in Ptr :
            th' = [th EXCEPT ![t].pc = "d_lock", ![t].ip = ip, ![t].cur = p]
      <3>1. th[t].cur \in Addr /\ Top(t).at \in Addr
        BY <1>24, <1>a, <1>c, <1>f, PtrFacts DEF DeleteCopy, At
      <3>2. node[th[t].cur].ip \in Ip /\ node[Top(t).at].right \in Ptr
        BY <3>1, <1>b
      <3> QED BY <1>24, <3>2 DEF DeleteCopy
    <2> QED BY <2>1, <1>a, Names DEF Local
  <1>25. CASE DeleteBack(t)
    BY <1>25, <1>a, <1>b, Names, ReturnKeepsLocals, <1>c, PtrFacts
    DEF DeleteBack, Local
  <1>26. CASE SweepEnter(t)
    <2>1. CASE th[t].cur # Null
      <3>1. th' = [th EXCEPT ![t].path = Push(t, "sweep", "left"),
                             ![t].cur = node[th[t].cur].left]
        BY <1>26, <2>1 DEF SweepEnter
      <3>2. node[th[t].cur].left \in Ptr /\ Push(t, "sweep", "left") \in Seq(Frame)
        BY <1>a, <1>b, <1>d, <2>1, PtrFacts
      <3> QED BY <3>1, <3>2, <1>a DEF Local
    <2>2. CASE th[t].cur = Null
      BY <1>26, <2>2, <1>a, PtrFacts, Names DEF SweepEnter, Local
    <2> QED BY <2>1, <2>2
  <1>27. CASE SweepCheck(t)
    <2>1. /\ Top(t).at \in Addr /\ Top(t).at \in Ptr /\ Pop(t) \in Seq(Frame)
          /\ node[Top(t).at].ip \in Ip
      BY <1>27, <1>b, <1>c, <1>f, PtrFacts DEF SweepCheck, At
    <2>2. \/ th' = [th EXCEPT ![t].pc = "d_lock", ![t].cur = Top(t).at,
                             ![t].ip = node[Top(t).at].ip, ![t].path = Pop(t)]
          \/ th' = [th EXCEPT ![t].pc = "back", ![t].ret = Top(t).at, ![t].path = Pop(t)]
      BY <1>27 DEF SweepCheck
    <2>3. CASE th' = [th EXCEPT ![t].pc = "d_lock", ![t].cur = Top(t).at,
                             ![t].ip = node[Top(t).at].ip, ![t].path = Pop(t)]
      <3> DEFINE p == Top(t).at
                 ip == node[Top(t).at].ip
                 path == Pop(t)
      <3>1. p \in Ptr /\ ip \in Ip /\ path \in Seq(Frame)
        BY <2>1
      <3>2. th' = [th EXCEPT ![t].pc = "d_lock", ![t].cur = p, ![t].ip = ip, ![t].path = path]
        BY <2>3
      <3> HIDE DEF p, ip, path
      <3>3. [th[t] EXCEPT !.pc = "d_lock", !.cur = p, !.ip = ip, !.path = path] \in Local
        BY <3>1, <1>a, Names DEF Local
      <3> QED BY <3>2, <3>3, <1>a
    <2>4. CASE th' = [th EXCEPT ![t].pc = "back", ![t].ret = Top(t).at, ![t].path = Pop(t)]
      BY <2>1, <2>4, <1>a, Names DEF Local
    <2> QED BY <2>2, <2>3, <2>4
  <1>28. CASE SweepBack(t)
    <2>1. Top(t).at \in Addr /\ node[Top(t).at].right \in Ptr
      BY <1>28, <1>b, <1>c DEF SweepBack
    <2>2. \/ th' = [th EXCEPT ![t].pc = "s_enter", ![t].cur = node[Top(t).at].right,
                             ![t].path = Append(Pop(t), [Top(t) EXCEPT !.side = "right"])]
          \/ th' = [th EXCEPT ![t].pc = "s_check"]
      BY <1>28 DEF SweepBack
    <2>3. Append(Pop(t), [Top(t) EXCEPT !.side = "right"]) \in Seq(Frame)
      BY <1>28, <1>e DEF SweepBack
    <2>4. CASE th' = [th EXCEPT ![t].pc = "s_enter", ![t].cur = node[Top(t).at].right,
                             ![t].path = Append(Pop(t), [Top(t) EXCEPT !.side = "right"])]
      <3>1. PICK path \in Seq(Frame), p \in Ptr :
              th' = [th EXCEPT ![t].pc = "s_enter", ![t].cur = p, ![t].path = path]
        BY <2>1, <2>3, <2>4
      <3> QED BY <3>1, <1>a, Names DEF Local
    <2>5. CASE th' = [th EXCEPT ![t].pc = "s_check"]
      BY <2>5, <1>a, Names DEF Local
    <2> QED BY <2>2, <2>4, <2>5
  <1>29. CASE RootBack(t)
    BY <1>29, <1>a, <1>b, Names, ReturnKeepsLocals
    DEF RootBack, Local
  <1> QED BY <1>1, <1>2, <1>3, <1>4, <1>5, <1>6, <1>7, <1>8, <1>9, <1>10, <1>11, <1>12, <1>13, <1>14, <1>15, <1>16, <1>17, <1>18, <1>19, <1>20, <1>21, <1>22, <1>23, <1>24, <1>25, <1>26, <1>27, <1>28, <1>29 DEF Step, Find, Assign, Answer, Insert, Delete, Sweep

LEMMA HeapStep ==
    ASSUME TypeOK, Anchored, NEW t \in Thread, Step(t)
    PROVE  node' \in [Addr -> Node] /\ used' \subseteq Addr /\ root' \in Ptr
  <1>a. /\ node \in [Addr -> Node] /\ used \subseteq Addr /\ root \in Ptr
        /\ now \in Nat /\ th[t].ip \in Ip /\ th[t].cur \in Ptr /\ th[t].ret \in Ptr
    BY StepFacts DEF TypeOK
  <1>b. th[t].path # <<>> => Top(t).at \in Addr /\ Top(t).side \in Side
    BY PathFacts DEF Frame
  <1>1. CASE RenewWrite(t)
    BY <1>1, <1>a DEF RenewWrite, Node
  <1>2. CASE t \in Client /\ InsertEnd(t)
    <2>1. CASE UNCHANGED <<node, used>>
      BY <1>2, <2>1, <1>a DEF InsertEnd
    <2>2. CASE ~UNCHANGED <<node, used>>
      <3>1. PICK a \in Addr \ used :
              /\ node' = [node EXCEPT ![a] = [ip |-> th[t].ip, mac |-> t, start |-> now,
                                             left |-> Null, right |-> Null]]
              /\ used' = used \cup {a}
        BY <1>2, <2>2 DEF InsertEnd
      <3> QED BY <1>2, <3>1, <1>a, PtrFacts DEF InsertEnd, Node
    <2> QED BY <2>1, <2>2
  <1>3. CASE InsertBack(t) \/ DeleteBack(t) \/ SweepBack(t)
    <2>1. Store(Top(t).at, Top(t).side, th[t].ret) /\ th[t].path # <<>> /\ UNCHANGED <<used, root>>
      BY <1>3 DEF InsertBack, DeleteBack, SweepBack
    <2> QED BY <2>1, <1>a, <1>b, StoreKeepsNodes
  <1>4. CASE DeleteLeaf(t)
    <2>1. CASE UNCHANGED <<used, node>>
      BY <1>4, <2>1, <1>a DEF DeleteLeaf
    <2>2. CASE ~UNCHANGED <<used, node>>
      <3>1. PICK garbage \in {0, EndIp + 2} :
              node' = [node EXCEPT ![th[t].cur].ip = garbage, ![th[t].cur].mac = Nobody]
        BY <1>4, <2>2 DEF DeleteLeaf, Free
      <3>2. used' \subseteq Addr /\ root' \in Ptr
        BY <1>4, <1>a DEF DeleteLeaf, Free
      <3>3. garbage \in Ip
        BY TableAssumption DEF Ip
      <3> QED BY <3>1, <3>2, <3>3, <1>a DEF Node
    <2> QED BY <2>1, <2>2
  <1>5. CASE DeleteCopy(t)
    <2>1. Top(t).at \in Addr /\ th[t].cur \in Addr
      BY <1>5, <1>a, <1>b, PtrFacts DEF DeleteCopy, Anchored, At
    <2> DEFINE copy == [node[th[t].cur] EXCEPT !.left = node[Top(t).at].left,
                                               !.right = node[Top(t).at].right]
    <2>2. copy \in Node
      BY <2>1, <1>a DEF Node
    <2>3. node' = [node EXCEPT ![Top(t).at] = copy] /\ UNCHANGED <<used, root>>
      BY <1>5 DEF DeleteCopy
    <2> QED BY <2>2, <2>3, <1>a
  <1>6. CASE RootBack(t)
    BY <1>6, <1>a DEF RootBack
  <1>7. CASE UNCHANGED heapVars
    BY <1>7, <1>a DEF heapVars
  <1> QED BY <1>1, <1>2, <1>3, <1>4, <1>5, <1>6, <1>7
      DEF Step, Find, Assign, Answer, Insert, Delete, Sweep, FindUnlock, FindLock, FindWalk,
          AssignLock, AssignCursor, AssignRead, AssignNext, AssignAdvance, AssignWrap, AssignUnlock,
          RequestFound, RenewFound, GiveBackFound, InsertStart, InsertWalk,
          DeleteDown, DeleteMissing, DeleteInner, FindMin, SweepEnter, SweepCheck
LEMMA RestStep ==
    ASSUME TypeOK, NEW t \in Thread, Step(t)
    PROVE  /\ locked' \in BOOLEAN /\ alive' \in BOOLEAN /\ intact' \in BOOLEAN
           /\ cursor' \in Ip /\ now' \in Nat /\ calls' \in 0..MaxCalls
           /\ stage' \in [Client -> DOMAIN Stages]
           /\ promised' \in [Client -> SUBSET Ip]
  <1>a. /\ locked \in BOOLEAN /\ alive \in BOOLEAN /\ intact \in BOOLEAN
        /\ cursor \in Ip /\ th[t].ip \in Ip /\ promised \in [Client -> SUBSET Ip]
    BY StepFacts DEF TypeOK
  <1>1. UNCHANGED <<now, calls, stage>>
    BY DEF Step, Find, Assign, Answer, Insert, Delete, Sweep, FindUnlock, FindLock, FindWalk,
           AssignLock, AssignCursor, AssignRead, AssignNext, AssignAdvance, AssignWrap,
           AssignUnlock, RequestFound, RenewFound, RenewWrite, GiveBackFound, InsertStart,
           InsertWalk, InsertEnd, InsertBack, DeleteDown, DeleteMissing, DeleteLeaf, DeleteInner,
           FindMin, DeleteCopy, DeleteBack, SweepEnter, SweepCheck, SweepBack, RootBack
  <1>2. /\ locked' \in BOOLEAN
        /\ alive' \in BOOLEAN /\ intact' \in BOOLEAN
    BY <1>a DEF Step, Find, Assign, Answer, Insert, Delete, Sweep, FindUnlock, FindLock, FindWalk,
           AssignLock, AssignCursor, AssignRead, AssignNext, AssignAdvance, AssignWrap,
           AssignUnlock, RequestFound, RenewFound, RenewWrite, GiveBackFound, InsertStart,
           InsertWalk, InsertEnd, InsertBack, DeleteDown, DeleteMissing, DeleteLeaf, DeleteInner,
           FindMin, DeleteCopy, DeleteBack, SweepEnter, SweepCheck, SweepBack, RootBack,
           FindReturn, Free
  <1>3. cursor' \in Ip
    <2>1. CASE AssignCursor(t) \/ AssignAdvance(t) \/ AssignWrap(t)
      BY <2>1, <1>a, TableAssumption DEF AssignCursor, AssignAdvance, AssignWrap, Wrapped, Ip
    <2>2. CASE UNCHANGED cursor
      BY <2>2, <1>a
    <2> QED
      BY <2>1, <2>2 DEF Step, Find, Assign, Answer, Insert, Delete, Sweep, FindUnlock, FindLock,
           FindWalk, AssignLock, AssignRead, AssignNext, AssignUnlock, RequestFound, RenewFound,
           RenewWrite, GiveBackFound, InsertStart, InsertWalk, InsertEnd, InsertBack, DeleteDown,
           DeleteMissing, DeleteLeaf, DeleteInner, FindMin, DeleteCopy, DeleteBack, SweepEnter,
           SweepCheck, SweepBack, RootBack
  <1>4. promised' \in [Client -> SUBSET Ip]
    <2>1. CASE Promise(t, th[t].ip)
      BY <2>1, <1>a DEF Promise
    <2>2. CASE promised' = [c \in Client |-> promised[c] \ {th[t].ip}]
      BY <2>2, <1>a
    <2>3. CASE UNCHANGED promised
      BY <2>3, <1>a
    <2> QED
      BY <2>1, <2>2, <2>3 DEF Step, Find, Assign, Answer, Insert, Delete, Sweep, FindUnlock,
           FindLock, FindWalk, AssignLock, AssignCursor, AssignRead, AssignNext, AssignAdvance,
           AssignWrap, AssignUnlock, RequestFound, RenewFound, RenewWrite, GiveBackFound,
           InsertStart, InsertWalk, InsertEnd, InsertBack, DeleteDown, DeleteMissing, DeleteLeaf,
           DeleteInner, FindMin, DeleteCopy, DeleteBack, SweepEnter, SweepCheck, SweepBack,
           RootBack
  <1> QED BY <1>1, <1>2, <1>3, <1>4 DEF TypeOK

(* A step of a thread touches no other thread's locals. *)
LEMMA OthersKeepStill ==
    ASSUME TypeOK, NEW t \in Thread, Step(t), NEW u \in Thread, u # t
    PROVE  th'[u] = th[u]
BY DEF TypeOK, Step, Find, Assign, Answer, Insert, Delete, Sweep, FindUnlock, FindLock, FindWalk,
       AssignLock, AssignCursor, AssignRead, AssignNext, AssignAdvance, AssignWrap, AssignUnlock,
       RequestFound, RenewFound, RenewWrite, GiveBackFound, InsertStart, InsertWalk, InsertEnd,
       InsertBack, DeleteDown, DeleteMissing, DeleteLeaf, DeleteInner, FindMin, DeleteCopy,
       DeleteBack, SweepEnter, SweepCheck, SweepBack, RootBack, FindReturn, Return

LEMMA AnchoredStep ==
    ASSUME TypeOK, Anchored, NEW t \in Thread, Step(t)
    PROVE  Anchored'
  <1>a. th \in [Thread -> Local] /\ th[t].path \in Seq(Frame)
    BY StepFacts
  <1>b. /\ th[t].pc = "d_min" => th[t].cur # Null
        /\ th[t].pc \in {"d_min", "s_check"} => th[t].path # <<>>
    BY DEF Anchored
  <1>1. CASE DeleteInner(t)
    <2>2. th[t].cur # Null /\ node[th[t].cur].right # Null
      BY <1>1 DEF DeleteInner
    <2>1. Push(t, "delete", "right") # <<>>
      BY <2>2, PushNotEmpty, StepFacts, PtrFacts
    <2>3. th' = [th EXCEPT ![t].pc = "d_min", ![t].path = Push(t, "delete", "right"),
                           ![t].cur = node[th[t].cur].right]
      BY <1>1 DEF DeleteInner
    <2>4. th'[t].pc = "d_min" /\ th'[t].path # <<>> /\ th'[t].cur # Null
      BY <2>1, <2>2, <2>3, <1>a DEF Local
    <2> QED BY <2>4, OthersKeepStill DEF Anchored
  <1>2. CASE FindMin(t)
    <2>1. th'[t].pc = "d_min" /\ th'[t].path = th[t].path /\ th'[t].cur # Null
      BY <1>2, <1>a DEF FindMin, At, Local
    <2> QED BY <2>1, <1>2, <1>b, OthersKeepStill DEF Anchored, FindMin, At
  <1>3. CASE SweepBack(t)
    <2>1. \/ th' = [th EXCEPT ![t].pc = "s_enter", ![t].cur = node[Top(t).at].right,
                              ![t].path = Append(Pop(t), [Top(t) EXCEPT !.side = "right"])]
          \/ th' = [th EXCEPT ![t].pc = "s_check"]
      BY <1>3 DEF SweepBack
    <2>2. th'[t].pc = "s_enter" \/ (th'[t].pc = "s_check" /\ th'[t].path = th[t].path)
      BY <2>1, <1>a DEF Local
    <2>3. th[t].path # <<>>
      BY <1>3 DEF SweepBack
    <2> QED BY <2>2, <2>3, OthersKeepStill DEF Anchored
  <1> DEFINE Elsewhere == th'[t].pc \notin {"d_min", "s_check"}
  <1>4. CASE t \in Client /\ Find(t)
    <2>1. Elsewhere
      BY <1>4, <1>a DEF Find, FindUnlock, FindLock, FindWalk, FindReturn, At, Local
    <2> QED BY <2>1, OthersKeepStill DEF Anchored
  <1>5. CASE t \in Client /\ Assign(t)
    <2>1. CASE AssignNext(t) \/ AssignUnlock(t)
      <3>1. Elsewhere
        BY <2>1, <1>a DEF AssignNext, AssignUnlock, Return, Idle, Local
      <3> QED BY <3>1, OthersKeepStill DEF Anchored
    <2>2. CASE ~AssignNext(t) /\ ~AssignUnlock(t)
      <3>1. Elsewhere
        BY <2>2, <1>5, <1>a DEF Assign, AssignLock, AssignCursor, AssignRead, AssignAdvance,
           AssignWrap, Local
      <3> QED BY <3>1, OthersKeepStill DEF Anchored
    <2> QED BY <2>1, <2>2
  <1>6. CASE t \in Client /\ Answer(t)
    <2>1. CASE RequestFound(t) \/ RenewWrite(t)
      <3>1. Elsewhere
        BY <2>1, <1>a DEF RequestFound, RenewWrite, Return, Idle, Local
      <3> QED BY <3>1, OthersKeepStill DEF Anchored
    <2>2. CASE RenewFound(t) \/ GiveBackFound(t)
      <3>1. Elsewhere
        BY <2>2, <1>a DEF RenewFound, GiveBackFound, Return, Idle, Local
      <3> QED BY <3>1, OthersKeepStill DEF Anchored
    <2> QED BY <2>1, <2>2, <1>6 DEF Answer
  <1>7. CASE t \in Client /\ Insert(t)
    <2>1. Elsewhere
      BY <1>7, <1>a DEF Insert, InsertStart, InsertWalk, InsertEnd, InsertBack, At, Local
    <2> QED BY <2>1, OthersKeepStill DEF Anchored
  <1>8. CASE DeleteDown(t) \/ DeleteMissing(t) \/ DeleteLeaf(t) \/ DeleteCopy(t) \/ DeleteBack(t)
    <2>1. Elsewhere
      BY <1>8, <1>a DEF DeleteDown, DeleteMissing, DeleteLeaf, DeleteCopy, DeleteBack, At, Local
    <2> QED BY <2>1, OthersKeepStill DEF Anchored
  <1>9. CASE SweepEnter(t) \/ SweepCheck(t)
    <2>1. Elsewhere
      BY <1>9, <1>a DEF SweepEnter, SweepCheck, At, Local
    <2> QED BY <2>1, OthersKeepStill DEF Anchored
  <1>10. CASE RootBack(t)
    <2>1. Elsewhere
      BY <1>10, <1>a DEF RootBack, Return, Idle, Local
    <2> QED BY <2>1, OthersKeepStill DEF Anchored
  <1> QED
    BY <1>1, <1>2, <1>3, <1>4, <1>5, <1>6, <1>7, <1>8, <1>9, <1>10 DEF Step, Delete, Sweep
-----------------------------------------------------------------------------
(* A step leaves the mutex unlocked, or its thread holding it, or it is the     *)
(* step of a thread that did not hold it.                                       *)
LEMMA LockStep ==
    ASSUME TypeOK, NEW t \in Thread, Step(t), locked'
    PROVE  Holding(t)' \/ (locked /\ ~Holding(t))
  <1>a. th \in [Thread -> Local] /\ th[t].path \in Seq(Frame)
    BY StepFacts
  <1>1. CASE DeleteDown(t) \/ DeleteInner(t)
    <2>1. PICK side \in Side :
            /\ th'[t].pc \in {"d_lock", "d_min"}
            /\ th'[t].path = Append(th[t].path, [at |-> th[t].cur, side |-> side,
                                                by |-> "delete", time |-> now])
      BY <1>1, <1>a DEF DeleteDown, DeleteInner, Push, SideOf, Side, At, Local
    <2>2. th'[t].path # <<>> /\ th'[t].path[Len(th'[t].path)].by = "delete"
      BY <2>1, <1>a
    <2> QED BY <2>1, <2>2 DEF Holding, Top
  <1>2. CASE FindMin(t) \/ DeleteCopy(t)
    <2>1. CASE FindMin(t)
      <3>1. th'[t].path = th[t].path /\ th'[t].pc = "d_min" /\ th[t].pc = "d_min"
            /\ locked' = locked
        BY <2>1, <1>a DEF FindMin, At, Local
      <3> QED BY <3>1 DEF Holding, Top
    <2>2. CASE DeleteCopy(t)
      <3>1. th'[t].path = th[t].path /\ th'[t].pc = "d_lock" /\ th[t].pc = "d_min"
            /\ locked' = locked
        BY <2>2, <1>a DEF DeleteCopy, At, Local
      <3> QED BY <3>1 DEF Holding, Top
    <2> QED BY <1>2, <2>1, <2>2
  <1>3. CASE Find(t) \/ Assign(t) \/ Answer(t)
    <2>1. CASE Find(t)
      <3>1. CASE FindUnlock(t) \/ FindReturn(t)
        BY <3>1 DEF FindUnlock, FindReturn
      <3>2. CASE FindLock(t)
        BY <3>2, <1>a DEF FindLock, Holding, Local
      <3>3. CASE FindWalk(t) /\ ~FindReturn(t)
        <4>1. th' = [th EXCEPT ![t].cur = Child(th[t].cur, SideOf(th[t].ip, th[t].cur))]
              /\ th[t].pc = "f_walk"
          BY <3>3 DEF FindWalk, At
        <4>2. th'[t].pc = "f_walk"
          BY <4>1, <1>a DEF Local
        <4> QED BY <4>2 DEF Holding
      <3> QED BY <2>1, <3>1, <3>2, <3>3 DEF Find
    <2>2. CASE AssignLock(t) \/ AssignCursor(t) \/ AssignRead(t)
      BY <2>2, <1>a DEF AssignLock, AssignCursor, AssignRead, Holding, Local
    <2>3. CASE AssignNext(t)
      BY <2>3, <1>a DEF AssignNext, Holding, Local
    <2>4. CASE AssignAdvance(t) \/ AssignWrap(t) \/ AssignUnlock(t)
      BY <2>4 DEF AssignAdvance, AssignWrap, AssignUnlock, Holding, At
    <2>5. CASE Answer(t)
      BY <2>5 DEF Answer, RequestFound, RenewFound, RenewWrite, GiveBackFound, Holding, At
    <2> QED BY <1>3, <2>1, <2>2, <2>3, <2>4, <2>5 DEF Assign
  <1>4. CASE Insert(t)
    BY <1>4, <1>a DEF Insert, InsertStart, InsertWalk, InsertEnd, InsertBack, Holding, At
  <1>5. CASE DeleteMissing(t) \/ DeleteLeaf(t) \/ DeleteBack(t)
    BY <1>5 DEF DeleteMissing, DeleteLeaf, DeleteBack
  <1>6. CASE Sweep(t) \/ RootBack(t)
    BY <1>6 DEF Sweep, SweepEnter, SweepCheck, SweepBack, RootBack, Holding, At
  <1> QED BY <1>1, <1>2, <1>3, <1>4, <1>5, <1>6 DEF Step, Delete

LEMMA NotOrphanedStep ==
    ASSUME TypeOK, LockNeverOrphaned, NEW t \in Thread, Step(t)
    PROVE  LockNeverOrphaned'
  <1> SUFFICES ASSUME locked' PROVE \E u \in Thread : Holding(u)'
    BY DEF LockNeverOrphaned
  <1>1. CASE Holding(t)'
    BY <1>1
  <1>2. CASE locked /\ ~Holding(t)
    <2>1. PICK u \in Thread : Holding(u)
      BY <1>2 DEF LockNeverOrphaned
    <2>2. th'[u] = th[u]
      BY <1>2, <2>1, OthersKeepStill
    <2> QED BY <2>1, <2>2 DEF Holding, Top
  <1> QED BY <1>1, <1>2, LockStep

-----------------------------------------------------------------------------
(* Steps that write the cursor, and the steps of threads in its window. *)
LEMMA CursorStep ==
    ASSUME TypeOK, CursorHome, NEW t \in Thread, Step(t)
    PROVE  CursorHome'
  <1>a. th \in [Thread -> Local]
    BY StepFacts
  <1>1. CASE AssignAdvance(t)
    <2>1. th'[t].pc = "a_wrap"
      BY <1>1, <1>a DEF AssignAdvance, Local
    <2> QED BY <2>1 DEF CursorHome
  <1>2. CASE AssignWrap(t) \/ AssignCursor(t)
    <2>1. ~(cursor' > EndIp)
      BY <1>2, StepFacts, TableAssumption DEF AssignWrap, AssignCursor, Wrapped, Pool, Ip
    <2> QED BY <2>1 DEF CursorHome
  <1>3. CASE ~AssignAdvance(t) /\ ~AssignWrap(t) /\ ~AssignCursor(t)
    <2>1. UNCHANGED cursor
      <3>1. CASE Find(t) \/ Assign(t) \/ Answer(t)
        BY <1>3, <3>1 DEF Find, Assign, Answer, FindUnlock, FindLock, FindWalk, AssignLock,
           AssignRead, AssignNext, AssignUnlock, RequestFound, RenewFound, RenewWrite,
           GiveBackFound
      <3>2. CASE Insert(t) \/ Sweep(t) \/ RootBack(t)
        BY <3>2 DEF Insert, InsertStart, InsertWalk, InsertEnd, InsertBack, Sweep, SweepEnter,
           SweepCheck, SweepBack, RootBack
      <3>3. CASE Delete(t)
        BY <3>3 DEF Delete, DeleteDown, DeleteMissing, DeleteLeaf, DeleteInner, FindMin,
           DeleteCopy, DeleteBack
      <3> QED BY <3>1, <3>2, <3>3 DEF Step
    <2>2. th[t].pc # "a_wrap"
      <3>1. CASE Find(t) \/ Assign(t) \/ Answer(t)
        BY <1>3, <3>1 DEF Find, Assign, Answer, FindUnlock, FindLock, FindWalk, AssignLock,
           AssignRead, AssignNext, AssignUnlock, RequestFound, RenewFound, RenewWrite,
           GiveBackFound, At
      <3>2. CASE Insert(t) \/ Sweep(t) \/ RootBack(t)
        BY <3>2 DEF Insert, InsertStart, InsertWalk, InsertEnd, InsertBack, Sweep, SweepEnter,
           SweepCheck, SweepBack, RootBack, At
      <3>3. CASE Delete(t)
        BY <3>3 DEF Delete, DeleteDown, DeleteMissing, DeleteLeaf, DeleteInner, FindMin,
           DeleteCopy, DeleteBack, At
      <3> QED BY <3>1, <3>2, <3>3 DEF Step
    <2>3. \A u \in Thread : th[u].pc = "a_wrap" => th'[u].pc = "a_wrap"
      BY <2>2, OthersKeepStill
    <2> QED BY <2>1, <2>3 DEF CursorHome
  <1> QED BY <1>1, <1>2, <1>3

-----------------------------------------------------------------------------
(* The inductive invariant. *)
TableInv == TypeOK /\ Anchored /\ LockNeverOrphaned /\ CursorHome

LEMMA TableInit == Init => TableInv
  <1> SUFFICES ASSUME Init PROVE TableInv
    OBVIOUS
  <1>1. TypeOK
    <2>1. "none" \in DOMAIN Stages
      BY DEF Stages
    <2>2. [ip |-> 0, mac |-> Nobody, start |-> 0, left |-> Null, right |-> Null] \in Node
      BY PtrFacts DEF Node, Ip
    <2>3. node \in [Addr -> Node] /\ used \subseteq Addr /\ root \in Ptr
      BY <2>2, PtrFacts DEF Init
    <2>4. th \in [Thread -> Local]
      BY IdleLocal DEF Init
    <2>5. calls \in 0..MaxCalls /\ stage \in [Client -> DOMAIN Stages]
      BY <2>1, TableAssumption DEF Init
    <2>6. promised \in [Client -> SUBSET Ip] /\ cursor \in Ip
      BY DEF Init, Ip
    <2> QED BY <2>3, <2>4, <2>5, <2>6 DEF Init, TypeOK
  <1>2. \A t \in Thread : th[t].pc = "idle"
    BY DEF Init, Idle
  <1>3. Anchored /\ LockNeverOrphaned
    BY <1>2 DEF Anchored, LockNeverOrphaned, Init
  <1>4. CursorHome
    BY TableAssumption DEF Init, CursorHome
  <1> QED BY <1>1, <1>3, <1>4 DEF TableInv

LEMMA TableStep == TableInv /\ [Next]_vars => TableInv'
  <1> SUFFICES ASSUME TableInv, [Next]_vars PROVE TableInv'
    OBVIOUS
  <1> USE DEF TableInv
  <1>1. ASSUME NEW t \in Thread, Step(t) PROVE TableInv'
    <2>1. TypeOK'
      BY <1>1, LocalsStep, HeapStep, RestStep DEF TypeOK
    <2> QED BY <1>1, <2>1, AnchoredStep, NotOrphanedStep, CursorStep
  <1>2. ASSUME NEW t \in Thread, NEW l \in Local, th' = [th EXCEPT ![t] = l],
               th[t].pc = "idle", l.pc \notin {"d_min", "s_check"},
               UNCHANGED <<heapVars, locked, cursor, now, alive, intact, promised>>,
               calls' \in 0..MaxCalls, stage' \in [Client -> DOMAIN Stages]
        PROVE  TableInv'
    <2>1. TypeOK'
      BY <1>2 DEF TypeOK, heapVars
    <2>2. Anchored'
      BY <1>2 DEF Anchored, TypeOK
    <2>3. LockNeverOrphaned'
      <3>1. ASSUME NEW u \in Thread, Holding(u) PROVE Holding(u)'
        BY <1>2, <3>1 DEF Holding, Top, TypeOK
      <3> QED BY <1>2, <3>1 DEF LockNeverOrphaned
    <2>4. CursorHome'
      <3>1. \A u \in Thread : th[u].pc = "a_wrap" => th'[u].pc = "a_wrap"
        BY <1>2 DEF TypeOK
      <3> QED BY <1>2, <3>1 DEF CursorHome
    <2> QED BY <2>1, <2>2, <2>3, <2>4
  <1>3. ASSUME NEW c \in Client, BeginHandling(c) PROVE TableInv'
    <2>1. PICK op \in Stages[stage[c]] \cap Calls, ip \in Pool :
            /\ stage' = [stage EXCEPT ![c] = NextStage(c, op)]
            /\ th' = [th EXCEPT ![c] = IF op = "assign"
                                        THEN [Idle EXCEPT !.pc = "a_lock", !.op = op]
                                        ELSE [Idle EXCEPT !.pc = "f_unlock", !.op = op, !.ip = ip]]
      BY <1>3 DEF BeginHandling
    <2> DEFINE l == IF op = "assign"
                    THEN [Idle EXCEPT !.pc = "a_lock", !.op = op]
                    ELSE [Idle EXCEPT !.pc = "f_unlock", !.op = op, !.ip = ip]
    <2>2. op \in Op
      BY <2>1, Names DEF Stages, TypeOK
    <2>3. l \in Local /\ l.pc \notin {"d_min", "s_check"}
      BY <2>2, IdleLocal, Names, PoolNotEmpty DEF Local, Idle
    <2>4. stage' \in [Client -> DOMAIN Stages] /\ calls' \in 0..MaxCalls
      BY <1>3, <2>1, TableAssumption DEF BeginHandling, Stages, NextStage, TypeOK
    <2>5. c \in Thread /\ th[c].pc = "idle"
          /\ UNCHANGED <<heapVars, locked, cursor, now, alive, intact, promised>>
      BY <1>3 DEF BeginHandling, At, Thread
    <2> HIDE DEF l
    <2> QED BY <1>2, <2>1, <2>3, <2>4, <2>5 DEF l
  <1>4. CASE BeginSweep
    <2> DEFINE l == [Idle EXCEPT !.pc = "s_enter", !.op = "sweep", !.cur = root]
    <2>1. l \in Local /\ l.pc \notin {"d_min", "s_check"}
      BY IdleLocal, Names DEF Local, Idle, TypeOK
    <2>2. th' = [th EXCEPT ![Main] = l] /\ Main \in Thread /\ th[Main].pc = "idle"
          /\ UNCHANGED <<heapVars, locked, cursor, now, alive, intact, promised>>
      BY <1>4 DEF BeginSweep, At, Thread
    <2>3. stage' \in [Client -> DOMAIN Stages] /\ calls' \in 0..MaxCalls
      BY <1>4, TableAssumption DEF BeginSweep, TypeOK
    <2> HIDE DEF l
    <2> QED BY <1>2, <2>1, <2>2, <2>3
  <1>5. CASE Tick
    <2>1. TypeOK'
      BY <1>5 DEF TypeOK, Tick, heapVars
    <2> QED BY <1>5, <2>1 DEF Tick, Anchored, LockNeverOrphaned, Holding, Top, CursorHome
  <1>6. CASE UNCHANGED vars
    <2>1. TypeOK'
      BY <1>6 DEF TypeOK, vars, heapVars
    <2> QED BY <1>6, <2>1 DEF vars, Anchored, LockNeverOrphaned, Holding, Top, CursorHome
  <1> QED BY <1>1, <1>3, <1>4, <1>5, <1>6 DEF Next

(* Every variable keeps its type, the thread's locals and the heap included,    *)
(* through every interleaving of dhcp_server.c:630-798.                         *)
THEOREM TypeCorrect == Spec => []TypeOK
  <1>1. Spec => []TableInv
    BY TableInit, TableStep, PTL DEF Spec
  <1>2. TableInv => TypeOK
    BY DEF TableInv
  <1> QED BY <1>1, <1>2, PTL

(* No return of find_ip_assignment, assign_ip_address or delete_ip_assignment   *)
(* leaves ip_assignment_mutex locked with nobody left to unlock it.             *)
THEOREM MutexReleased == Spec => []LockNeverOrphaned
  <1>1. Spec => []TableInv
    BY TableInit, TableStep, PTL DEF Spec
  <1>2. TableInv => LockNeverOrphaned
    BY DEF TableInv
  <1> QED BY <1>1, <1>2, PTL

(* last_assigned_ip never stays past the range, however many handlers write it  *)
(* over one another.                                                            *)
THEOREM CursorReturns == Spec => []CursorHome
  <1>1. Spec => []TableInv
    BY TableInit, TableStep, PTL DEF Spec
  <1>2. TableInv => CursorHome
    BY DEF TableInv
  <1> QED BY <1>1, <1>2, PTL
=============================================================================

-------------------------- MODULE SearchOrderProofs --------------------------
(***************************************************************************)
(* Why insertions without a lock leave a search tree, for every number of  *)
(* handlers and any heap: each block is born for one place in the tree,    *)
(* and every pointer to it, in the heap or in a thread's locals, is for    *)
(* that place.                                                             *)
(***************************************************************************)
EXTENDS IpAssignmentsProofs

(* K[a] is the set of the addresses that belong at or below block a: what the   *)
(* comparisons on the way down to its place leave.                              *)
Slot(K, a, side) ==
    {x \in K[a] : IF side = "left" THEN x < node[a].ip ELSE x > node[a].ip}
SlotAt(K, path, i) == IF i = 0 THEN Ip ELSE Slot(K, path[i].at, path[i].side)
End(K, path) == SlotAt(K, path, Len(path))
Fits(K, p, S) == p # Null => p \in used /\ K[p] = S

(* The tree, and any part of it that an overwritten pointer has cut off. *)
HeapOrder(K) ==
    /\ Fits(K, root, Ip)
    /\ \A a \in used : /\ node[a].ip \in K[a]
                       /\ Fits(K, node[a].left, Slot(K, a, "left"))
                       /\ Fits(K, node[a].right, Slot(K, a, "right"))

(* A recursion goes from each frame to a child of its block, and brings back    *)
(* what belongs there.                                                          *)
Chain(K, path) == \A i \in 1..Len(path) :
    path[i].at \in used /\ K[path[i].at] = SlotAt(K, path, i - 1)
Busy == {"i_walk", "d_lock", "d_min", "s_enter", "s_check", "back"}
PathOrder(K, l) ==
    /\ Chain(K, l.path)
    /\ l.pc \in {"i_walk", "d_lock", "s_enter"} => Fits(K, l.cur, End(K, l.path))
    /\ l.pc = "back" => Fits(K, l.ret, End(K, l.path))
    /\ l.pc = "i_walk" => l.ip \in End(K, l.path)
    /\ l.pc \notin Busy => l.path = <<>>

Places == [Addr -> SUBSET Ip]
Ordered(K) == HeapOrder(K) /\ \A t \in Thread : PathOrder(K, th[t])
OrderInv == intact => \E K \in Places : Ordered(K)

-----------------------------------------------------------------------------
LEMMA ChainEmpty ==
    ASSUME NEW K
    PROVE  Chain(K, <<>>) /\ End(K, <<>>) = Ip
BY DEF Chain, End, SlotAt

LEMMA ChainPush ==
    ASSUME NEW K, NEW path \in Seq(Frame), NEW e \in Frame, Chain(K, path),
           e.at \in used, K[e.at] = End(K, path)
    PROVE  /\ Chain(K, Append(path, e))
           /\ End(K, Append(path, e)) = Slot(K, e.at, e.side)
<1> DEFINE q == Append(path, e)
<1>1. /\ Len(path) \in Nat /\ Len(q) = Len(path) + 1 /\ q[Len(path) + 1] = e
      /\ \A i \in 1..Len(path) : q[i] = path[i]
  BY PushElements
<1> HIDE DEF q
<1>2. \A i \in 0..Len(path) : SlotAt(K, q, i) = SlotAt(K, path, i)
  BY <1>1 DEF SlotAt
<1>3. ASSUME NEW i \in 1..Len(q)
      PROVE  q[i].at \in used /\ K[q[i].at] = SlotAt(K, q, i - 1)
  <2>1. CASE i = Len(q)
    BY <1>1, <1>2, <2>1 DEF End
  <2>2. CASE i \in 1..Len(path)
    <3>1. i - 1 \in 0..Len(path)
      BY <1>1, <2>2
    <3> QED  BY <1>1, <1>2, <2>2, <3>1 DEF Chain
  <2> QED  BY <1>1, <2>1, <2>2
<1>4. End(K, q) = Slot(K, e.at, e.side)
  BY <1>1 DEF End, SlotAt
<1> QED  BY <1>3, <1>4 DEF Chain, q

LEMMA ChainPop ==
    ASSUME NEW K, NEW path \in Seq(Frame), path # <<>>, Chain(K, path)
    PROVE  LET top  == path[Len(path)]
               rest == SubSeq(path, 1, Len(path) - 1)
           IN  /\ top \in Frame /\ rest \in Seq(Frame)
               /\ top.at \in used /\ K[top.at] = End(K, rest)
               /\ End(K, path) = Slot(K, top.at, top.side)
               /\ Chain(K, rest)
<1> DEFINE top == path[Len(path)]
           rest == SubSeq(path, 1, Len(path) - 1)
<1>1. /\ rest \in Seq(Frame) /\ top \in Frame /\ Len(path) \in Nat \ {0}
      /\ Len(rest) = Len(path) - 1 /\ \A i \in 1..(Len(path) - 1) : rest[i] = path[i]
  BY PopElements
<1> HIDE DEF rest
<1>2. \A i \in 0..(Len(path) - 1) : SlotAt(K, rest, i) = SlotAt(K, path, i)
  BY <1>1 DEF SlotAt
<1>3. top.at \in used /\ K[top.at] = SlotAt(K, path, Len(path) - 1)
  BY <1>1 DEF Chain
<1>4. K[top.at] = End(K, rest)
  BY <1>1, <1>2, <1>3 DEF End
<1>5. End(K, path) = Slot(K, top.at, top.side)
  BY <1>1 DEF End, SlotAt
<1>6. Chain(K, rest)
  <2> SUFFICES ASSUME NEW i \in 1..Len(rest)
               PROVE  rest[i].at \in used /\ K[rest[i].at] = SlotAt(K, rest, i - 1)
    BY DEF Chain
  <2>1. i \in 1..Len(path) /\ i \in 1..(Len(path) - 1) /\ i - 1 \in 0..(Len(path) - 1)
    BY <1>1
  <2> QED  BY <1>1, <1>2, <2>1 DEF Chain
<1> QED  BY <1>1, <1>3, <1>4, <1>5, <1>6 DEF rest

-----------------------------------------------------------------------------
(* Places survive a step that frees no block and changes no address of one. *)
Grows(K, L) ==
    /\ used \subseteq used'
    /\ \A a \in used : L[a] = K[a] /\ node'[a].ip = node[a].ip

LEMMA ChainMoves ==
    ASSUME NEW K, NEW L, NEW path \in Seq(Frame), Grows(K, L), Chain(K, path)
    PROVE  Chain(L, path)' /\ End(L, path)' = End(K, path)
<1>1. Len(path) \in Nat /\ \A i \in 1..Len(path) : path[i] \in Frame
  OBVIOUS
<1>2. \A a \in used, side \in Side : Slot(L, a, side)' = Slot(K, a, side)
  BY DEF Grows, Slot
<1>3. \A i \in 0..Len(path) : SlotAt(L, path, i)' = SlotAt(K, path, i)
  <2> SUFFICES ASSUME NEW i \in 1..Len(path)
               PROVE  SlotAt(L, path, i)' = SlotAt(K, path, i)
    BY <1>1 DEF SlotAt
  <2>1. path[i].at \in used
    BY DEF Chain
  <2>2. path[i].side \in Side
    BY <1>1 DEF Frame
  <2> QED  BY <1>2, <2>1, <2>2 DEF SlotAt
<1>4. Chain(L, path)'
  <2> SUFFICES ASSUME NEW i \in 1..Len(path)
               PROVE  path[i].at \in used' /\ L[path[i].at] = SlotAt(L, path, i - 1)'
    BY DEF Chain
  <2>1. path[i].at \in used /\ K[path[i].at] = SlotAt(K, path, i - 1)
    BY DEF Chain
  <2>2. i - 1 \in 0..Len(path)
    BY <1>1
  <2> QED  BY <1>3, <2>1, <2>2 DEF Grows
<1>5. End(L, path)' = End(K, path)
  BY <1>1, <1>3 DEF End
<1> QED  BY <1>4, <1>5

LEMMA PathMoves ==
    ASSUME NEW K, NEW L, NEW l \in Local, Grows(K, L), PathOrder(K, l)
    PROVE  PathOrder(L, l)'
<1>1. Chain(L, l.path)' /\ End(L, l.path)' = End(K, l.path)
  BY ChainMoves DEF PathOrder, Local
<1>2. \A p, S : Fits(K, p, S) => Fits(L, p, S)'
  BY DEF Fits, Grows
<1> QED  BY <1>1, <1>2 DEF PathOrder

(* The heap keeps its order when no pointer changes but perhaps the root, *)
LEMMA HeapStays ==
    ASSUME NEW K, HeapOrder(K), used' = used, Fits(K, root', Ip),
           \A a \in used : /\ node'[a].ip = node[a].ip /\ node'[a].left = node[a].left
                           /\ node'[a].right = node[a].right
    PROVE  HeapOrder(K)' /\ Grows(K, K)
<1>1. \A a \in used, side \in {"left", "right"} : Slot(K, a, side)' = Slot(K, a, side)
  BY DEF Slot
<1>2. \A p, S : Fits(K, p, S) => Fits(K, p, S)'
  BY DEF Fits
<1>3. Fits(K, root, Ip)'
  BY DEF Fits
<1> QED  BY <1>1, <1>2, <1>3 DEF HeapOrder, Grows

(* when a pointer is stored in the place it is for, *)
LEMMA HeapStore ==
    ASSUME TypeOK, NEW K, HeapOrder(K), NEW a \in used, NEW side \in Side, NEW p,
           Fits(K, p, Slot(K, a, side)), Store(a, side, p), used' = used, root' = root
    PROVE  HeapOrder(K)' /\ Grows(K, K)
<1>1. node \in [Addr -> Node] /\ used \subseteq Addr
  BY DEF TypeOK
<1>2. \A b \in used :
         /\ node'[b].ip = node[b].ip
         /\ node'[b].left = IF b = a /\ side = "left" THEN p ELSE node[b].left
         /\ node'[b].right = IF b = a /\ side = "right" THEN p ELSE node[b].right
  BY <1>1 DEF Store, Node, Side
<1>3. \A b \in used, s \in {"left", "right"} : Slot(K, b, s)' = Slot(K, b, s)
  BY <1>2 DEF Slot
<1>4. \A q, S : Fits(K, q, S) => Fits(K, q, S)'
  BY DEF Fits
<1>5. Fits(K, root, Ip)'
  BY <1>4 DEF HeapOrder, Fits
<1> QED  BY <1>2, <1>3, <1>4, <1>5 DEF HeapOrder, Grows

(* and when a free block becomes a leaf for some place. *)
LEMMA HeapLink ==
    ASSUME TypeOK, NEW K \in Places, HeapOrder(K), NEW a \in Addr \ used, NEW S \in SUBSET Ip,
           NEW new, new.ip \in S, new.left = Null, new.right = Null,
           node' = [node EXCEPT ![a] = new], used' = used \cup {a}, root' = root
    PROVE  LET L == [K EXCEPT ![a] = S]
           IN  L \in Places /\ HeapOrder(L)' /\ Grows(K, L) /\ Fits(L, a, S)'
<1> DEFINE L == [K EXCEPT ![a] = S]
<1>1. node \in [Addr -> Node] /\ used \subseteq Addr
  BY DEF TypeOK
<1>2. L \in Places /\ L[a] = S /\ \A b \in used : L[b] = K[b]
  BY <1>1 DEF Places
<1> HIDE DEF L
<1>3. node'[a] = new /\ \A b \in used : node'[b] = node[b]
  BY <1>1
<1>4. \A b \in used, s \in {"left", "right"} : Slot(L, b, s)' = Slot(K, b, s)
  BY <1>2, <1>3 DEF Slot
<1>5. \A p, T : Fits(K, p, T) => Fits(L, p, T)'
  BY <1>2 DEF Fits
<1>6. \A b \in used : /\ node'[b].ip \in L[b]
                      /\ Fits(L, node[b].left, Slot(L, b, "left"))'
                      /\ Fits(L, node[b].right, Slot(L, b, "right"))'
  <2> SUFFICES ASSUME NEW b \in used
               PROVE  /\ node'[b].ip \in L[b]
                      /\ Fits(L, node[b].left, Slot(L, b, "left"))'
                      /\ Fits(L, node[b].right, Slot(L, b, "right"))'
    OBVIOUS
  <2>1. /\ node[b].ip \in K[b] /\ Fits(K, node[b].left, Slot(K, b, "left"))
        /\ Fits(K, node[b].right, Slot(K, b, "right"))
    BY DEF HeapOrder
  <2>2. Slot(L, b, "left")' = Slot(K, b, "left") /\ Slot(L, b, "right")' = Slot(K, b, "right")
    BY <1>4
  <2> QED  BY <1>2, <1>3, <2>1, <2>2 DEF Fits
<1>7. /\ node'[a].ip \in L[a] /\ Fits(L, node[a].left, Slot(L, a, "left"))'
      /\ Fits(L, node[a].right, Slot(L, a, "right"))'
  BY <1>2, <1>3 DEF Fits
<1>8. Fits(L, root, Ip)' /\ Fits(L, a, S)'
  BY <1>2 DEF HeapOrder, Fits
<1>9. HeapOrder(L)'
  BY <1>6, <1>7, <1>8 DEF HeapOrder
<1> QED  BY <1>2, <1>3, <1>8, <1>9 DEF Grows, L

(* The threads that stand still keep their paths, whatever the mover does. *)
LEMMA MoverDone ==
    ASSUME TypeOK, NEW K \in Places, NEW L \in Places, Ordered(K), Grows(K, L), HeapOrder(L)',
           NEW t \in Thread, \A u \in Thread \ {t} : th'[u] = th[u],
           NEW l \in Local, th'[t] = l, PathOrder(L, l)'
    PROVE  OrderInv'
<1>1. ASSUME NEW u \in Thread PROVE PathOrder(L, th[u])'
  <2>1. CASE u = t
    BY <2>1 DEF PathOrder
  <2>2. CASE u # t
    <3>1. PICK k \in Local : k = th[u]
      BY DEF TypeOK
    <3>2. PathOrder(K, k) /\ th'[u] = k
      BY <2>2, <3>1 DEF Ordered
    <3>3. PathOrder(L, k)'
      BY <3>2, PathMoves
    <3> QED  BY <3>2, <3>3 DEF PathOrder
  <2> QED  BY <2>1, <2>2
<1> QED  BY <1>1 DEF OrderInv, Ordered

LEMMA MoverStays ==
    ASSUME TypeOK, NEW K \in Places, Ordered(K), Grows(K, K), HeapOrder(K)',
           NEW t \in Thread, \A u \in Thread \ {t} : th'[u] = th[u],
           NEW l \in Local, th'[t] = l, PathOrder(K, l)
    PROVE  OrderInv'
BY PathMoves, MoverDone

LEMMA HeapUnchanged ==
    ASSUME NEW K, HeapOrder(K), UNCHANGED heapVars
    PROVE  HeapOrder(K)' /\ Grows(K, K)
<1>1. Fits(K, root', Ip) /\ node' = node /\ used' = used
  BY DEF HeapOrder, heapVars
<1> QED  BY <1>1, HeapStays

-----------------------------------------------------------------------------
(* A thread that is in no recursion has an empty path. *)
LEMMA RestOrder ==
    ASSUME NEW K, NEW l, l.path = <<>>, l.pc \notin Busy
    PROVE  PathOrder(K, l)
BY ChainEmpty DEF PathOrder, Busy

Lookup(t) == Find(t) \/ Assign(t) \/ RequestFound(t) \/ RenewFound(t) \/ RenewWrite(t)

LEMMA LookupOrder ==
    ASSUME TypeOK, NEW K \in Places, Ordered(K), NEW t \in Thread, Lookup(t)
    PROVE  PathOrder(K, th'[t]) /\ HeapOrder(K)' /\ Grows(K, K)
<1>1. th[t] \in Local /\ PathOrder(K, th[t]) /\ HeapOrder(K)
  BY DEF TypeOK, Ordered
<1>2. th[t].path = <<>>
  BY <1>1 DEF Lookup, Find, Assign, FindUnlock, FindLock, FindWalk, AssignLock, AssignCursor,
              AssignRead, AssignNext, AssignAdvance, AssignWrap, AssignUnlock, RequestFound,
              RenewFound, RenewWrite, At, PathOrder, Busy
<1>3. th'[t].path = <<>> /\ th'[t].pc \notin Busy
  <2> USE DEF TypeOK, Busy
  <2>1. CASE Return(t)
    <3>1. th'[t] = [Idle EXCEPT !.pc = IF th[t].op = "giveback" THEN "ended" ELSE "idle"]
      BY <2>1 DEF Return
    <3> QED  BY <3>1 DEF Idle
  <2>2. CASE FindUnlock(t) \/ FindLock(t) \/ FindWalk(t)
    <3>1. CASE FindUnlock(t) \/ FindLock(t)
      BY <1>2, <3>1 DEF FindUnlock, FindLock, Local
    <3>2. CASE FindWalk(t)
      <4>1. \/ th' = [th EXCEPT ![t].pc = "found"]
            \/ th' = [th EXCEPT ![t].cur = Child(th[t].cur, SideOf(th[t].ip, th[t].cur))]
        BY <3>2 DEF FindWalk, FindReturn
      <4> QED  BY <1>2, <3>2, <4>1 DEF FindWalk, At, Local
    <3> QED  BY <2>2, <3>1, <3>2
  <2>3. CASE AssignLock(t) \/ AssignCursor(t) \/ AssignRead(t) \/ AssignAdvance(t) \/ AssignWrap(t)
    BY <1>2, <2>3 DEF AssignLock, AssignCursor, AssignRead, AssignAdvance, AssignWrap, Local
  <2>4. CASE (AssignNext(t) \/ RenewFound(t)) /\ ~Return(t)
    BY <1>2, <2>4 DEF AssignNext, RenewFound, Local
  <2> QED
    BY <2>1, <2>2, <2>3, <2>4
       DEF Lookup, Find, Assign, AssignUnlock, RequestFound, RenewWrite
<1>4. CASE RenewWrite(t)
  <2>1. \A a \in Addr : /\ node'[a].ip = node[a].ip /\ node'[a].left = node[a].left
                        /\ node'[a].right = node[a].right
    BY <1>4 DEF RenewWrite, TypeOK, Node
  <2>2. used' = used /\ root' = root /\ used \subseteq Addr /\ Fits(K, root', Ip)
    BY <1>1, <1>4 DEF RenewWrite, TypeOK, HeapOrder
  <2> QED  BY <1>1, <1>3, <2>1, <2>2, HeapStays, RestOrder
<1>5. CASE UNCHANGED heapVars
  BY <1>1, <1>3, <1>5, HeapUnchanged, RestOrder
<1> QED
  BY <1>4, <1>5 DEF Lookup, Find, Assign, FindUnlock, FindLock, FindWalk, AssignLock,
      AssignCursor, AssignRead, AssignNext, AssignAdvance, AssignWrap, AssignUnlock,
      RequestFound, RenewFound

(* A walk begins at the root. *)
LEMMA BeginOrder ==
    ASSUME NEW K, HeapOrder(K), NEW l, l.path = <<>>, l.cur = root, l.ip \in Ip,
           l.pc \in {"i_walk", "d_lock", "s_enter"}
    PROVE  PathOrder(K, l)
BY ChainEmpty DEF PathOrder, HeapOrder, Busy

LEMMA EntryOrder ==
    ASSUME TypeOK, NEW K \in Places, Ordered(K), NEW t \in Thread,
           InsertStart(t) \/ GiveBackFound(t)
    PROVE  PathOrder(K, th'[t]) /\ HeapOrder(K)' /\ Grows(K, K)
<1>1. /\ th[t] \in Local /\ PathOrder(K, th[t]) /\ HeapOrder(K) /\ th[t].ip \in Ip
      /\ UNCHANGED heapVars
  BY DEF TypeOK, Ordered, Local, InsertStart, GiveBackFound
<1>2. th[t].path = <<>>
  BY <1>1 DEF InsertStart, GiveBackFound, At, PathOrder, Busy
<1>3. \/ /\ th'[t].path = <<>> /\ th'[t].cur = root /\ th'[t].ip = th[t].ip
         /\ th'[t].pc \in {"i_walk", "d_lock", "s_enter"}
      \/ th'[t].path = <<>> /\ th'[t].pc \notin Busy
  BY <1>1, <1>2 DEF TypeOK, Local, InsertStart, GiveBackFound, Return, Idle, Busy
<1>4. PathOrder(K, th'[t])
  <2>1. CASE th'[t].path = <<>> /\ th'[t].pc \notin Busy
    BY <2>1, RestOrder
  <2>2. CASE /\ th'[t].path = <<>> /\ th'[t].cur = root /\ th'[t].ip = th[t].ip
             /\ th'[t].pc \in {"i_walk", "d_lock", "s_enter"}
    BY <1>1, <2>2, BeginOrder
  <2> QED  BY <1>3, <2>1, <2>2
<1> QED  BY <1>1, <1>4, HeapUnchanged

(* One level down: the block left behind joins the path. *)
LEMMA DownOrder ==
    ASSUME TypeOK, NEW K \in Places, Ordered(K), NEW t \in Thread,
           \/ InsertWalk(t) \/ DeleteDown(t) \/ DeleteInner(t)
           \/ (SweepEnter(t) /\ th[t].cur # Null)
    PROVE  PathOrder(K, th'[t]) /\ HeapOrder(K)' /\ Grows(K, K)
<1>1. /\ th[t] \in Local /\ PathOrder(K, th[t]) /\ HeapOrder(K) /\ UNCHANGED heapVars
      /\ th[t].path \in Seq(Frame) /\ th[t].ip \in Ip /\ now \in Nat /\ used \subseteq Addr
      /\ th[t].cur # Null /\ th[t].pc \in {"i_walk", "d_lock", "s_enter"}
  BY DEF TypeOK, Ordered, Local, InsertWalk, DeleteDown, DeleteInner, SweepEnter, At
<1>2. th[t].cur \in used /\ K[th[t].cur] = End(K, th[t].path)
  BY <1>1 DEF PathOrder, Fits
<1>3. PICK side \in Side, by \in {"insert", "delete", "sweep"} :
        /\ th'[t].path = Push(t, by, side) /\ th'[t].ip = th[t].ip
        /\ th'[t].pc = "d_min" \/ (th'[t].pc = th[t].pc /\ th'[t].cur = Child(th[t].cur, side))
        /\ th[t].pc = "i_walk" =>
             th'[t].pc = th[t].pc /\ side = SideOf(th[t].ip, th[t].cur)
             /\ node[th[t].cur].ip # th[t].ip
  <2>1. SideOf(th[t].ip, th[t].cur) \in Side /\ "left" \in Side /\ "right" \in Side
    BY DEF SideOf, Side
  <2>2. CASE InsertWalk(t)
    BY <1>1, <2>1, <2>2 DEF TypeOK, Local, InsertWalk, At
  <2>3. CASE DeleteDown(t)
    BY <1>1, <2>1, <2>3 DEF TypeOK, Local, DeleteDown, At
  <2>4. CASE DeleteInner(t)
    BY <1>1, <2>1, <2>4 DEF TypeOK, Local, DeleteInner, At
  <2>5. CASE SweepEnter(t) /\ th[t].cur # Null
    BY <1>1, <2>1, <2>5 DEF TypeOK, Local, SweepEnter, Child, At
  <2> QED  BY <2>2, <2>3, <2>4, <2>5
<1> DEFINE e == [at |-> th[t].cur, side |-> side, by |-> by, time |-> now]
<1>4. e \in Frame /\ e.at = th[t].cur /\ e.side = side /\ th'[t].path = Append(th[t].path, e)
  BY <1>1, <1>2, <1>3 DEF Frame, Push
<1> HIDE DEF e
<1>5. Chain(K, th'[t].path) /\ End(K, th'[t].path) = Slot(K, th[t].cur, side)
  BY <1>1, <1>2, <1>4, ChainPush DEF PathOrder
<1>6. Fits(K, Child(th[t].cur, side), Slot(K, th[t].cur, side))
  BY <1>2, <1>1 DEF HeapOrder, Child, Side
<1>7. th[t].pc = "i_walk" => th[t].ip \in Slot(K, th[t].cur, side)
  <2> SUFFICES ASSUME th[t].pc = "i_walk" PROVE th[t].ip \in Slot(K, th[t].cur, side)
    OBVIOUS
  <2>1. th[t].ip \in K[th[t].cur]
    BY <1>1, <1>2 DEF PathOrder
  <2>2. node[th[t].cur].ip \in Nat /\ th[t].ip \in Nat
    BY <1>1, <1>2 DEF TypeOK, Node, Ip
  <2> QED  BY <1>3, <2>1, <2>2 DEF Slot, SideOf
<1>8. PathOrder(K, th'[t])
  BY <1>1, <1>3, <1>5, <1>6, <1>7 DEF PathOrder, Busy
<1> QED  BY <1>1, <1>8, HeapUnchanged

(* The bottom of a recursion: what it returns fits where it stands. *)
LEMMA BottomOrder ==
    ASSUME TypeOK, NEW K \in Places, Ordered(K), NEW t \in Thread,
           \/ DeleteMissing(t) \/ (SweepEnter(t) /\ th[t].cur = Null)
           \/ (InsertEnd(t) /\ UNCHANGED <<node, used>>)
    PROVE  PathOrder(K, th'[t]) /\ HeapOrder(K)' /\ Grows(K, K)
<1>1. /\ th[t] \in Local /\ PathOrder(K, th[t]) /\ HeapOrder(K) /\ used \subseteq Addr
      /\ th[t].pc \in {"i_walk", "d_lock", "s_enter"} /\ root' = root
  BY DEF TypeOK, Ordered, DeleteMissing, SweepEnter, InsertEnd, At, heapVars
<1>2. node' = node /\ used' = used
  BY <1>1 DEF DeleteMissing, SweepEnter, InsertEnd, heapVars
<1>3. /\ th'[t].path = th[t].path /\ th'[t].pc = "back"
      /\ th'[t].ret = th[t].cur \/ th'[t].ret = Null
  BY <1>1 DEF DeleteMissing, SweepEnter, InsertEnd, TypeOK, Local
<1>4. PathOrder(K, th'[t])
  BY <1>1, <1>3 DEF PathOrder, Fits, Busy
<1> QED  BY <1>1, <1>2, <1>4, HeapUnchanged DEF heapVars

(* A level up: the block that comes back is the one that was left behind. *)
LEMMA BackOrder ==
    ASSUME TypeOK, NEW K \in Places, Ordered(K), NEW t \in Thread,
           InsertBack(t) \/ DeleteBack(t) \/ SweepBack(t)
    PROVE  PathOrder(K, th'[t]) /\ HeapOrder(K)' /\ Grows(K, K)
<1>1. /\ th[t] \in Local /\ PathOrder(K, th[t]) /\ HeapOrder(K)
      /\ th[t].path \in Seq(Frame) /\ th[t].path # <<>> /\ th[t].pc = "back"
      /\ used' = used /\ root' = root /\ Store(Top(t).at, Top(t).side, th[t].ret)
  BY DEF TypeOK, Ordered, Local, InsertBack, DeleteBack, SweepBack, At
<1>2. /\ Top(t) \in Frame /\ Pop(t) \in Seq(Frame)
      /\ Top(t).at \in used /\ K[Top(t).at] = End(K, Pop(t))
      /\ End(K, th[t].path) = Slot(K, Top(t).at, Top(t).side) /\ Chain(K, Pop(t))
  BY <1>1, ChainPop DEF PathOrder, Top, Pop
<1>3. Fits(K, th[t].ret, Slot(K, Top(t).at, Top(t).side)) /\ Top(t).side \in Side
  BY <1>1, <1>2 DEF PathOrder, Frame
<1>4. HeapOrder(K)' /\ Grows(K, K)
  BY <1>1, <1>2, <1>3, HeapStore
<1>5. CASE th' = [th EXCEPT ![t].path = Pop(t), ![t].ret = Top(t).at]
  <2>1. th'[t].path = Pop(t) /\ th'[t].ret = Top(t).at /\ th'[t].pc = "back"
    BY <1>1, <1>5 DEF TypeOK, Local
  <2>2. PathOrder(K, th'[t])
    BY <1>2, <2>1 DEF PathOrder, Fits, Busy
  <2> QED  BY <1>4, <2>2
<1>6. CASE SweepBack(t) /\ Top(t).side = "left"
  <2> DEFINE e == [Top(t) EXCEPT !.side = "right"]
  <2>1. e \in Frame /\ e.at = Top(t).at /\ e.side = "right"
    BY <1>2 DEF Frame, Side
  <2>2. /\ th'[t].path = Append(Pop(t), e) /\ th'[t].cur = node[Top(t).at].right
        /\ th'[t].pc = "s_enter"
    BY <1>1, <1>6 DEF SweepBack, TypeOK, Local
  <2> HIDE DEF e
  <2>3. Chain(K, th'[t].path) /\ End(K, th'[t].path) = Slot(K, Top(t).at, "right")
    BY <1>2, <2>1, <2>2, ChainPush
  <2>4. Fits(K, th'[t].cur, Slot(K, Top(t).at, "right"))
    BY <1>1, <1>2, <2>2 DEF HeapOrder
  <2>5. PathOrder(K, th'[t])
    BY <2>2, <2>3, <2>4 DEF PathOrder, Busy
  <2> QED  BY <1>4, <2>5
<1>7. CASE SweepBack(t) /\ Top(t).side = "right"
  <2>1. th'[t].path = th[t].path /\ th'[t].pc = "s_check"
    BY <1>1, <1>7 DEF SweepBack, TypeOK, Local
  <2>2. PathOrder(K, th'[t])
    BY <1>1, <2>1 DEF PathOrder, Busy
  <2> QED  BY <1>4, <2>2
<1> QED  BY <1>5, <1>6, <1>7 DEF InsertBack, DeleteBack, SweepBack

LEMMA CheckOrder ==
    ASSUME TypeOK, Anchored, NEW K \in Places, Ordered(K), NEW t \in Thread, SweepCheck(t)
    PROVE  PathOrder(K, th'[t]) /\ HeapOrder(K)' /\ Grows(K, K)
<1>1. /\ th[t] \in Local /\ PathOrder(K, th[t]) /\ HeapOrder(K) /\ UNCHANGED heapVars
      /\ th[t].path \in Seq(Frame) /\ th[t].path # <<>>
  BY DEF TypeOK, Ordered, Local, SweepCheck, At, Anchored
<1>2. /\ Top(t).at \in used /\ K[Top(t).at] = End(K, Pop(t)) /\ Chain(K, Pop(t))
  BY <1>1, ChainPop DEF PathOrder, Top, Pop
<1>3. /\ th'[t].path = Pop(t)
      /\ \/ th'[t].pc = "d_lock" /\ th'[t].cur = Top(t).at
         \/ th'[t].pc = "back" /\ th'[t].ret = Top(t).at
  BY <1>1 DEF SweepCheck, TypeOK, Local
<1>4. PathOrder(K, th'[t])
  BY <1>2, <1>3 DEF PathOrder, Fits, Busy
<1> QED  BY <1>1, <1>4, HeapUnchanged

(* The outermost call returns: the root is for every address. *)
LEMMA RootOrder ==
    ASSUME TypeOK, NEW K \in Places, Ordered(K), NEW t \in Thread, RootBack(t)
    PROVE  PathOrder(K, th'[t]) /\ HeapOrder(K)' /\ Grows(K, K)
<1>1. /\ th[t] \in Local /\ PathOrder(K, th[t]) /\ HeapOrder(K) /\ th[t].path = <<>>
      /\ th[t].pc = "back" /\ node' = node /\ used' = used
      /\ root' = root \/ root' = th[t].ret
  BY DEF TypeOK, Ordered, RootBack, At
<1>2. Fits(K, root', Ip)
  BY <1>1, ChainEmpty DEF PathOrder, HeapOrder
<1>3. th'[t].path = <<>> /\ th'[t].pc \notin Busy
  BY <1>1 DEF RootBack, Return, Idle, Busy, TypeOK, Local
<1> QED  BY <1>1, <1>2, <1>3, HeapStays, RestOrder

(* A new leaf: its place is the end of the path that led there. *)
LEMMA LinkOrder ==
    ASSUME TypeOK, NEW K \in Places, Ordered(K), NEW t \in Thread,
           InsertEnd(t), ~UNCHANGED <<node, used>>
    PROVE  \E L \in Places : PathOrder(L, th[t])' /\ HeapOrder(L)' /\ Grows(K, L)
<1>1. /\ th[t] \in Local /\ PathOrder(K, th[t]) /\ HeapOrder(K) /\ root' = root
      /\ th[t].path \in Seq(Frame) /\ th[t].pc = "i_walk" /\ th[t].ip \in End(K, th[t].path)
  BY DEF TypeOK, Ordered, Local, InsertEnd, At, PathOrder
<1> PICK a \in Addr \ used :
      /\ node' = [node EXCEPT ![a] = [ip |-> th[t].ip, mac |-> t, start |-> now,
                                     left |-> Null, right |-> Null]]
      /\ used' = used \cup {a}
      /\ th' = [th EXCEPT ![t].pc = "back", ![t].ret = a]
  BY DEF InsertEnd
<1> PICK path \in Seq(Frame) : path = th[t].path
  BY <1>1
<1> PICK S \in SUBSET Ip : S = End(K, path)
  <2>1. End(K, path) \subseteq Ip
    <3>1. CASE path = <<>>
      BY <3>1, ChainEmpty
    <3>2. CASE path # <<>>
      <4>1. path[Len(path)].at \in used /\ End(K, path) = Slot(K, path[Len(path)].at, path[Len(path)].side)
        BY <1>1, <3>2, ChainPop DEF PathOrder
      <4> QED  BY <4>1 DEF Slot, Places, TypeOK
    <3> QED  BY <3>1, <3>2
  <2> QED  BY <2>1
<1> DEFINE L == [K EXCEPT ![a] = S]
<1> PICK new : new = [ip |-> th[t].ip, mac |-> t, start |-> now, left |-> Null, right |-> Null]
  OBVIOUS
<1>2. new.ip \in S /\ new.left = Null /\ new.right = Null /\ node' = [node EXCEPT ![a] = new]
  BY <1>1
<1>3. L \in Places /\ HeapOrder(L)' /\ Grows(K, L) /\ Fits(L, a, S)'
  BY <1>1, <1>2, HeapLink
<1> HIDE DEF L
<1>4. Chain(L, path)' /\ End(L, path)' = S
  BY <1>1, <1>3, ChainMoves DEF PathOrder
<1>5. th'[t].path = path /\ th'[t].pc = "back" /\ th'[t].ret = a
  BY <1>1 DEF TypeOK, Local
<1>6. PathOrder(L, th[t])'
  BY <1>3, <1>4, <1>5 DEF PathOrder, Busy
<1> QED  BY <1>3, <1>6

-----------------------------------------------------------------------------
(* No step that leaves the history intact disturbs the order. *)
LEMMA OrderStep ==
    ASSUME TypeOK, TypeOK', Anchored, OrderInv, NEW t \in Thread, Step(t)
    PROVE  OrderInv'
<1> SUFFICES ASSUME intact' PROVE OrderInv'
  BY DEF OrderInv
<1>1. ~DeleteLeaf(t) /\ ~DeleteCopy(t)
  BY DEF DeleteLeaf, DeleteCopy
<1>2. intact
  BY DEF TypeOK, Step, Find, Assign, Answer, Insert, Delete, Sweep, FindUnlock, FindLock, FindWalk,
         AssignLock, AssignCursor, AssignRead, AssignNext, AssignAdvance, AssignWrap,
         AssignUnlock, RequestFound, RenewFound, RenewWrite, GiveBackFound, InsertStart,
         InsertWalk, InsertEnd, InsertBack, DeleteDown, DeleteMissing, DeleteLeaf, DeleteInner,
         FindMin, DeleteCopy, DeleteBack, SweepEnter, SweepCheck, SweepBack, RootBack
<1> PICK K \in Places : Ordered(K)
  BY <1>2 DEF OrderInv
<1>3. \A u \in Thread \ {t} : th'[u] = th[u]
  BY OthersKeepStill
<1> PICK l \in Local : l = th'[t]
  BY DEF TypeOK
<1>4. CASE PathOrder(K, th'[t]) /\ HeapOrder(K)' /\ Grows(K, K)
  BY <1>3, <1>4, MoverStays
<1>5. CASE InsertEnd(t) /\ ~UNCHANGED <<node, used>>
  <2>1. PICK L \in Places : PathOrder(L, th[t])' /\ HeapOrder(L)' /\ Grows(K, L)
    BY <1>5, LinkOrder
  <2>2. PathOrder(L, l)'
    BY <2>1 DEF PathOrder
  <2> QED  BY <1>3, <2>1, <2>2, MoverDone
<1>6. CASE FindMin(t)
  <2>1. th[t] \in Local /\ PathOrder(K, th[t]) /\ HeapOrder(K) /\ UNCHANGED heapVars
    BY <1>6 DEF FindMin, TypeOK, Ordered
  <2>2. th'[t].path = th[t].path /\ th'[t].pc = "d_min"
    BY <1>6, <2>1 DEF FindMin, At, TypeOK, Local
  <2>3. PathOrder(K, th'[t])
    BY <2>1, <2>2 DEF PathOrder, Busy
  <2> QED  BY <1>4, <2>1, <2>3, HeapUnchanged
<1>7. CASE Lookup(t)
  BY <1>4, <1>7, LookupOrder
<1>8. CASE InsertStart(t) \/ GiveBackFound(t)
  BY <1>4, <1>8, EntryOrder
<1>9. CASE \/ InsertWalk(t) \/ DeleteDown(t) \/ DeleteInner(t)
           \/ (SweepEnter(t) /\ th[t].cur # Null)
  BY <1>4, <1>9, DownOrder
<1>10. CASE \/ DeleteMissing(t) \/ (SweepEnter(t) /\ th[t].cur = Null)
            \/ (InsertEnd(t) /\ UNCHANGED <<node, used>>)
  BY <1>4, <1>10, BottomOrder
<1>11. CASE InsertBack(t) \/ DeleteBack(t) \/ SweepBack(t)
  BY <1>4, <1>11, BackOrder
<1>12. CASE SweepCheck(t) \/ RootBack(t)
  BY <1>4, <1>12, CheckOrder, RootOrder
<1>13. CASE InsertEnd(t) \/ SweepEnter(t)
  BY <1>5, <1>9, <1>10, <1>13
<1> QED
  BY <1>1, <1>6, <1>7, <1>8, <1>9, <1>10, <1>11, <1>12, <1>13
     DEF Step, Lookup, Answer, Insert, Delete, Sweep

LEMMA OrderStart == Init => OrderInv
<1> SUFFICES ASSUME Init PROVE OrderInv
  OBVIOUS
<1> DEFINE K == [a \in Addr |-> {}]
<1>1. K \in Places
  BY DEF Places
<1>2. HeapOrder(K)
  BY DEF Init, HeapOrder, Fits
<1>3. \A t \in Thread : PathOrder(K, th[t])
  BY RestOrder DEF Init, Idle, Busy
<1> QED  BY <1>1, <1>2, <1>3 DEF OrderInv, Ordered

LEMMA OrderNext == TableInv /\ TableInv' /\ OrderInv /\ [Next]_vars => OrderInv'
<1> SUFFICES ASSUME TableInv, TableInv', OrderInv, [Next]_vars, intact' PROVE OrderInv'
  BY DEF OrderInv
<1> USE DEF TableInv
<1>1. ASSUME NEW t \in Thread, Step(t) PROVE OrderInv'
  BY <1>1, OrderStep
<1>2. CASE Tick \/ UNCHANGED vars
  <2>1. UNCHANGED <<heapVars, th, intact>>
    BY <1>2 DEF Tick, vars
  <2>2. PICK K \in Places : Ordered(K)
    BY <2>1 DEF OrderInv
  <2>3. HeapOrder(K)' /\ Grows(K, K)
    BY <2>1, <2>2, HeapUnchanged DEF Ordered
  <2>4. ASSUME NEW t \in Thread PROVE PathOrder(K, th[t])'
    <3>1. PICK l \in Local : l = th[t]
      BY DEF TypeOK
    <3>2. PathOrder(K, l)'
      BY <2>2, <2>3, <3>1, PathMoves DEF Ordered
    <3> QED  BY <2>1, <3>1, <3>2 DEF PathOrder
  <2> QED  BY <2>3, <2>4 DEF OrderInv, Ordered
<1>3. ASSUME NEW t \in Thread, \A u \in Thread \ {t} : th'[u] = th[u],
             th'[t].path = <<>>, UNCHANGED <<heapVars, intact>>,
             th'[t].pc \notin Busy \/ (th'[t].pc = "s_enter" /\ th'[t].cur = root)
      PROVE  OrderInv'
  <2>1. PICK K \in Places : Ordered(K)
    BY <1>3 DEF OrderInv
  <2>2. PICK l \in Local : l = th'[t]
    BY DEF TypeOK
  <2>3. l.ip \in Ip
    BY DEF Local
  <2>4. PathOrder(K, l)
    BY <1>3, <2>1, <2>2, <2>3, RestOrder, BeginOrder DEF Ordered
  <2> QED  BY <1>3, <2>1, <2>2, <2>4, HeapUnchanged, MoverStays DEF Ordered
<1>4. ASSUME NEW c \in Client, BeginHandling(c) PROVE OrderInv'
  <2>1. /\ c \in Thread /\ (\A u \in Thread \ {c} : th'[u] = th[u])
        /\ UNCHANGED <<heapVars, intact>>
    BY <1>4 DEF BeginHandling, TypeOK, Thread
  <2>2. th'[c].path = <<>> /\ th'[c].pc \notin Busy
    BY <1>4, <2>1 DEF BeginHandling, TypeOK, Idle, Busy
  <2> QED  BY <1>3, <2>1, <2>2
<1>5. CASE BeginSweep
  <2>1. /\ Main \in Thread /\ (\A u \in Thread \ {Main} : th'[u] = th[u])
        /\ UNCHANGED <<heapVars, intact>>
    BY <1>5 DEF BeginSweep, TypeOK, Thread
  <2>2. th'[Main].path = <<>> /\ th'[Main].pc = "s_enter" /\ th'[Main].cur = root
    BY <1>5, <2>1 DEF BeginSweep, TypeOK, Idle
  <2> QED  BY <1>3, <2>1, <2>2
<1> QED  BY <1>1, <1>2, <1>4, <1>5 DEF Next

-----------------------------------------------------------------------------
(* What hangs below a block has its place there. *)
LEMMA BelowPlaced ==
    ASSUME TypeOK, NEW K \in Places, HeapOrder(K), NEW S \in SUBSET Ip, NEW p, Fits(K, p, S),
           NEW b \in Below(p)
    PROVE  b \in used /\ node[b].ip \in S
<1> DEFINE T == {a \in used : K[a] \subseteq S}
<1>1. T \in SUBSET Addr /\ {p} \ {Null} \subseteq T
  BY DEF TypeOK, Fits
<1>2. Closed(T)
  BY DEF Closed, HeapOrder, Fits, Slot
<1>3. b \in T
  BY <1>1, <1>2 DEF Below
<1> QED  BY <1>3 DEF HeapOrder

(* Until a deletion, insertions that interleave without a lock leave a search    *)
(* tree, whatever updates they lose (insert_ip_assignment of dhcp_server.c).     *)
THEOREM OrderAlways == Spec => []SearchOrder
<1>1. ASSUME TypeOK, OrderInv PROVE SearchOrder
  <2> SUFFICES ASSUME intact, NEW a \in Below(root)
               PROVE  /\ \A b \in Below(node[a].left) : node[b].ip < node[a].ip
                      /\ \A b \in Below(node[a].right) : node[b].ip > node[a].ip
    BY DEF SearchOrder
  <2>1. PICK K \in Places : HeapOrder(K)
    BY <1>1 DEF OrderInv, Ordered
  <2>2. a \in used
    BY <1>1, <2>1, BelowPlaced DEF HeapOrder
  <2>3. /\ Fits(K, node[a].left, Slot(K, a, "left")) /\ Slot(K, a, "left") \in SUBSET Ip
        /\ Fits(K, node[a].right, Slot(K, a, "right")) /\ Slot(K, a, "right") \in SUBSET Ip
    BY <1>1, <2>1, <2>2 DEF HeapOrder, Slot, Places, TypeOK
  <2>4. \A b \in Below(node[a].left) : node[b].ip \in Slot(K, a, "left")
    BY <1>1, <2>1, <2>3, BelowPlaced
  <2>5. \A b \in Below(node[a].right) : node[b].ip \in Slot(K, a, "right")
    BY <1>1, <2>1, <2>3, BelowPlaced
  <2> QED  BY <2>4, <2>5 DEF Slot
<1>2. TableInv => TypeOK
  BY DEF TableInv
<1>3. Spec => []TableInv
  BY TableInit, TableStep, PTL DEF Spec
<1>4. Spec => []OrderInv
  BY <1>3, OrderStart, OrderNext, PTL DEF Spec
<1> QED  BY <1>1, <1>2, <1>3, <1>4, PTL
=============================================================================

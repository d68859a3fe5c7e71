--------------------------- MODULE CallsInTurnProofs ---------------------------
(***************************************************************************)
(* Why the address table keeps its promise while calls come in turn: every *)
(* lease stands on the way a lookup of its address goes, in the tree as it *)
(* will be once the call under way has stored what it returns.             *)
(***************************************************************************)
EXTENDS CallsInTurn, IpAssignmentsProofs, FiniteSetTheorems

(* A tree: a root, and the two children of each block. *)
Trees == [top : Ptr, left : [Addr -> Ptr], right : [Addr -> Ptr]]
Kid(T, a, side) == IF side = "left" THEN T.left[a] ELSE T.right[a]

(* The place path leads to, and the tree with p there. *)
PlaceAt(T, path, i) == IF i = 0 THEN T.top ELSE Kid(T, path[i].at, path[i].side)
Place(T, path) == PlaceAt(T, path, Len(path))
Placed(T, path, p) ==
    IF path = <<>> THEN [T EXCEPT !.top = p]
    ELSE IF path[Len(path)].side = "left" THEN [T EXCEPT !.left[path[Len(path)].at] = p]
    ELSE [T EXCEPT !.right[path[Len(path)].at] = p]

(* The tree of the heap, and what it will be when the call of l has returned. *)
Heap == [top |-> root, left |-> [a \in Addr |-> node[a].left],
         right |-> [a \in Addr |-> node[a].right]]
Tree(l) == IF l.pc = "back" THEN Placed(Heap, l.path, l.ret) ELSE Heap

(* What a lookup of ip meets from p down. *)
Descent(T, S, ip) == \A a \in S : node[a].ip # ip => Kid(T, a, SideOf(ip, a)) \in S \cup {Null}
Meets(T, p, ip) ==
    {b \in used : \A S \in SUBSET used : {p} \ {Null} \subseteq S /\ Descent(T, S, ip) => b \in S}

(* The blocks of the tree are allocated, each hangs in one place, and each is   *)
(* on the way to its address.                                                   *)
Whole(T) ==
    /\ T.top \in used \cup {Null}
    /\ \A a \in used, s \in Side : Kid(T, a, s) \in used \cup {Null}
OneParent(T) ==
    \A a, b \in used, s, r \in Side :
        /\ Kid(T, a, s) # Null => Kid(T, a, s) # T.top
        /\ Kid(T, a, s) # Null /\ Kid(T, a, s) = Kid(T, b, r) => a = b /\ s = r
Sound(T) == Whole(T) /\ OneParent(T) /\ \A a \in used : a \in Meets(T, T.top, node[a].ip)

(* A recursion is in the tree from its root down, and in no block twice. *)
Linked(T, path) == \A i \in 1..Len(path) :
    path[i].at \in used /\ PlaceAt(T, path, i - 1) = path[i].at
Distinct(path) == \A i, j \in 1..Len(path) : path[i].at = path[j].at => i = j

(* p hangs below block a. *)
Under(T, p, a) == \E q \in Seq(Frame) :
    /\ Linked(T, q) /\ Distinct(q) /\ p = Place(T, q)
    /\ \E i \in 1..Len(q) : q[i].at = a

-----------------------------------------------------------------------------
(* What each thread has found out, by where it is. *)
Held(ip, c) == \E a \in used : node[a].ip = ip /\ node[a].mac = c
Expired(a) == a \in used /\ now - node[a].start > LeaseTime

Walks == {"i_walk", "d_lock", "s_enter"}
Recursing == Walks \cup {"s_check", "back"}
ByOf(t) == IF t = Main THEN "sweep" ELSE "insert"
OnPath(t, l) ==
    /\ Linked(Tree(l), l.path) /\ Distinct(l.path)
    /\ \A i \in 1..Len(l.path) : l.path[i].by = ByOf(t) /\ l.path[i].time <= now
    /\ l.pc \in Walks => l.cur = Place(Tree(l), l.path)
    /\ l.pc = "s_check" => l.path # <<>>
Last(path) == path[Len(path)]

Inserts(t, l) ==
    /\ l.op \in {"assign", "request"} /\ ~Leased(l.ip)
    /\ l.path # <<>> =>
         LET e == Last(l.path)
         IN /\ e.at \in Meets(Heap, root, l.ip)
            /\ node[e.at].ip # l.ip /\ e.side = SideOf(l.ip, e.at)
Deletes(t, l) ==
    /\ t \in Client => l.op = "giveback" /\ l.path = <<>>
    /\ t = Main => Expired(l.cur) /\ node[l.cur].ip = l.ip
FindsMin(t, l) ==
    /\ locked /\ l.path # <<>> /\ Last(l.path).by = "delete" /\ l.cur \in used
    /\ Last(l.path).at \in used /\ node[Last(l.path).at].ip = l.ip
    /\ t = Main => Expired(Last(l.path).at)
    /\ Under(Heap, l.cur, Last(l.path).at)
Looks(l) ==
    /\ l.cur \in used \cup {Null}
    /\ \A a \in used : node[a].ip = l.ip => a \in Meets(Heap, l.cur, l.ip)
Found(l) == IF l.cur = Null THEN ~Leased(l.ip) ELSE l.cur \in used /\ node[l.cur].ip = l.ip

InPool == {"f_unlock", "f_lock", "f_walk", "found", "i_walk", "a_advance", "a_wrap", "a_unlock"}
Mine == {"back", "a_advance", "a_wrap", "a_unlock"}
AsFar(t, l) ==
    /\ l.pc \in Recursing => OnPath(t, l)
    /\ l.pc \notin Recursing \cup {"d_min"} => l.path = <<>>
    /\ l.pc \in InPool => l.ip \in Pool
    /\ l.pc = "a_read" => cursor \in Pool
    /\ l.pc \in {"f_lock", "f_walk"} => Looks(l)
    /\ l.pc \in {"found", "n_write"} => Found(l)
    /\ l.pc = "n_write" => l.cur # Null
    /\ l.pc = "i_walk" => Inserts(t, l)
    /\ l.pc = "d_lock" => Deletes(t, l)
    /\ l.pc = "d_min" => FindsMin(t, l)
    /\ l.pc \in Mine /\ l.op = "assign" => Held(l.ip, t)
    /\ l.pc \in {"a_lock", "a_cursor", "a_read", "a_advance", "a_wrap", "a_unlock"}
         => l.op = "assign"
    /\ t = Main => l.op # "assign"

(* A deletion that has copied the minimum, or gone down, waits for itself. *)
Waits(l) == l.pc = "d_lock" /\ locked /\ l.path # <<>> /\ Last(l.path).by = "delete"

-----------------------------------------------------------------------------
Alone(t) == \A u \in Thread \ {t} : ~InCall(u)

(* Leases are of the range, of clients, and one for an address. *)
Agree == \A a, b \in used : node[a].ip = node[b].ip
    => node[a].mac = node[b].mac /\ node[a].start = node[b].start
Contents == Agree /\ \A a \in used : node[a].ip \in Pool /\ node[a].mac \in Client

(* An address promised is leased to the client, or its insertion is under way. *)
Promising(c, ip) == th[c].pc = "i_walk" /\ th[c].op = "request" /\ th[c].ip = ip
Promises == \A c \in Client : \A ip \in promised[c] : Held(ip, c) \/ Promising(c, ip)

(* The one call under way, if any, is so far, or waits for ever. *)
Calm(t) == alive /\ Contents /\ Promises /\ Sound(Tree(th[t])) /\ AsFar(t, th[t])
Kept(t) == alive /\ Contents /\ Promises
           /\ (Waits(th[t]) \/ (Sound(Tree(th[t])) /\ AsFar(t, th[t])))
TurnInv == inTurn => \E t \in Thread : Alone(t) /\ Kept(t)

-----------------------------------------------------------------------------
(* What a lookup meets. *)
LEMMA KidPtr ==
    ASSUME NEW T \in Trees, NEW a \in Addr, NEW s
    PROVE  Kid(T, a, s) \in Ptr
BY DEF Kid, Trees

LEMMA SideOfSide == \A ip, a : SideOf(ip, a) \in Side
BY DEF SideOf, Side

LEMMA MeetsFirst ==
    ASSUME TypeOK, NEW T, NEW ip, NEW p \in used
    PROVE  p \in Meets(T, p, ip)
BY TableAssumption DEF Meets, TypeOK

LEMMA MeetsNothing == ASSUME NEW T, NEW ip PROVE Meets(T, Null, ip) = {}
<1>1. {Null} \ {Null} \subseteq {} /\ Descent(T, {}, ip) /\ {} \in SUBSET used
  BY DEF Descent
<1> QED  BY <1>1 DEF Meets

LEMMA MeetsDown ==
    ASSUME NEW T, Whole(T), NEW p, NEW ip, NEW a \in Meets(T, p, ip), node[a].ip # ip
    PROVE  Kid(T, a, SideOf(ip, a)) \in Meets(T, p, ip) \cup {Null}
<1>1. a \in used
  BY DEF Meets
<1>2. Kid(T, a, SideOf(ip, a)) \in used \cup {Null}
  BY <1>1, SideOfSide DEF Whole
<1>3. ASSUME NEW S \in SUBSET used, {p} \ {Null} \subseteq S, Descent(T, S, ip)
      PROVE  Kid(T, a, SideOf(ip, a)) \in S \cup {Null}
  <2>1. a \in S
    BY <1>3 DEF Meets
  <2> QED  BY <1>3, <2>1 DEF Descent
<1> QED  BY <1>2, <1>3 DEF Meets

(* Below a block that is not the one looked for, the lookup goes on. *)
LEMMA MeetsOn ==
    ASSUME NEW T, Whole(T), NEW p \in used, NEW ip, NEW b \in Meets(T, p, ip), b # p
    PROVE  node[p].ip # ip /\ b \in Meets(T, Kid(T, p, SideOf(ip, p)), ip)
<1>1. node[p].ip # ip
  <2> SUFFICES ASSUME node[p].ip = ip PROVE FALSE
    OBVIOUS
  <2>1. {p} \in SUBSET used /\ {p} \ {Null} \subseteq {p} /\ Descent(T, {p}, ip)
    BY DEF Descent
  <2> QED  BY <2>1 DEF Meets
<1> DEFINE q == Kid(T, p, SideOf(ip, p))
           S == {p} \cup Meets(T, q, ip)
<1>2. S \in SUBSET used /\ {p} \ {Null} \subseteq S
  BY DEF Meets
<1>3. q \in used \cup {Null}
  BY SideOfSide DEF Whole
<1>4. q \in S \cup {Null}
  BY <1>3 DEF Meets
<1>5. Descent(T, S, ip)
  <2> SUFFICES ASSUME NEW a \in S, node[a].ip # ip
               PROVE  Kid(T, a, SideOf(ip, a)) \in S \cup {Null}
    BY DEF Descent
  <2>1. CASE a = p
    BY <1>4, <2>1
  <2>2. CASE a \in Meets(T, q, ip)
    BY <2>2, MeetsDown
  <2> QED  BY <2>1, <2>2
<1> QED  BY <1>1, <1>2, <1>5 DEF Meets

(* A lookup ends at the block of its address, so two blocks have two addresses. *)
LEMMA OneBlock ==
    ASSUME NEW T, Sound(T), NEW a \in used, NEW b \in used, node[a].ip = node[b].ip
    PROVE  a = b
<1> DEFINE ip == node[a].ip
           S == {c \in used : a \in Meets(T, c, ip)}
<1>1. a \in Meets(T, T.top, ip) /\ b \in Meets(T, T.top, ip) /\ Whole(T)
  BY DEF Sound
<1>2. Descent(T, S, ip)
  <2> SUFFICES ASSUME NEW c \in S, node[c].ip # ip
               PROVE  Kid(T, c, SideOf(ip, c)) \in S \cup {Null}
    BY DEF Descent
  <2>1. a \in Meets(T, Kid(T, c, SideOf(ip, c)), ip)
    BY <1>1, MeetsOn
  <2>2. Kid(T, c, SideOf(ip, c)) \in used \cup {Null}
    BY <1>1, SideOfSide DEF Whole
  <2> QED  BY <2>1, <2>2
<1>3. S \in SUBSET used /\ {T.top} \ {Null} \subseteq S
  BY <1>1 DEF Whole
<1>4. b \in S
  BY <1>1, <1>2, <1>3 DEF Meets
<1>5. {b} \in SUBSET used /\ {b} \ {Null} \subseteq {b} /\ Descent(T, {b}, ip)
  BY DEF Descent
<1>6. a \in {b}
  BY <1>4, <1>5 DEF Meets
<1> QED  BY <1>6

-----------------------------------------------------------------------------
(* A tree stays whole while the blocks and their addresses stay, *)
SameBlocks == used' = used /\ \A a \in used : node'[a].ip = node[a].ip

LEMMA MeetsSame ==
    ASSUME NEW T, NEW p, NEW ip, SameBlocks
    PROVE  Meets(T, p, ip)' = Meets(T, p, ip)
<1>1. \A S \in SUBSET used : Descent(T, S, ip)' <=> Descent(T, S, ip)
  BY DEF SameBlocks, Descent, SideOf
<1> QED  BY <1>1 DEF SameBlocks, Meets

LEMMA SoundSame ==
    ASSUME NEW T, Sound(T), SameBlocks
    PROVE  Sound(T)'
<1>1. Whole(T)' /\ OneParent(T)'
  BY DEF Sound, Whole, OneParent, SameBlocks
<1>2. ASSUME NEW a \in used' PROVE (a \in Meets(T, T.top, node[a].ip))'
  <2>1. a \in Meets(T, T.top, node[a].ip) /\ node'[a].ip = node[a].ip
    BY DEF Sound, SameBlocks
  <2> QED  BY <2>1, MeetsSame
<1> QED  BY <1>1, <1>2 DEF Sound

(* when a new block b is hung in an empty place that a lookup of its address      *)
(* leads to,                                                                    *)
Hung(T, U, b) ==
    /\ b \notin used /\ used' = used \cup {b}
    /\ \A a \in used : node'[a].ip = node[a].ip
    /\ U.left[b] = Null /\ U.right[b] = Null
    /\ \/ T.top = Null /\ U.top = b /\ \A a \in used, s \in Side : Kid(U, a, s) = Kid(T, a, s)
       \/ \E e \in used, r \in Side :
            /\ e \in Meets(T, T.top, node'[b].ip) /\ node[e].ip # node'[b].ip
            /\ r = SideOf(node'[b].ip, e)
            /\ U.top = T.top /\ Kid(T, e, r) = Null /\ Kid(U, e, r) = b
            /\ \A a \in used, s \in Side : a # e \/ s # r => Kid(U, a, s) = Kid(T, a, s)

LEMMA MeetsHung ==
    ASSUME TypeOK, NEW T, NEW U, NEW b \in Addr, Hung(T, U, b), Whole(T), NEW ip,
           NEW d \in Meets(T, T.top, ip)
    PROVE  (d \in Meets(U, U.top, ip))'
<1> USE DEF Hung
<1>1. b # Null /\ Null \notin used
  BY TableAssumption DEF TypeOK
<1> SUFFICES ASSUME NEW S \in SUBSET used', {U.top} \ {Null} \subseteq S, Descent(U, S, ip)'
             PROVE  d \in S
  BY DEF Meets
<1> DEFINE R == S \ {b}
<1>2. R \in SUBSET used /\ {T.top} \ {Null} \subseteq R
  BY DEF Whole
<1>3. Descent(T, R, ip)
  <2> SUFFICES ASSUME NEW a \in R, node[a].ip # ip
               PROVE  Kid(T, a, SideOf(ip, a)) \in R \cup {Null}
    BY DEF Descent
  <2>1. a \in used /\ node'[a].ip = node[a].ip /\ SideOf(ip, a)' = SideOf(ip, a)
    BY <1>2 DEF SideOf
  <2>2. Kid(U, a, SideOf(ip, a)) \in S \cup {Null}
    BY <2>1 DEF Descent
  <2>3. Kid(T, a, SideOf(ip, a)) \in used \cup {Null}
    BY <2>1, SideOfSide DEF Whole
  <2>4. Kid(T, a, SideOf(ip, a)) \in {Kid(U, a, SideOf(ip, a)), Null}
    BY <2>1, SideOfSide
  <2> QED  BY <2>2, <2>3, <2>4
<1> QED  BY <1>2, <1>3 DEF Meets

LEMMA SoundHung ==
    ASSUME TypeOK, NEW T, NEW U, NEW b \in Addr, Hung(T, U, b), Sound(T)
    PROVE  Sound(U)'
<1>1. Whole(T) /\ OneParent(T) /\ b # Null /\ b \notin used /\ used' = used \cup {b}
  BY TableAssumption DEF Sound, Hung
<1>2. \A s \in Side : Kid(U, b, s) = Null
  BY DEF Hung, Kid
<1>3. \A a \in used, s \in Side : Kid(T, a, s) \in used \cup {Null}
  BY <1>1 DEF Whole
<1>4. Whole(U)'
  BY <1>1, <1>2, <1>3 DEF Whole, Hung
<1>5. OneParent(U)'
  <2> SUFFICES ASSUME NEW x \in used', NEW y \in used', NEW s \in Side, NEW r \in Side,
                      Kid(U, x, s) # Null
               PROVE  /\ Kid(U, x, s) # U.top
                      /\ Kid(U, x, s) = Kid(U, y, r) => x = y /\ s = r
    BY DEF OneParent
  <2>1. x \in used
    BY <1>1, <1>2
  <2>2. CASE T.top = Null /\ U.top = b /\ \A a \in used, q \in Side : Kid(U, a, q) = Kid(T, a, q)
    <3>1. Kid(U, x, s) = Kid(T, x, s) /\ Kid(T, x, s) \in used
      BY <1>3, <2>1, <2>2
    <3>2. Kid(U, x, s) = Kid(U, y, r) => y \in used /\ Kid(U, y, r) = Kid(T, y, r)
      BY <1>1, <1>2, <2>2
    <3> QED  BY <1>1, <2>1, <2>2, <3>1, <3>2 DEF OneParent
  <2>3. ASSUME NEW e \in used, NEW q \in Side,
               U.top = T.top, Kid(T, e, q) = Null, Kid(U, e, q) = b,
               \A a \in used, p \in Side : a # e \/ p # q => Kid(U, a, p) = Kid(T, a, p)
        PROVE  /\ Kid(U, x, s) # U.top
               /\ Kid(U, x, s) = Kid(U, y, r) => x = y /\ s = r
    <3>1. T.top # b
      BY <1>1 DEF Whole
    <3>2. CASE x = e /\ s = q
      <4>1. Kid(U, y, r) = b => y = e /\ r = q
        BY <1>1, <1>2, <1>3, <2>3
      <4> QED  BY <2>3, <3>1, <3>2, <4>1
    <3>3. CASE ~(x = e /\ s = q)
      <4>1. Kid(U, x, s) = Kid(T, x, s) /\ Kid(T, x, s) \in used
        BY <1>3, <2>1, <2>3, <3>3
      <4>2. Kid(U, x, s) = Kid(U, y, r) => y \in used /\ Kid(U, y, r) = Kid(T, y, r)
        BY <1>1, <1>2, <2>3, <4>1
      <4> QED  BY <1>1, <2>1, <2>3, <4>1, <4>2 DEF OneParent
    <3> QED  BY <3>2, <3>3
  <2> QED  BY <2>2, <2>3 DEF Hung
<1>6. ASSUME NEW d \in used PROVE (d \in Meets(U, U.top, node[d].ip))'
  <2>1. d \in Meets(T, T.top, node[d].ip) /\ node'[d].ip = node[d].ip
    BY DEF Sound, Hung
  <2> QED  BY <1>1, <2>1, MeetsHung
<1>7. (b \in Meets(U, U.top, node[b].ip))'
  <2> PICK ip : ip = node'[b].ip
    OBVIOUS
  <2>1. CASE U.top = b
    BY <1>1, <2>1 DEF Meets
  <2>2. ASSUME NEW e \in used, e \in Meets(T, T.top, ip), node[e].ip # ip,
               Kid(U, e, SideOf(ip, e)) = b
        PROVE  (b \in Meets(U, U.top, ip))'
    <3>1. (e \in Meets(U, U.top, ip))'
      BY <1>1, <2>2, MeetsHung
    <3>2. node'[e].ip # ip /\ SideOf(ip, e)' = SideOf(ip, e)
      BY <2>2 DEF Hung, SideOf
    <3>3. ASSUME NEW S \in SUBSET used', {U.top} \ {Null} \subseteq S, Descent(U, S, ip)'
          PROVE  b \in S
      <4>1. e \in S
        BY <3>1, <3>3 DEF Meets
      <4>2. Kid(U, e, SideOf(ip, e)) \in S \cup {Null}
        BY <3>2, <3>3, <4>1 DEF Descent
      <4> QED  BY <1>1, <2>2, <4>2
    <3> QED  BY <1>1, <3>3 DEF Meets
  <2>3. (b \in Meets(U, U.top, ip))'
    BY <2>1, <2>2 DEF Hung
  <2>4. (b \in Meets(U, U.top, node[b].ip))' = (b \in Meets(U, U.top, ip))'
    BY DEF Meets, Descent
  <2> QED  BY <2>3, <2>4
<1> QED  BY <1>1, <1>4, <1>5, <1>6, <1>7 DEF Sound

(* and when block a goes, whose one child takes its place.                       *)
Cut(T, U, a, c) ==
    /\ a \in used /\ used' = used \ {a}
    /\ \A b \in used \ {a} : node'[b].ip = node[b].ip
    /\ \A s \in Side : Kid(T, a, s) \in {c, Null}
    /\ \E s \in Side : Kid(T, a, s) = c
    /\ \/ /\ T.top = a /\ U.top = c
          /\ \A b \in used \ {a}, s \in Side : Kid(U, b, s) = Kid(T, b, s)
       \/ \E e \in used \ {a}, r \in Side :
            /\ U.top = T.top /\ Kid(T, e, r) = a /\ Kid(U, e, r) = c
            /\ \A b \in used \ {a}, s \in Side : b # e \/ s # r => Kid(U, b, s) = Kid(T, b, s)

LEMMA MeetsCut ==
    ASSUME TypeOK, NEW T, NEW U, NEW a, NEW c, Cut(T, U, a, c), Whole(T), NEW ip,
           NEW d \in Meets(T, T.top, ip), d # a
    PROVE  (d \in Meets(U, U.top, ip))'
<1>1. a # Null /\ Null \notin used /\ a \in used /\ used' = used \ {a} /\ d \in used'
  BY TableAssumption DEF TypeOK, Cut, Meets
<1> SUFFICES ASSUME NEW S \in SUBSET used', {U.top} \ {Null} \subseteq S, Descent(U, S, ip)'
             PROVE  d \in S
  BY <1>1 DEF Meets
<1>2. ASSUME NEW b \in S, node[b].ip # ip
      PROVE  /\ b \in used \ {a} /\ SideOf(ip, b) \in Side
             /\ Kid(U, b, SideOf(ip, b)) \in S \cup {Null}
  <2>1. b \in used \ {a} /\ node'[b].ip = node[b].ip
    BY <1>1 DEF Cut
  <2>2. SideOf(ip, b)' = SideOf(ip, b)
    BY <2>1 DEF SideOf
  <2> QED  BY <1>2, <2>1, <2>2, SideOfSide DEF Descent
<1>3. CASE c \in S \cup {Null}
  <2> DEFINE R == S \cup {a}
  <2>1. R \in SUBSET used /\ {T.top} \ {Null} \subseteq R
    BY <1>1 DEF Cut
  <2>2. Descent(T, R, ip)
    <3> SUFFICES ASSUME NEW b \in R, node[b].ip # ip
                 PROVE  Kid(T, b, SideOf(ip, b)) \in R \cup {Null}
      BY DEF Descent
    <3>1. CASE b = a
      BY <1>3, <3>1, SideOfSide DEF Cut
    <3>2. CASE b \in S
      <4>1. \/ Kid(T, b, SideOf(ip, b)) = a
            \/ Kid(T, b, SideOf(ip, b)) = Kid(U, b, SideOf(ip, b))
        BY <1>2, <3>2 DEF Cut
      <4> QED  BY <1>2, <3>2, <4>1
    <3> QED  BY <3>1, <3>2
  <2> QED  BY <2>1, <2>2 DEF Meets
<1>4. CASE c \notin S \cup {Null}
  <2>1. S \in SUBSET used /\ {T.top} \ {Null} \subseteq S
    BY <1>1, <1>4 DEF Cut
  <2>2. Descent(T, S, ip)
    <3> SUFFICES ASSUME NEW b \in S, node[b].ip # ip
                 PROVE  Kid(T, b, SideOf(ip, b)) \in S \cup {Null}
      BY DEF Descent
    <3>1. \/ Kid(U, b, SideOf(ip, b)) = c
          \/ Kid(T, b, SideOf(ip, b)) = Kid(U, b, SideOf(ip, b))
      BY <1>2 DEF Cut
    <3> QED  BY <1>2, <1>4, <3>1
  <2> QED  BY <2>1, <2>2 DEF Meets
<1> QED  BY <1>3, <1>4

LEMMA SoundCut ==
    ASSUME TypeOK, NEW T, NEW U, NEW a, NEW c, Cut(T, U, a, c), Sound(T)
    PROVE  Sound(U)'
<1>1. /\ Whole(T) /\ OneParent(T) /\ a # Null /\ a \in used /\ used' = used \ {a}
      /\ \A b \in used, s \in Side : Kid(T, b, s) \in used \cup {Null}
  BY TableAssumption DEF TypeOK, Sound, Cut, Whole
<1> PICK q \in Side : Kid(T, a, q) = c
  BY DEF Cut
<1>2. c \in used \cup {Null} /\ (c # Null => c # T.top)
  BY <1>1 DEF OneParent
<1>3. ASSUME NEW b \in used \ {a}, NEW s \in Side
      PROVE  c # Null => Kid(T, b, s) # c
  BY <1>1, <1>3 DEF OneParent
<1>4. CASE T.top = a /\ U.top = c /\ \A b \in used \ {a}, s \in Side : Kid(U, b, s) = Kid(T, b, s)
  <2>1. \A b \in used \ {a}, s \in Side : Kid(T, b, s) # a
    BY <1>1, <1>4 DEF OneParent
  <2>2. Whole(U)'
    BY <1>1, <1>2, <1>4, <2>1 DEF Whole
  <2>3. OneParent(U)'
    BY <1>1, <1>3, <1>4 DEF OneParent
  <2> QED
    <3>1. ASSUME NEW d \in used' PROVE (d \in Meets(U, U.top, node[d].ip))'
      <4>1. d \in Meets(T, T.top, node[d].ip) /\ node'[d].ip = node[d].ip /\ d # a
        BY <1>1 DEF Sound, Cut
      <4> QED  BY <1>1, <4>1, MeetsCut
    <3> QED  BY <2>2, <2>3, <3>1 DEF Sound
<1>5. ASSUME NEW e \in used \ {a}, NEW r \in Side,
             U.top = T.top, Kid(T, e, r) = a, Kid(U, e, r) = c,
             \A b \in used \ {a}, s \in Side : b # e \/ s # r => Kid(U, b, s) = Kid(T, b, s)
      PROVE  Sound(U)'
  <2>1. \A b \in used, s \in Side : Kid(T, b, s) = a => b = e /\ s = r
    BY <1>1, <1>5 DEF OneParent
  <2>2. T.top # a /\ c # a
    BY <1>1, <1>5, <2>1 DEF OneParent
  <2>3. Whole(U)'
    BY <1>1, <1>2, <1>5, <2>1, <2>2 DEF Whole
  <2>4. OneParent(U)'
    BY <1>1, <1>2, <1>3, <1>5 DEF OneParent
  <2> QED
    <3>1. ASSUME NEW d \in used' PROVE (d \in Meets(U, U.top, node[d].ip))'
      <4>1. d \in Meets(T, T.top, node[d].ip) /\ node'[d].ip = node[d].ip /\ d # a
        BY <1>1 DEF Sound, Cut
      <4> QED  BY <1>1, <4>1, MeetsCut
    <3> QED  BY <2>3, <2>4, <3>1 DEF Sound
<1> QED  BY <1>4, <1>5 DEF Cut

-----------------------------------------------------------------------------
(* Recursions down a tree: what a push, a pop and a store do to one. *)
LEMMA TreesEqual ==
    ASSUME NEW T \in Trees, NEW U \in Trees, U.top = T.top,
           \A a \in Addr, s \in Side : Kid(U, a, s) = Kid(T, a, s)
    PROVE  U = T
<1>1. \A a \in Addr : U.left[a] = T.left[a] /\ U.right[a] = T.right[a]
  BY DEF Kid, Side
<1>2. U.left = T.left /\ U.right = T.right
  BY <1>1 DEF Trees
<1> QED  BY <1>2 DEF Trees

LEMMA PlacedEmpty ==
    ASSUME NEW T \in Trees, NEW p \in Ptr
    PROVE  /\ Placed(T, <<>>, p) \in Trees /\ Placed(T, <<>>, p).top = p
           /\ \A a, s : Kid(Placed(T, <<>>, p), a, s) = Kid(T, a, s)
BY DEF Placed, Trees, Kid

LEMMA PlacedFacts ==
    ASSUME NEW T \in Trees, NEW path \in Seq(Frame), path # <<>>, NEW p \in Ptr
    PROVE  /\ Placed(T, path, p) \in Trees /\ Placed(T, path, p).top = T.top
           /\ Last(path) \in Frame /\ Last(path).at \in Addr /\ Last(path).side \in Side
           /\ \A a \in Addr, s \in Side : Kid(Placed(T, path, p), a, s) =
                IF a = Last(path).at /\ s = Last(path).side THEN p ELSE Kid(T, a, s)
<1>1. Last(path) \in Frame /\ Last(path).at \in Addr /\ Last(path).side \in Side
  BY PopElements DEF Last, Frame
<1> PICK e \in Frame : e = Last(path)
  BY <1>1
<1>2. Placed(T, path, p) = IF e.side = "left" THEN [T EXCEPT !.left[e.at] = p]
                                              ELSE [T EXCEPT !.right[e.at] = p]
  BY DEF Placed, Last
<1>3. CASE e.side = "left"
  BY <1>1, <1>2, <1>3 DEF Trees, Kid, Side
<1>4. CASE e.side = "right"
  BY <1>1, <1>2, <1>4 DEF Trees, Kid, Side
<1> QED  BY <1>1, <1>3, <1>4 DEF Side

LEMMA PlaceLast ==
    ASSUME NEW T, NEW path \in Seq(Frame), path # <<>>
    PROVE  Place(T, path) = Kid(T, Last(path).at, Last(path).side)
BY PopElements DEF Place, PlaceAt, Last

LEMMA PlaceEmpty == \A T : Place(T, <<>>) = T.top
BY DEF Place, PlaceAt

(* A result that is already there changes nothing. *)
LEMMA PlacedSame ==
    ASSUME NEW T \in Trees, NEW path \in Seq(Frame), Place(T, path) \in Ptr
    PROVE  Placed(T, path, Place(T, path)) = T
<1>1. CASE path = <<>>
  BY <1>1, PlaceEmpty, PlacedEmpty, TreesEqual
<1>2. CASE path # <<>>
  BY <1>2, PlaceLast, PlacedFacts, TreesEqual
<1> QED  BY <1>1, <1>2

(* The place of a path is in no block of the path. *)
LEMMA KidFresh ==
    ASSUME NEW T, OneParent(T), NEW path \in Seq(Frame), Linked(T, path), Distinct(path),
           Place(T, path) # Null, NEW i \in 1..Len(path)
    PROVE  path[i].at # Place(T, path)
<1> SUFFICES ASSUME path[i].at = Place(T, path) PROVE FALSE
  OBVIOUS
<1>1. path # <<>> /\ Len(path) \in 1..Len(path) /\ Last(path) = path[Len(path)]
  BY DEF Last
<1>2. /\ \A j \in 1..Len(path) : path[j].side \in Side /\ path[j].at \in used
      /\ Place(T, path) = Kid(T, path[Len(path)].at, path[Len(path)].side)
  <2>1. \A j \in 1..Len(path) : path[j] \in Frame
    OBVIOUS
  <2> QED  BY <1>1, <2>1, PlaceLast DEF Linked, Frame
<1>3. PlaceAt(T, path, i - 1) = Place(T, path)
  BY DEF Linked
<1>4. CASE i = 1
  BY <1>1, <1>2, <1>3, <1>4 DEF PlaceAt, OneParent
<1>5. CASE i # 1
  <2>1. i - 1 \in 1..Len(path)
    BY <1>5
  <2>2. Kid(T, path[i - 1].at, path[i - 1].side) = Place(T, path)
    BY <1>3, <1>5 DEF PlaceAt
  <2>3. path[i - 1].at = path[Len(path)].at
    BY <1>1, <1>2, <2>1, <2>2 DEF OneParent
  <2> QED  BY <1>1, <2>1, <2>3 DEF Distinct
<1> QED  BY <1>4, <1>5

LEMMA LinkedPush ==
    ASSUME NEW T, OneParent(T), NEW path \in Seq(Frame), Linked(T, path), Distinct(path),
           NEW e \in Frame, e.at = Place(T, path), e.at \in used, e.at # Null
    PROVE  /\ Append(path, e) \in Seq(Frame) /\ Append(path, e) # <<>>
           /\ Last(Append(path, e)) = e
           /\ \A i \in 1..Len(Append(path, e)) :
                Append(path, e)[i] = e \/ \E j \in 1..Len(path) : Append(path, e)[i] = path[j]
           /\ Linked(T, Append(path, e)) /\ Distinct(Append(path, e))
           /\ Place(T, Append(path, e)) = Kid(T, e.at, e.side)
<1> DEFINE q == Append(path, e)
<1>1. /\ q \in Seq(Frame) /\ Len(path) \in Nat /\ Len(q) = Len(path) + 1
      /\ \A i \in 1..Len(path) : q[i] = path[i]
      /\ q[Len(path) + 1] = e
  BY PushElements
<1> HIDE DEF q
<1>2. q # <<>> /\ Last(q) = e
  BY <1>1 DEF Last
<1>3. Linked(T, q)
  <2> SUFFICES ASSUME NEW i \in 1..Len(q)
               PROVE  q[i].at \in used /\ PlaceAt(T, q, i - 1) = q[i].at
    BY DEF Linked
  <2>1. PlaceAt(T, q, i - 1) = PlaceAt(T, path, i - 1)
    <3>1. i - 1 # 0 => i - 1 \in 1..Len(path)
      BY <1>1
    <3> QED  BY <1>1, <3>1 DEF PlaceAt
  <2>2. CASE i = Len(path) + 1
    <3>1. i - 1 = Len(path) /\ q[i] = e
      BY <1>1, <2>2
    <3> QED  BY <2>1, <3>1 DEF Place
  <2>3. CASE i \in 1..Len(path)
    BY <1>1, <2>1, <2>3 DEF Linked
  <2> QED  BY <1>1, <2>2, <2>3
<1>4. Distinct(q)
  <2>1. \A i \in 1..Len(path) : path[i].at # e.at
    BY KidFresh
  <2> QED  BY <1>1, <2>1 DEF Distinct
<1>5. Place(T, q) = Kid(T, e.at, e.side)
  BY <1>1, <1>2, PlaceLast
<1>6. \A i \in 1..Len(q) : q[i] = e \/ \E j \in 1..Len(path) : q[i] = path[j]
  BY <1>1
<1> QED  BY <1>1, <1>2, <1>3, <1>4, <1>5, <1>6 DEF q

LEMMA PlacePop ==
    ASSUME NEW T, NEW path \in Seq(Frame), path # <<>>, Linked(T, path)
    PROVE  Place(T, SubSeq(path, 1, Len(path) - 1)) = Last(path).at /\ Last(path).at \in used
<1> PICK q : q = SubSeq(path, 1, Len(path) - 1)
  OBVIOUS
<1>1. /\ q \in Seq(Frame) /\ Len(path) \in Nat \ {0} /\ Len(q) = Len(path) - 1
      /\ \A i \in 1..Len(q) : q[i] = path[i]
  BY PopElements
<1>2. Place(T, q) = PlaceAt(T, path, Len(path) - 1) /\ Len(path) \in 1..Len(path)
  BY <1>1 DEF Place, PlaceAt
<1> QED  BY <1>2 DEF Linked, Last

LEMMA LinkedPop ==
    ASSUME NEW T, NEW path \in Seq(Frame), path # <<>>, Linked(T, path), Distinct(path),
           NEW q, q = SubSeq(path, 1, Len(path) - 1)
    PROVE  /\ q \in Seq(Frame) /\ Linked(T, q) /\ Distinct(q)
           /\ \A i \in 1..Len(q) : \E j \in 1..Len(path) : q[i] = path[j]
           /\ Place(T, q) = Last(path).at /\ Last(path).at \in used
           /\ q # <<>> => Last(q).at # Last(path).at
<1>1. /\ q \in Seq(Frame) /\ Len(path) \in Nat \ {0} /\ Len(q) = Len(path) - 1
      /\ \A i \in 1..Len(q) : q[i] = path[i] /\ i \in 1..Len(path)
  BY PopElements
<1>2. \A i \in 0..Len(q) : PlaceAt(T, q, i) = PlaceAt(T, path, i)
  BY <1>1 DEF PlaceAt
<1>3. Linked(T, q) /\ Distinct(q)
  BY <1>1, <1>2 DEF Linked, Distinct
<1>4. Place(T, q) = Last(path).at /\ Last(path).at \in used
  BY PlacePop
<1>5. q # <<>> => Last(q).at # Last(path).at
  BY <1>1 DEF Distinct, Last
<1> QED  BY <1>1, <1>3, <1>4, <1>5

(* The sweep goes from the left child of its last block to the right one. *)
LEMMA LinkedTurn ==
    ASSUME NEW T, NEW path \in Seq(Frame), path # <<>>, Linked(T, path), Distinct(path),
           NEW e \in Frame, e.at = Last(path).at, e.side = "right", e.by = Last(path).by,
           e.time = Last(path).time, NEW q, q = Append(SubSeq(path, 1, Len(path) - 1), e)
    PROVE  /\ q \in Seq(Frame) /\ Linked(T, q) /\ Distinct(q)
           /\ \A i \in 1..Len(q) : \E j \in 1..Len(path) :
                q[i].by = path[j].by /\ q[i].time = path[j].time
           /\ Place(T, q) = Kid(T, Last(path).at, "right")
<1> PICK r : r = SubSeq(path, 1, Len(path) - 1)
  OBVIOUS
<1>1. /\ r \in Seq(Frame) /\ Len(path) \in Nat \ {0} /\ Len(r) = Len(path) - 1
      /\ \A i \in 1..Len(r) : r[i] = path[i]
  BY PopElements
<1>2. /\ q \in Seq(Frame) /\ Len(q) = Len(path) /\ q[Len(path)] = e
      /\ \A i \in 1..(Len(path) - 1) : q[i] = path[i]
  BY <1>1, PushElements
<1>3. \A i \in 0..(Len(path) - 1) : PlaceAt(T, q, i) = PlaceAt(T, path, i)
  BY <1>1, <1>2 DEF PlaceAt
<1>4. \A i \in 1..Len(path) : q[i].at = path[i].at /\ q[i].by = path[i].by
                              /\ q[i].time = path[i].time
  BY <1>1, <1>2 DEF Last
<1>5. Linked(T, q) /\ Distinct(q)
  <2>1. ASSUME NEW i \in 1..Len(q) PROVE q[i].at \in used /\ PlaceAt(T, q, i - 1) = q[i].at
    <3>1. i \in 1..Len(path) /\ i - 1 \in 0..(Len(path) - 1)
      BY <1>1, <1>2
    <3> QED  BY <1>3, <1>4, <3>1 DEF Linked
  <2>2. Distinct(q)
    BY <1>2, <1>4 DEF Distinct
  <2> QED  BY <2>1, <2>2 DEF Linked
<1>6. q # <<>> /\ Last(q) = e
  BY <1>1, <1>2 DEF Last
<1>7. Place(T, q) = Kid(T, Last(path).at, "right")
  BY <1>2, <1>6, PlaceLast
<1> QED  BY <1>2, <1>4, <1>5, <1>7

(* A path stays linked in a tree that differs below it only. *)
LEMMA LinkedSame ==
    ASSUME NEW T, NEW U, NEW path, Len(path) \in Nat, Linked(T, path),
           path # <<>> => U.top = T.top,
           \A i \in 1..Len(path) : path[i].at \in used',
           \A i \in 1..(Len(path) - 1) :
               Kid(U, path[i].at, path[i].side) = Kid(T, path[i].at, path[i].side)
    PROVE  Linked(U, path)'
<1> SUFFICES ASSUME NEW i \in 1..Len(path)
             PROVE  path[i].at \in used' /\ PlaceAt(U, path, i - 1) = path[i].at
  BY DEF Linked, PlaceAt, Kid
<1>1. PlaceAt(U, path, i - 1) = PlaceAt(T, path, i - 1)
  <2>1. path # <<>> /\ (i - 1 # 0 => i - 1 \in 1..(Len(path) - 1))
    OBVIOUS
  <2> QED  BY <2>1 DEF PlaceAt
<1> QED  BY <1>1 DEF Linked

-----------------------------------------------------------------------------
(* The heap as a tree, and a store in it. *)
LEMMA HeapFacts ==
    ASSUME TypeOK
    PROVE  /\ Heap \in Trees /\ Heap.top = root /\ root \in Ptr
           /\ \A a \in Addr : /\ Kid(Heap, a, "left") = node[a].left
                              /\ Kid(Heap, a, "right") = node[a].right
                              /\ \A s \in Side : Kid(Heap, a, s) = Child(a, s)
BY DEF TypeOK, Node, Heap, Trees, Kid, Child, Side

LEMMA HeapStored ==
    ASSUME TypeOK, NEW t \in Thread, th[t].path # <<>>, UNCHANGED <<used, root>>,
           Store(Top(t).at, Top(t).side, th[t].ret)
    PROVE  /\ Heap' = Placed(Heap, th[t].path, th[t].ret)
           /\ \A a \in Addr : /\ node'[a].ip = node[a].ip /\ node'[a].mac = node[a].mac
                              /\ node'[a].start = node[a].start
<1> PICK e : e = Top(t)
  OBVIOUS
<1> PICK p : p = th[t].ret
  OBVIOUS
<1>1. e \in Frame /\ p \in Ptr /\ e = Last(th[t].path)
  BY PathFacts, StepFacts DEF Top, Last
<1>2. node \in [Addr -> Node] /\ e.at \in Addr /\ e.side \in Side
  BY <1>1 DEF TypeOK, Frame
<1>3. node' = [node EXCEPT ![e.at] = IF e.side = "left" THEN [@ EXCEPT !.left = p]
                                                        ELSE [@ EXCEPT !.right = p]]
  BY DEF Store
<1>4. \A a \in Addr : /\ node'[a].ip = node[a].ip /\ node'[a].mac = node[a].mac
                      /\ node'[a].start = node[a].start
  BY <1>2, <1>3 DEF Node
<1>5. CASE e.side = "left"
  <2>1. [a \in Addr |-> node'[a].left] = [[a \in Addr |-> node[a].left] EXCEPT ![e.at] = p]
    BY <1>2, <1>3, <1>5 DEF Node
  <2>2. [a \in Addr |-> node'[a].right] = [a \in Addr |-> node[a].right]
    BY <1>2, <1>3, <1>5 DEF Node
  <2> QED  BY <1>1, <1>4, <1>5, <2>1, <2>2 DEF Heap, Placed, Last
<1>6. CASE e.side = "right"
  <2>1. [a \in Addr |-> node'[a].right] = [[a \in Addr |-> node[a].right] EXCEPT ![e.at] = p]
    BY <1>2, <1>3, <1>6 DEF Node
  <2>2. [a \in Addr |-> node'[a].left] = [a \in Addr |-> node[a].left]
    BY <1>2, <1>3, <1>6 DEF Node
  <2> QED  BY <1>1, <1>4, <1>6, <2>1, <2>2 DEF Heap, Placed, Last
<1> QED  BY <1>2, <1>5, <1>6 DEF Side

(* The leases are the same when nodes keep their contents. *)
LEMMA SameLeases ==
    ASSUME used' = used,
           \A a \in used : /\ node'[a].ip = node[a].ip /\ node'[a].mac = node[a].mac
                           /\ node'[a].start = node[a].start
    PROVE  /\ Contents => Contents'
           /\ \A ip : Leased(ip)' = Leased(ip)
           /\ \A ip, c : Held(ip, c)' = Held(ip, c)
BY DEF Contents, Agree, Leased, Held

-----------------------------------------------------------------------------
(* The steps of a call that no other call meets. *)
(* Steps that leave the heap alone, from the heap's tree to the heap's tree, where *)
(* no insertion ends. *)
LEMMA QuietStep ==
    ASSUME TypeOK, NEW t \in Thread, Calm(t), UNCHANGED <<heapVars, alive>>,
           th[t].pc # "back",
           \A u \in Thread : u # t => th'[u] = th[u],
           \A ip : Promising(t, ip) => Promising(t, ip)',
           \A c \in Client : \A ip \in promised'[c] \ promised[c] :
               c = t /\ (Held(ip, t) \/ Promising(t, ip)')
    PROVE  /\ alive' /\ Contents' /\ Promises' /\ Sound(Heap) /\ Heap' = Heap
           /\ th'[t].pc # "back" => Sound(Tree(th[t]))'
           /\ \A T : T = Heap => Sound(T)'
<1>1. used' = used /\ node' = node /\ root' = root
  BY DEF heapVars
<1>2. alive' /\ Contents'
  BY <1>1 DEF Calm, Contents, Agree
<1>3. \A ip, c : Held(ip, c)' = Held(ip, c)
  BY <1>1 DEF Held
<1>4. Promises'
  <2> SUFFICES ASSUME NEW c \in Client, NEW ip \in promised'[c]
               PROVE  Held(ip, c) \/ Promising(c, ip)'
    BY <1>3 DEF Promises
  <2>1. CASE ip \in promised[c]
    <3>1. Held(ip, c) \/ Promising(c, ip)
      BY <2>1 DEF Calm, Promises
    <3>2. c # t /\ Promising(c, ip) => Promising(c, ip)'
      BY DEF Promising, Thread
    <3> QED  BY <3>1, <3>2
  <2>2. CASE ip \notin promised[c]
    BY <2>2
  <2> QED  BY <2>1, <2>2
<1>5. Sound(Heap)
  BY DEF Calm, Tree
<1> PICK T : T = Heap
  OBVIOUS
<1>6. Heap' = T
  BY <1>1 DEF Heap
<1>7. Sound(T)'
  BY <1>1, <1>5, SoundSame DEF SameBlocks
<1>8. th'[t].pc # "back" => Tree(th[t])' = T
  BY <1>6 DEF Tree
<1> QED  BY <1>2, <1>4, <1>5, <1>6, <1>7, <1>8

(* A lookup: what it has to meet lies below where it is. *)
LEMMA FindKept ==
    ASSUME TypeOK, NEW t \in Client, Calm(t), Find(t)
    PROVE  Kept(t)'
<1>1. /\ th \in [Thread -> Local] /\ t \in Thread /\ th[t].cur \in Ptr /\ root \in Ptr
      /\ used \subseteq Addr
  BY StepFacts DEF Thread, TypeOK
<1>2. AsFar(t, th[t]) /\ t # Main
  BY TableAssumption DEF Calm
<1>3. UNCHANGED <<heapVars, alive, promised, cursor, now>>
  BY DEF Find, FindUnlock, FindLock, FindWalk
<1>4. /\ th[t].pc \in {"f_unlock", "f_lock", "f_walk"}
      /\ th'[t].pc \in {"f_lock", "f_walk", "found"}
      /\ th'[t].ip = th[t].ip /\ th'[t].path = th[t].path /\ th'[t].op = th[t].op
      /\ \A u \in Thread : u # t => th'[u] = th[u]
  BY <1>1 DEF Find, FindUnlock, FindLock, FindWalk, FindReturn, At, Local
<1>5. \A ip : ~Promising(t, ip)
  BY <1>4 DEF Promising
<1>6. alive' /\ Contents' /\ Promises' /\ Sound(Tree(th[t]))' /\ Sound(Heap) /\ Heap' = Heap
  BY <1>1, <1>3, <1>4, <1>5, QuietStep
<1>7. Heap \in Trees /\ Heap.top = root /\ Whole(Heap)
  BY <1>6, HeapFacts DEF Sound
<1> PICK k : k = th'[t]
  OBVIOUS
<1>8. th[t].ip \in Pool /\ th[t].path = <<>>
  BY <1>2, <1>4 DEF AsFar, InPool, Recursing, Walks
<1>9. SUFFICES /\ k.pc \in {"f_lock", "f_walk"} => Looks(k)'
               /\ k.pc = "found" => Found(k)'
  <2>1. AsFar(t, k)'
    BY <1>2, <1>4, <1>8, <1>9 DEF AsFar, InPool, Recursing, Walks, Mine
  <2> QED  BY <1>6, <2>1 DEF Kept
<1>10. \A p : Meets(Heap, p, k.ip)' = Meets(Heap, p, k.ip)
  <2> PICK T : T = Heap
    OBVIOUS
  <2>1. SameBlocks /\ Heap' = T
    BY <1>3, <1>6 DEF SameBlocks, heapVars
  <2>2. \A p : Meets(T, p, k.ip)' = Meets(T, p, k.ip)
    BY <2>1, MeetsSame
  <2> QED  BY <2>1, <2>2
<1>11. SUFFICES /\ k.pc \in {"f_lock", "f_walk"} => Looks(k)
                /\ k.pc = "found" => Found(k)
  BY <1>3, <1>10, <1>11 DEF heapVars, Looks, Found, Leased
<1>12. CASE FindUnlock(t)
  <2>1. k = [th[t] EXCEPT !.pc = "f_lock", !.cur = root]
    BY <1>1, <1>12 DEF FindUnlock
  <2>2. k.pc = "f_lock" /\ k.cur = root
    BY <1>1, <2>1 DEF Local
  <2> QED  BY <1>6, <1>7, <2>2 DEF Looks, Sound, Whole
<1>13. CASE FindLock(t)
  <2>1. k.pc = "f_walk" /\ k.cur = th[t].cur /\ th[t].pc = "f_lock"
    BY <1>1, <1>13 DEF FindLock, At, Local
  <2> QED  BY <1>2, <1>4, <2>1 DEF AsFar, Looks
<1>14. CASE FindWalk(t)
  <2> PICK a : a = th[t].cur
    OBVIOUS
  <2>1. th[t].pc = "f_walk" /\ Looks(th[t])
    BY <1>2, <1>14 DEF FindWalk, At, AsFar
  <2>2. CASE a # Null /\ node[a].ip # th[t].ip
    <3>1. k.pc = "f_walk" /\ k.cur = Child(a, SideOf(th[t].ip, a))
      BY <1>1, <1>14, <2>1, <2>2 DEF FindWalk, Local
    <3>2. a \in used /\ k.cur = Kid(Heap, a, SideOf(k.ip, a))
      BY <1>1, <1>4, <2>1, <2>2, <3>1, HeapFacts, SideOfSide DEF Looks
    <3>3. k.cur \in used \cup {Null}
      BY <1>7, <3>2, SideOfSide DEF Whole
    <3>4. ASSUME NEW b \in used, node[b].ip = k.ip PROVE b \in Meets(Heap, k.cur, k.ip)
      <4>1. b \in Meets(Heap, a, k.ip) /\ b # a
        BY <1>4, <2>1, <2>2, <3>4 DEF Looks
      <4> QED  BY <1>7, <3>2, <4>1, MeetsOn
    <3> QED  BY <3>1, <3>3, <3>4 DEF Looks
  <2>3. CASE ~(a # Null /\ node[a].ip # th[t].ip)
    <3>1. k.pc = "found" /\ k.cur = a
      BY <1>1, <1>14, <2>3 DEF FindWalk, FindReturn, Local
    <3>2. CASE a = Null
      <4>1. \A b \in used : node[b].ip # k.ip
        BY <1>4, <2>1, <3>2, MeetsNothing DEF Looks
      <4> QED  BY <3>1, <3>2, <4>1 DEF Found, Leased
    <3>3. CASE a # Null
      BY <1>4, <2>1, <2>3, <3>1, <3>3 DEF Found, Looks
    <3> QED  BY <3>2, <3>3
  <2> QED  BY <2>2, <2>3
<1> QED  BY <1>12, <1>13, <1>14 DEF Find

(* A thread out of calls has nothing to keep. *)
LEMMA IdleAsFar ==
    ASSUME NEW t, NEW k, k.pc \in {"idle", "ended"}, k.path = <<>>, k.op = "none"
    PROVE  AsFar(t, k)
BY DEF AsFar, InPool, Recursing, Walks, Mine

LEMMA ReturnedAsFar ==
    ASSUME TypeOK, NEW t \in Thread, Return(t)
    PROVE  /\ th'[t].pc \in {"idle", "ended"} /\ AsFar(t, th[t])'
           /\ \A u \in Thread : u # t => th'[u] = th[u]
<1> PICK k : k = th'[t]
  OBVIOUS
<1>1. k.pc \in {"idle", "ended"} /\ k.path = <<>> /\ k.op = "none"
  BY DEF Return, Idle, TypeOK
<1>2. AsFar(t, k)'
  BY <1>1 DEF AsFar, InPool, Recursing, Walks, Mine
<1> QED  BY <1>1, <1>2 DEF Return, TypeOK

(* assign_ip_address: the address it tries stays in the range. *)
LEMMA AssignKept ==
    ASSUME TypeOK, NEW t \in Client, Calm(t), Assign(t)
    PROVE  Kept(t)'
<1>1. /\ th \in [Thread -> Local] /\ t \in Thread /\ cursor \in Ip /\ th[t].ip \in Ip
  BY StepFacts DEF Thread
<1>2. AsFar(t, th[t]) /\ t # Main
  BY TableAssumption DEF Calm
<1>3. UNCHANGED <<heapVars, alive, now>>
  BY DEF Assign, AssignLock, AssignCursor, AssignRead, AssignNext, AssignAdvance, AssignWrap,
         AssignUnlock
<1>4. /\ th[t].pc \in {"a_lock", "a_cursor", "a_read", "found", "a_advance", "a_wrap", "a_unlock"}
      /\ th'[t].pc # "back"
      /\ \A u \in Thread : u # t => th'[u] = th[u]
  BY <1>1, ReturnedAsFar DEF Assign, AssignLock, AssignCursor, AssignRead, AssignNext,
     AssignAdvance, AssignWrap, AssignUnlock, At, Local
<1>5. \A ip : ~Promising(t, ip)
  BY <1>4 DEF Promising
<1>6. \A c \in Client : \A ip \in promised'[c] \ promised[c] : c = t /\ Held(ip, t)
  <2>1. CASE AssignUnlock(t)
    <3>1. th[t].pc = "a_unlock" /\ th[t].op = "assign" => Held(th[t].ip, t)
      BY <1>2 DEF AsFar, Mine
    <3>2. th[t].pc = "a_unlock" /\ th[t].op = "assign"
      BY <1>2, <2>1 DEF AssignUnlock, At, AsFar
    <3> QED  BY <2>1, <3>1, <3>2 DEF AssignUnlock, Promise, TypeOK
  <2>2. CASE ~AssignUnlock(t)
    <3>1. UNCHANGED promised
      BY <2>2 DEF Assign, AssignLock, AssignCursor, AssignRead, AssignNext, AssignAdvance,
                  AssignWrap
    <3> QED  BY <3>1
  <2> QED  BY <2>1, <2>2
<1>7. alive' /\ Contents' /\ Promises' /\ Sound(Tree(th[t]))'
  BY <1>1, <1>3, <1>4, <1>5, <1>6, QuietStep
<1> SUFFICES AsFar(t, th[t])'
  BY <1>7 DEF Kept
<1> PICK k : k = th'[t]
  OBVIOUS
<1> PICK l : l = th[t]
  OBVIOUS
<1>8. \A ip, c : Held(ip, c)' = Held(ip, c)
  BY <1>3 DEF heapVars, Held
<1>9. l \in Local /\ l.path = <<>>
  BY <1>1, <1>2, <1>4 DEF AsFar, Recursing, Walks
<1>10. CASE AssignLock(t)
  <2>1. l.pc = "a_lock" /\ k = [l EXCEPT !.pc = "a_cursor"]
    BY <1>1, <1>10 DEF AssignLock, At
  <2>2. k.pc = "a_cursor" /\ k.path = l.path /\ k.op = l.op
    BY <1>9, <2>1 DEF Local
  <2>3. AsFar(t, k)'
    BY <1>2, <1>9, <2>1, <2>2 DEF AsFar, InPool, Recursing, Walks, Mine
  <2> QED  BY <2>3
<1>11. CASE AssignCursor(t)
  <2>1. l.pc = "a_cursor" /\ k = [l EXCEPT !.pc = "a_read"]
    BY <1>1, <1>11 DEF AssignCursor, At
  <2>2. k.pc = "a_read" /\ k.path = l.path /\ k.op = l.op
    BY <1>9, <2>1 DEF Local
  <2>3. cursor' \in Pool
    BY <1>11, TableAssumption DEF AssignCursor, Pool
  <2>4. AsFar(t, k)'
    BY <1>2, <1>9, <2>1, <2>2, <2>3 DEF AsFar, InPool, Recursing, Walks, Mine
  <2> QED  BY <2>4
<1>12. CASE AssignRead(t)
  <2>1. l.pc = "a_read" /\ k = [l EXCEPT !.pc = "f_unlock", !.ip = cursor]
    BY <1>1, <1>12 DEF AssignRead, At
  <2>2. k.pc = "f_unlock" /\ k.path = l.path /\ k.op = l.op /\ k.ip = cursor
    BY <1>9, <2>1 DEF Local
  <2>3. cursor \in Pool
    BY <1>2, <2>1 DEF AsFar
  <2>4. AsFar(t, k)'
    BY <1>2, <1>9, <2>1, <2>2, <2>3 DEF AsFar, InPool, Recursing, Walks, Mine
  <2> QED  BY <2>4
<1>13. CASE AssignNext(t)
  <2>1. CASE FullRound(t)
    BY <1>1, <1>13, <2>1, ReturnedAsFar DEF AssignNext
  <2>2. CASE ~FullRound(t)
    <3>1. l.pc = "found"
          /\ k = [l EXCEPT !.pc = "f_unlock", !.ip = Wrapped(@ + 1), !.tries = @ + 1]
      BY <1>1, <1>13, <2>2 DEF AssignNext, At
    <3>2. k.pc = "f_unlock" /\ k.path = l.path /\ k.op = l.op /\ k.ip = Wrapped(l.ip + 1)
      BY <1>9, <3>1 DEF Local
    <3>3. l.ip \in Pool
      BY <1>2, <3>1 DEF AsFar, InPool
    <3>4. k.ip \in Pool
      BY <3>2, <3>3, TableAssumption DEF Wrapped, Pool
    <3>5. AsFar(t, k)'
      BY <1>2, <1>9, <3>1, <3>2, <3>4 DEF AsFar, InPool, Recursing, Walks, Mine
    <3> QED  BY <3>5
  <2> QED  BY <2>1, <2>2
<1>14. CASE AssignAdvance(t) \/ AssignWrap(t)
  <2>1. /\ l.pc \in {"a_advance", "a_wrap"}
        /\ k = [l EXCEPT !.pc = "a_wrap"] \/ k = [l EXCEPT !.pc = "a_unlock"]
    BY <1>1, <1>14 DEF AssignAdvance, AssignWrap, At
  <2>2. /\ k.pc \in {"a_wrap", "a_unlock"}
        /\ k.path = l.path /\ k.op = l.op /\ k.ip = l.ip
    BY <1>9, <2>1 DEF Local
  <2>3. AsFar(t, k)'
    BY <1>2, <1>8, <1>9, <2>1, <2>2 DEF AsFar, InPool, Recursing, Walks, Mine
  <2> QED  BY <2>3
<1>15. CASE AssignUnlock(t)
  BY <1>1, <1>15, ReturnedAsFar DEF AssignUnlock
<1> QED  BY <1>10, <1>11, <1>12, <1>13, <1>14, <1>15 DEF Assign

(* Recursions begin at the root, with an empty path. *)
AtRoot == \A t, l : l.path = <<>> /\ l.pc \in Walks /\ l.cur = root => OnPath(t, l)
LEMMA BeginsAtRoot == TypeOK => AtRoot
<1> SUFFICES ASSUME TypeOK, NEW t, NEW l, l.path = <<>>, l.pc \in Walks, l.cur = root
             PROVE  OnPath(t, l)
  BY DEF AtRoot
<1>1. Tree(l) = Heap /\ Heap.top = root /\ Len(l.path) = 0
  BY HeapFacts DEF Tree, Walks
<1>2. Linked(Tree(l), l.path) /\ Distinct(l.path) /\ l.cur = Place(Tree(l), l.path)
  BY <1>1, PlaceEmpty DEF Linked, Distinct
<1> QED  BY <1>1, <1>2 DEF OnPath, Walks

(* What follows a lookup: an answer, or the start of an insertion or a deletion. *)
LEMMA AnswerKept ==
    ASSUME TypeOK, TypeOK', NEW t \in Client, Calm(t), ~RenewWrite(t), Answer(t) \/ InsertStart(t)
    PROVE  Kept(t)'
<1>1. /\ th \in [Thread -> Local] /\ t \in Thread /\ t # Main
  BY StepFacts, TableAssumption DEF Thread
<1>2. AsFar(t, th[t])
  BY DEF Calm
<1>3. UNCHANGED <<heapVars, alive, now, locked>>
  BY DEF Answer, RequestFound, RenewFound, GiveBackFound, InsertStart
<1> PICK l : l = th[t]
  OBVIOUS
<1>4. /\ l.pc = "found" /\ l.path = <<>> /\ l.ip \in Pool /\ Found(l) /\ l \in Local
  <2>1. l.pc = "found"
    BY DEF Answer, RequestFound, RenewFound, GiveBackFound, InsertStart, At
  <2> QED  BY <1>1, <1>2, <2>1 DEF AsFar, InPool, Recursing, Walks
<1>5. /\ th'[t].pc # "back"
      /\ \A u \in Thread : u # t => th'[u] = th[u]
  BY <1>1, ReturnedAsFar, SMTT(30)
     DEF Answer, RequestFound, RenewFound, GiveBackFound, InsertStart, Local
<1>6. \A ip : ~Promising(t, ip)
  BY <1>4 DEF Promising
<1>7. \A c \in Client : \A ip \in promised'[c] \ promised[c] :
        c = t /\ (Held(ip, t) \/ Promising(t, ip)')
  <2>1. CASE RequestFound(t)
    <3>1. l.cur \in used /\ node[l.cur].ip = l.ip
      BY <1>4, <2>1 DEF RequestFound, Found
    <3>2. CASE node[l.cur].mac = t
      <4>1. Held(l.ip, t)
        BY <3>1, <3>2 DEF Held
      <4> QED  BY <2>1, <3>2, <4>1 DEF RequestFound, Promise, TypeOK
    <3>3. CASE node[l.cur].mac # t
      BY <2>1, <3>3 DEF RequestFound
    <3> QED  BY <3>2, <3>3
  <2>2. CASE InsertStart(t)
    <3>1. th'[t].pc = "i_walk" /\ th'[t].op = l.op /\ th'[t].ip = l.ip
      BY <1>1, <1>4, <2>2 DEF InsertStart, Local
    <3> QED  BY <2>2, <3>1 DEF InsertStart, Promise, Promising, TypeOK
  <2>3. CASE RenewFound(t) \/ GiveBackFound(t)
    BY <2>3 DEF RenewFound, GiveBackFound
  <2> QED  BY <2>1, <2>2, <2>3 DEF Answer
<1>8. alive' /\ Contents' /\ Promises' /\ Sound(Tree(th[t]))' /\ Heap' = Heap
  BY <1>1, <1>3, <1>4, <1>5, <1>6, <1>7, QuietStep
<1> SUFFICES AsFar(t, th[t])'
  BY <1>8 DEF Kept
<1> PICK k : k = th'[t]
  OBVIOUS
<1>a. AtRoot'
  BY BeginsAtRoot, PTL
<1>9. CASE Return(t)
  BY <1>1, <1>9, ReturnedAsFar
<1>10. CASE RenewFound(t) /\ ~Return(t)
  <2>1. k = [l EXCEPT !.pc = "n_write"] /\ l.cur # Null
    BY <1>1, <1>10 DEF RenewFound
  <2>2. k.pc = "n_write" /\ k.path = l.path /\ k.cur = l.cur /\ k.ip = l.ip
    BY <1>4, <2>1 DEF Local
  <2>3. Found(k)'
    BY <1>3, <1>4, <2>1, <2>2 DEF Found, heapVars
  <2>4. AsFar(t, k)'
    BY <1>1, <1>4, <2>1, <2>2, <2>3 DEF AsFar, InPool, Recursing, Walks, Mine
  <2> QED  BY <2>4
<1>11. CASE GiveBackFound(t) /\ ~Return(t)
  <2>1. k = [l EXCEPT !.pc = "d_lock", !.cur = root] /\ l.op = "giveback"
    BY <1>1, <1>11 DEF GiveBackFound
  <2>2. k.pc = "d_lock" /\ k.path = l.path /\ k.cur = root' /\ k.op = "giveback"
    BY <1>3, <1>4, <2>1 DEF Local, heapVars
  <2>3. OnPath(t, k)'
    BY <1>4, <1>a, <2>2 DEF AtRoot, Walks
  <2>4. Deletes(t, k)'
    BY <1>1, <1>4, <2>2 DEF Deletes
  <2>5. AsFar(t, k)'
    BY <1>1, <1>4, <2>1, <2>2, <2>3, <2>4 DEF AsFar, InPool, Recursing, Walks, Mine
  <2> QED  BY <2>5
<1>12. CASE InsertStart(t)
  <2>1. k = [l EXCEPT !.pc = "i_walk", !.cur = root] /\ l.op \in {"assign", "request"} /\ l.cur = Null
    BY <1>1, <1>12 DEF InsertStart
  <2>2. k.pc = "i_walk" /\ k.path = l.path /\ k.cur = root' /\ k.op = l.op /\ k.ip = l.ip
    BY <1>3, <1>4, <2>1 DEF Local, heapVars
  <2>3. OnPath(t, k)'
    BY <1>4, <1>a, <2>2 DEF AtRoot, Walks
  <2>4. Inserts(t, k)'
    BY <1>3, <1>4, <2>1, <2>2 DEF Inserts, Found, Leased, heapVars
  <2>5. AsFar(t, k)'
    BY <1>1, <1>4, <2>1, <2>2, <2>3, <2>4 DEF AsFar, InPool, Recursing, Walks, Mine
  <2> QED  BY <2>5
<1> QED
  <2>1. RequestFound(t) => Return(t)
    BY DEF RequestFound
  <2> QED  BY <1>9, <1>10, <1>11, <1>12, <2>1 DEF Answer

LEMMA RenewKept ==
    ASSUME TypeOK, NEW t \in Client, Calm(t), RenewWrite(t)
    PROVE  Kept(t)'
<1>1. /\ th \in [Thread -> Local] /\ t \in Thread /\ node \in [Addr -> Node]
      /\ used \subseteq Addr /\ now \in Nat
  BY StepFacts DEF Thread, TypeOK
<1> PICK a : a = th[t].cur
  OBVIOUS
<1>2. th[t].pc = "n_write" /\ a \in used /\ Sound(Heap)
  BY DEF Calm, AsFar, Found, RenewWrite, At, Tree
<1>3. /\ node' = [node EXCEPT ![a].start = now] /\ UNCHANGED <<used, root, alive, promised>>
      /\ \A b \in Addr : /\ node'[b].ip = node[b].ip /\ node'[b].mac = node[b].mac
                         /\ node'[b].left = node[b].left /\ node'[b].right = node[b].right
  BY <1>1 DEF RenewWrite, Node
<1> PICK T : T = Heap
  OBVIOUS
<1>4. Heap' = T
  <2>1. [b \in Addr |-> node'[b].left] = [b \in Addr |-> node[b].left]
    BY <1>3
  <2>2. [b \in Addr |-> node'[b].right] = [b \in Addr |-> node[b].right]
    BY <1>3
  <2> QED  BY <1>3, <2>1, <2>2 DEF Heap
<1>5. Sound(T)'
  BY <1>1, <1>2, <1>3, SoundSame DEF SameBlocks
<1>6. th'[t].pc \in {"idle", "ended"} /\ AsFar(t, th[t])'
      /\ \A u \in Thread : u # t => th'[u] = th[u]
  BY <1>1, ReturnedAsFar DEF RenewWrite
<1>7. Contents'
  <2>1. \A x, y \in used : node[x].ip = node[y].ip => x = y
    BY <1>2, OneBlock
  <2> QED  BY <1>1, <1>3, <2>1 DEF Calm, Contents, Agree
<1>8. \A ip, c : Held(ip, c)' = Held(ip, c)
  BY <1>1, <1>3 DEF Held
<1>9. Promises'
  <2> SUFFICES ASSUME NEW c \in Client, NEW ip \in promised[c]
               PROVE  Held(ip, c) \/ Promising(c, ip)'
    BY <1>3, <1>8 DEF Promises
  <2>1. Held(ip, c) \/ (Promising(c, ip) /\ c # t)
    BY <1>2 DEF Calm, Promises, Promising
  <2> QED  BY <1>6, <2>1 DEF Promising, Thread
<1>10. Tree(th[t])' = T
  BY <1>4, <1>6 DEF Tree
<1> QED  BY <1>3, <1>4, <1>5, <1>6, <1>7, <1>9, <1>10 DEF Kept, Calm

(* What a recursion at a block knows of it. *)
LEMMA AtBlock ==
    ASSUME TypeOK, Sound(Heap), NEW t, NEW l \in Local, l.pc \in Walks, OnPath(t, l), l.cur # Null
    PROVE  /\ l.cur \in used /\ l.cur \in Addr /\ l.cur = Place(Heap, l.path)
           /\ \A i \in 1..Len(l.path) : l.path[i].at # l.cur
<1>1. /\ Tree(l) = Heap /\ l.cur = Place(Heap, l.path) /\ Linked(Heap, l.path) /\ Distinct(l.path)
      /\ l.path \in Seq(Frame) /\ used \subseteq Addr
  BY DEF OnPath, Tree, Walks, Local, TypeOK
<1>2. CASE l.path = <<>>
  BY <1>1, <1>2, PlaceEmpty DEF Sound, Whole
<1>3. CASE l.path # <<>>
  <2>1. Len(l.path) \in 1..Len(l.path) /\ Last(l.path) \in Frame
    BY <1>1, <1>3, PopElements DEF Last
  <2>2. Last(l.path).at \in used /\ Last(l.path).side \in Side
    BY <1>1, <2>1 DEF Linked, Last, Frame
  <2> QED  BY <1>1, <1>3, <2>2, PlaceLast, KidFresh DEF Sound, Whole
<1>4. \A i \in 1..Len(l.path) : l.path[i].at # l.cur
  BY <1>1, KidFresh DEF Sound
<1> QED  BY <1>1, <1>2, <1>3, <1>4

(* A step down. *)
LEMMA DownOnPath ==
    ASSUME TypeOK, Sound(Heap), Heap' = Heap, used' = used, now' = now,
           NEW t \in Thread, NEW l \in Local, l.pc \in Walks, OnPath(t, l), l.cur # Null,
           NEW s \in Side, NEW k, k.pc \in Walks, k.cur = Kid(Heap, l.cur, s),
           k.path = Append(l.path, [at |-> l.cur, side |-> s, by |-> ByOf(t), time |-> now])
    PROVE  OnPath(t, k)'
<1> PICK T : T = Heap
  OBVIOUS
<1> PICK e : e = [at |-> l.cur, side |-> s, by |-> ByOf(t), time |-> now]
  OBVIOUS
<1>1. l.cur \in used /\ l.cur \in Addr /\ l.cur = Place(T, l.path)
  BY AtBlock
<1>2. now \in Nat /\ l.path \in Seq(Frame)
  BY DEF TypeOK, Local
<1>3. /\ e \in Frame /\ e.at = l.cur /\ e.side = s /\ e.by = ByOf(t) /\ e.time = now
  BY <1>1, <1>2 DEF Frame, ByOf
<1>4. /\ Linked(T, l.path) /\ Distinct(l.path)
      /\ \A i \in 1..Len(l.path) : l.path[i].by = ByOf(t) /\ l.path[i].time <= now
  BY DEF OnPath, Tree, Walks
<1>5. /\ k.path # <<>>
      /\ \A i \in 1..Len(k.path) :
           k.path[i] = e \/ \E j \in 1..Len(l.path) : k.path[i] = l.path[j]
      /\ Linked(T, k.path) /\ Distinct(k.path)
      /\ Place(T, k.path) = Kid(T, e.at, e.side)
  <2>1. k.path = Append(l.path, e) /\ OneParent(T)
    BY DEF Sound
  <2> QED  BY <1>1, <1>2, <1>3, <1>4, <2>1, LinkedPush
<1>6. \A i \in 1..Len(k.path) : k.path[i].by = ByOf(t) /\ k.path[i].time <= now
  BY <1>2, <1>3, <1>4, <1>5
<1>7. Tree(k)' = T
  BY DEF Tree, Walks
<1>8. Linked(T, k.path)'
  BY <1>5 DEF Linked, PlaceAt, Kid
<1>9. k.cur = Place(T, k.path) /\ Place(T, k.path)' = Place(T, k.path)
  BY <1>3, <1>5 DEF Place, PlaceAt, Kid
<1> QED  BY <1>5, <1>6, <1>7, <1>8, <1>9 DEF OnPath, Walks, ByOf

(* An insertion on its way down. *)
LEMMA InsertWalkKept ==
    ASSUME TypeOK, NEW t \in Client, Calm(t), InsertWalk(t)
    PROVE  Kept(t)'
<1>1. /\ th \in [Thread -> Local] /\ t \in Thread /\ t # Main
  BY StepFacts, TableAssumption DEF Thread
<1> PICK l : l = th[t]
  OBVIOUS
<1> PICK k : k = th'[t]
  OBVIOUS
<1> PICK s : s = SideOf(l.ip, l.cur)
  OBVIOUS
<1>2. /\ l.pc = "i_walk" /\ l.cur # Null /\ node[l.cur].ip # l.ip /\ l \in Local /\ s \in Side
      /\ AsFar(t, l) /\ UNCHANGED <<heapVars, alive, now, locked, promised>>
  BY <1>1, SideOfSide DEF InsertWalk, At, Calm
<1>3. k = [l EXCEPT !.path = Push(t, "insert", s), !.cur = Child(l.cur, s)]
      /\ \A u \in Thread : u # t => th'[u] = th[u]
  BY <1>1 DEF InsertWalk
<1>4. /\ k.pc = "i_walk" /\ k.op = l.op /\ k.ip = l.ip /\ k.cur = Child(l.cur, s)
      /\ k.path = Append(l.path, [at |-> l.cur, side |-> s, by |-> "insert", time |-> now])
  BY <1>2, <1>3 DEF Local, Push
<1>5. \A ip : Promising(t, ip) => Promising(t, ip)'
  BY <1>4 DEF Promising
<1>6. /\ alive' /\ Contents' /\ Promises' /\ Sound(Tree(th[t]))' /\ Sound(Heap) /\ Heap' = Heap
  BY <1>1, <1>2, <1>3, <1>4, <1>5, QuietStep
<1>7. OnPath(t, l) /\ Inserts(t, l) /\ l.ip \in Pool
  BY <1>2 DEF AsFar, Recursing, Walks, InPool
<1>8. l.cur \in used /\ l.cur \in Addr /\ l.cur = Place(Heap, l.path) /\ used' = used
  BY <1>2, <1>6, <1>7, AtBlock DEF Walks, heapVars
<1>9. OnPath(t, k)'
  <2>1. k.cur = Kid(Heap, l.cur, s)
    BY <1>2, <1>4, <1>8, HeapFacts
  <2> QED  BY <1>1, <1>2, <1>4, <1>6, <1>7, <1>8, <2>1, DownOnPath DEF Walks, ByOf
<1>10. Inserts(t, k)'
  <2> PICK e : e = [at |-> l.cur, side |-> s, by |-> "insert", time |-> now]
    OBVIOUS
  <2>1. l.path \in Seq(Frame) /\ e \in Frame
    BY <1>2, <1>8 DEF Local, Frame, TypeOK
  <2>2. k.path # <<>> /\ Last(k.path) = e
    BY <1>4, <2>1, PushElements, AppendNotEmpty DEF Last
  <2>3. l.cur \in Meets(Heap, root, l.ip)
    <3>1. CASE l.path = <<>>
      BY <1>8, <3>1, PlaceEmpty, HeapFacts, MeetsFirst
    <3>2. CASE l.path # <<>>
      <4>1. /\ Last(l.path).at \in Meets(Heap, root, l.ip) /\ node[Last(l.path).at].ip # l.ip
            /\ Last(l.path).side = SideOf(l.ip, Last(l.path).at)
        BY <1>7, <3>2 DEF Inserts
      <4>2. l.cur = Kid(Heap, Last(l.path).at, SideOf(l.ip, Last(l.path).at))
        BY <1>8, <2>1, <3>2, <4>1, PlaceLast
      <4> QED  BY <1>2, <1>6, <4>1, <4>2, MeetsDown DEF Sound
    <3> QED  BY <3>1, <3>2
  <2>4. l.cur \in Meets(Heap, root, l.ip)'
    <3> PICK T : T = Heap
      OBVIOUS
    <3> PICK r : r = root
      OBVIOUS
    <3>1. Meets(T, r, l.ip)' = Meets(T, r, l.ip)
      BY <1>2, MeetsSame DEF SameBlocks, heapVars
    <3> QED  BY <1>2, <1>6, <2>3, <3>1 DEF heapVars
  <2>5. /\ e.at = l.cur /\ e.side = s /\ s = SideOf(l.ip, l.cur)' /\ node'[l.cur].ip # l.ip
        /\ k.op \in {"assign", "request"} /\ ~Leased(k.ip)'
    BY <1>2, <1>4, <1>7 DEF Inserts, SideOf, Leased, heapVars
  <2> QED  BY <1>4, <2>2, <2>4, <2>5 DEF Inserts
<1>11. AsFar(t, k)'
  BY <1>1, <1>4, <1>7, <1>9, <1>10 DEF AsFar, InPool, Recursing, Walks, Mine
<1> QED  BY <1>6, <1>11 DEF Kept

(* There is a block for every address, so malloc cannot fail an insertion. *)
LEMMA HeapHasRoom ==
    ASSUME TypeOK, Sound(Heap), Contents, NEW ip \in Pool, ~Leased(ip)
    PROVE  used # Addr
<1> SUFFICES ASSUME used = Addr PROVE FALSE
  OBVIOUS
<1> DEFINE f == [a \in Addr |-> node[a].ip]
           Others == Pool \ {ip}
<1>1. f \in [Addr -> Others]
  BY DEF Contents, Leased
<1>2. IsFiniteSet(Pool) /\ Cardinality(Pool) = PoolSize
  <2>1. StartIp \in Int /\ EndIp \in Int /\ ~(StartIp > EndIp)
    BY TableAssumption
  <2> QED  BY <2>1, FS_Interval DEF Pool, PoolSize
<1>3. IsFiniteSet(Others) /\ Cardinality(Others) = PoolSize - 1
  BY <1>2, FS_RemoveElement
<1>4. Cardinality(Others) < Cardinality(Addr) /\ IsFiniteSet(Addr)
  <2>1. Cardinality(Addr) \in Nat /\ PoolSize \in Nat
    BY HeapAssumption, FS_CardinalityType, PoolNotEmpty
  <2> QED  BY <1>3, <2>1, HeapAssumption
<1> HIDE DEF Others, f
<1>5. PICK a, b \in Addr : a # b /\ f[a] = f[b]
  BY <1>1, <1>3, <1>4, FS_PigeonHole
<1>6. node[a].ip = node[b].ip
  BY <1>5 DEF f
<1> QED  BY <1>5, <1>6, OneBlock

(* A recursion that comes back to the root, in a tree that differs below it only. *)
LEMMA BackOnPath ==
    ASSUME NEW T, NEW t, NEW l \in Local, OnPath(t, l), T = Tree(l), now' = now,
           NEW k, k.pc = "back", k.path = l.path, NEW U, Tree(k)' = U,
           l.path # <<>> => U.top = T.top,
           \A i \in 1..Len(l.path) : l.path[i].at \in used',
           \A i \in 1..(Len(l.path) - 1) :
               Kid(U, l.path[i].at, l.path[i].side) = Kid(T, l.path[i].at, l.path[i].side)
    PROVE  OnPath(t, k)'
<1>1. Linked(T, l.path) /\ Distinct(l.path)
  BY DEF OnPath
<1>2. Len(l.path) \in Nat
  BY DEF Local
<1>3. Linked(U, k.path)'
  BY <1>1, <1>2, LinkedSame
<1>4. Distinct(k.path)
      /\ \A i \in 1..Len(k.path) : k.path[i].by = ByOf(t) /\ k.path[i].time <= now'
  BY <1>1 DEF OnPath
<1> QED  BY <1>3, <1>4 DEF OnPath, Walks, ByOf

(* A new node is where a lookup of its address leads to. *)
LEMMA InsertEndKept ==
    ASSUME TypeOK, NEW t \in Client, Calm(t), InsertEnd(t)
    PROVE  Kept(t)'
<1>1. /\ th \in [Thread -> Local] /\ t \in Thread /\ t # Main /\ node \in [Addr -> Node]
      /\ used \subseteq Addr /\ now \in Nat /\ Null \notin Addr
  BY StepFacts, TableAssumption DEF Thread, TypeOK
<1> PICK l : l = th[t]
  OBVIOUS
<1> PICK k : k = th'[t]
  OBVIOUS
<1> PICK T : T = Heap
  OBVIOUS
<1>2. /\ l.pc = "i_walk" /\ l \in Local /\ AsFar(t, l)
      /\ UNCHANGED <<root, locked, alive, now, promised>>
  BY <1>1 DEF InsertEnd, At, Calm
<1>3. OnPath(t, l) /\ Inserts(t, l) /\ l.ip \in Pool /\ Sound(T) /\ Contents /\ T = Tree(l)
  BY <1>2 DEF AsFar, Recursing, Walks, InPool, Calm, Tree
<1>4. /\ T \in Trees /\ T.top = root /\ l.path \in Seq(Frame) /\ l.cur = Place(T, l.path)
      /\ Linked(T, l.path) /\ Distinct(l.path) /\ ~Leased(l.ip)
  BY <1>2, <1>3, HeapFacts DEF OnPath, Walks, Local, Inserts
<1>5. ~(l.cur # Null /\ node[l.cur].ip = l.ip)
  <2> SUFFICES ASSUME l.cur # Null PROVE node[l.cur].ip # l.ip
    OBVIOUS
  <2>1. l.cur \in used
    BY <1>2, <1>3, AtBlock DEF Walks
  <2> QED  BY <1>4, <2>1 DEF Leased
<1>6. used # Addr
  BY <1>3, <1>4, HeapHasRoom
<1>7. PICK b \in Addr \ used :
        /\ l.cur = Null
        /\ node' = [node EXCEPT ![b] = [ip |-> l.ip, mac |-> t, start |-> now,
                                       left |-> Null, right |-> Null]]
        /\ used' = used \cup {b}
        /\ th' = [th EXCEPT ![t].pc = "back", ![t].ret = b]
  BY <1>5, <1>6 DEF InsertEnd
<1>8. /\ k.pc = "back" /\ k.ret = b /\ k.path = l.path /\ k.op = l.op /\ k.ip = l.ip
      /\ \A u \in Thread : u # t => th'[u] = th[u]
  BY <1>1, <1>2, <1>7 DEF Local
<1>9. /\ \A a \in Addr : a # b => node'[a] = node[a]
      /\ node'[b].ip = l.ip /\ node'[b].mac = t /\ node'[b].left = Null /\ node'[b].right = Null
  BY <1>1, <1>7
<1> PICK H : H = Heap'
  OBVIOUS
<1>10. /\ H \in Trees /\ H.top = root
       /\ \A a \in Addr, s \in Side : Kid(H, a, s) = IF a = b THEN Null ELSE Kid(T, a, s)
  <2>1. H = [top |-> root, left |-> [a \in Addr |-> IF a = b THEN Null ELSE node[a].left],
             right |-> [a \in Addr |-> IF a = b THEN Null ELSE node[a].right]]
    BY <1>2, <1>9 DEF Heap
  <2>2. T = [top |-> root, left |-> [a \in Addr |-> node[a].left],
             right |-> [a \in Addr |-> node[a].right]]
    BY DEF Heap
  <2> QED  BY <1>4, <2>1, <2>2, PtrFacts DEF Trees, Kid, Side
<1> PICK U : U = Placed(H, l.path, b)
  OBVIOUS
<1>11. Tree(k)' = U
  BY <1>8 DEF Tree
<1>12. b \in Ptr /\ (l.path # <<>> =>
         /\ U.top = root /\ Last(l.path).at \in used /\ Last(l.path).side \in Side
         /\ \A a \in Addr, s \in Side : Kid(U, a, s) =
              IF a = Last(l.path).at /\ s = Last(l.path).side THEN b ELSE Kid(H, a, s))
  <2>1. b \in Ptr
    BY PtrFacts
  <2>2. ASSUME l.path # <<>> PROVE Last(l.path).at \in used
    BY <1>4, <2>2, PopElements DEF Linked, Last
  <2> QED  BY <1>4, <1>10, <2>1, <2>2, PlacedFacts
<1>13. Hung(T, U, b)
  <2>1. \A a \in used : node'[a].ip = node[a].ip
    BY <1>1, <1>9
  <2>2. CASE l.path = <<>>
    <3>1. U.top = b /\ \A a, s : Kid(U, a, s) = Kid(H, a, s)
      BY <1>10, <1>12, <2>2, PlacedEmpty
    <3>2. T.top = Null
      BY <1>4, <1>7, <2>2, PlaceEmpty
    <3>3. Kid(U, b, "left") = Null /\ Kid(U, b, "right") = Null
      BY <1>10, <3>1 DEF Side
    <3>4. \A a \in used, s \in Side : Kid(U, a, s) = Kid(T, a, s)
      BY <1>1, <1>10, <3>1
    <3> QED  BY <1>7, <2>1, <3>1, <3>2, <3>3, <3>4 DEF Hung, Kid
  <2>3. CASE l.path # <<>>
    <3> DEFINE e == Last(l.path).at
               r == Last(l.path).side
    <3>1. e \in Meets(T, T.top, l.ip) /\ node[e].ip # l.ip /\ r = SideOf(l.ip, e)
      BY <1>3, <1>4, <2>3 DEF Inserts
    <3>2. e \in used /\ r \in Side /\ U.top = T.top
      BY <1>4, <1>12, <2>3
    <3>3. Kid(T, e, r) = Null /\ Kid(U, e, r) = b
      <4>1. Place(T, l.path) = Kid(T, e, r)
        BY <1>4, <2>3, PlaceLast
      <4>2. Place(T, l.path) = Null
        BY <1>4, <1>7
      <4>3. e \in Addr
        BY <1>1, <3>2
      <4> QED  BY <1>12, <2>3, <3>2, <4>1, <4>2, <4>3
    <3>4. \A a \in used, s \in Side : a # e \/ s # r => Kid(U, a, s) = Kid(T, a, s)
      BY <1>1, <1>10, <1>12, <2>3
    <3>5. Kid(U, b, "left") = Null /\ Kid(U, b, "right") = Null
      BY <1>10, <1>12, <2>3, <3>2 DEF Side
    <3> HIDE DEF e, r
    <3> QED  BY <1>7, <1>9, <2>1, <3>1, <3>2, <3>3, <3>4, <3>5 DEF Hung, Kid
  <2> QED  BY <2>2, <2>3
<1>14. Sound(U)'
  BY <1>3, <1>13, SoundHung
<1>15. OnPath(t, k)'
  <2>1. \A i \in 1..Len(l.path) : l.path[i].at \in used'
    BY <1>4, <1>7 DEF Linked
  <2>2. ASSUME NEW i \in 1..(Len(l.path) - 1)
        PROVE  Kid(U, l.path[i].at, l.path[i].side) = Kid(T, l.path[i].at, l.path[i].side)
    <3>1. /\ i \in 1..Len(l.path) /\ Len(l.path) \in 1..Len(l.path) /\ i # Len(l.path)
          /\ l.path # <<>>
      BY <1>4
    <3>2. l.path[i].at # Last(l.path).at
      BY <1>4, <3>1 DEF Distinct, Last
    <3>3. l.path[i].at \in used /\ l.path[i] \in Frame
      BY <1>4, <3>1 DEF Linked
    <3>4. l.path[i].side \in Side /\ l.path[i].at # b
      BY <1>7, <3>3 DEF Frame
    <3> QED  BY <1>1, <1>10, <1>12, <3>1, <3>2, <3>3, <3>4
  <2>3. l.path # <<>> => U.top = T.top
    BY <1>4, <1>12
  <2> QED  BY <1>2, <1>3, <1>8, <1>11, <2>1, <2>2, <2>3, BackOnPath
<1>16. \A ip, c : Held(ip, c) => Held(ip, c)'
  BY <1>1, <1>7, <1>9 DEF Held
<1>17. Held(l.ip, t)'
  BY <1>7, <1>9 DEF Held
<1>18. Contents'
  <2>1. \A a \in used : node[a].ip # l.ip
    BY <1>4 DEF Leased
  <2> QED  BY <1>1, <1>3, <1>7, <1>9, <2>1 DEF Contents, Agree
<1>19. Promises'
  <2> SUFFICES ASSUME NEW c \in Client, NEW ip \in promised[c]
               PROVE  Held(ip, c)' \/ Promising(c, ip)'
    BY <1>2 DEF Promises
  <2>1. Held(ip, c) \/ Promising(c, ip)
    BY DEF Calm, Promises
  <2>2. CASE c = t
    BY <1>16, <1>17, <2>1, <2>2 DEF Promising
  <2>3. CASE c # t
    <3>1. th'[c] = th[c]
      BY <1>8, <2>3 DEF Thread
    <3> QED  BY <1>16, <2>1, <3>1 DEF Promising
  <2> QED  BY <2>2, <2>3
<1>20. AsFar(t, k)'
  BY <1>1, <1>3, <1>8, <1>15, <1>17 DEF AsFar, InPool, Recursing, Walks, Mine
<1>21. alive'
  BY <1>2 DEF Calm
<1> QED  BY <1>11, <1>14, <1>18, <1>19, <1>20, <1>21 DEF Kept

(* A recursion on its way back: what it stores was there already, or is new. *)
LEMMA StoreKept ==
    ASSUME TypeOK, NEW t \in Thread, Calm(t), th[t].pc = "back", th[t].path # <<>>,
           Store(Top(t).at, Top(t).side, th[t].ret),
           UNCHANGED <<used, root, now, alive, promised>>,
           \A u \in Thread : u # t => th'[u] = th[u]
    PROVE  /\ alive' /\ Contents' /\ Promises' /\ \A ip, c : Held(ip, c)' = Held(ip, c)
           /\ Heap' = Tree(th[t]) /\ Tree(th[t]) \in Trees
           /\ Sound(Tree(th[t])) /\ \A T : T = Tree(th[t]) => Sound(T)'
<1>1. /\ th[t].path \in Seq(Frame) /\ th[t].ret \in Ptr /\ used \subseteq Addr
  BY StepFacts DEF TypeOK
<1>2. Heap' = Placed(Heap, th[t].path, th[t].ret)
      /\ \A a \in Addr : /\ node'[a].ip = node[a].ip /\ node'[a].mac = node[a].mac
                         /\ node'[a].start = node[a].start
  BY HeapStored
<1>3. Heap' = Tree(th[t]) /\ Sound(Tree(th[t]))
  BY <1>2 DEF Tree, Calm
<1>4. Tree(th[t]) \in Trees
  <2>1. Heap \in Trees
    BY HeapFacts
  <2> QED  BY <1>1, <2>1, PlacedFacts DEF Tree
<1>5. /\ Contents => Contents'
      /\ \A ip, c : Held(ip, c)' = Held(ip, c)
  BY <1>1, <1>2, SameLeases
<1>6. Promises'
  <2> SUFFICES ASSUME NEW c \in Client, NEW ip \in promised[c]
               PROVE  Held(ip, c) \/ Promising(c, ip)'
    BY <1>5 DEF Promises
  <2>1. Held(ip, c) \/ (Promising(c, ip) /\ c # t)
    BY DEF Calm, Promises, Promising
  <2> QED  BY <2>1 DEF Promising, Thread
<1>7. ASSUME NEW T, T = Tree(th[t]) PROVE Sound(T)'
  BY <1>1, <1>2, <1>3, <1>7, SoundSame DEF SameBlocks
<1> QED  BY <1>3, <1>4, <1>5, <1>6, <1>7 DEF Calm

LEMMA InsertBackKept ==
    ASSUME TypeOK, NEW t \in Client, Calm(t), InsertBack(t)
    PROVE  Kept(t)'
<1>1. /\ th \in [Thread -> Local] /\ t \in Thread /\ t # Main
  BY StepFacts, TableAssumption DEF Thread
<1> PICK l : l = th[t]
  OBVIOUS
<1> PICK k : k = th'[t]
  OBVIOUS
<1> PICK T : T = Tree(l)
  OBVIOUS
<1>2. /\ l.pc = "back" /\ l.path # <<>> /\ l \in Local /\ AsFar(t, l) /\ l.path \in Seq(Frame)
      /\ k = [l EXCEPT !.path = Pop(t), !.ret = Top(t).at]
      /\ \A u \in Thread : u # t => th'[u] = th[u]
  BY <1>1 DEF InsertBack, At, Calm, Local
<1>3. /\ k.pc = "back" /\ k.op = l.op /\ k.ip = l.ip /\ k.ret = Last(l.path).at
      /\ k.path = SubSeq(l.path, 1, Len(l.path) - 1)
  BY <1>2 DEF Local, Top, Pop, Last
<1>4. /\ alive' /\ Contents' /\ Promises' /\ \A ip, c : Held(ip, c)' = Held(ip, c)
      /\ Heap' = T /\ T \in Trees /\ Sound(T)' /\ now' = now /\ used' = used
  BY <1>1, <1>2, StoreKept DEF InsertBack
<1>5. OnPath(t, l) /\ (l.op = "assign" => Held(l.ip, t))
  BY <1>2 DEF AsFar, Recursing, Mine
<1>6. /\ k.path \in Seq(Frame) /\ Linked(T, k.path) /\ Distinct(k.path)
      /\ \A i \in 1..Len(k.path) : \E j \in 1..Len(l.path) : k.path[i] = l.path[j]
      /\ Place(T, k.path) = k.ret /\ k.ret \in used
  BY <1>2, <1>3, <1>5, LinkedPop, SMTT(30) DEF OnPath
<1>7. Tree(k)' = T
  <2>1. Placed(T, k.path, k.ret) = T
    BY <1>4, <1>6, PlacedSame DEF TypeOK, Ptr
  <2> QED  BY <1>3, <1>4, <2>1 DEF Tree
<1>8. Linked(T, k.path)'
  BY <1>4, <1>6 DEF Linked, PlaceAt, Kid
<1>9. OnPath(t, k)'
  <2>1. \A i \in 1..Len(k.path) : k.path[i].by = ByOf(t) /\ k.path[i].time <= now'
    BY <1>4, <1>5, <1>6 DEF OnPath
  <2> QED  BY <1>3, <1>6, <1>7, <1>8, <2>1 DEF OnPath, Walks, ByOf
<1>10. AsFar(t, k)'
  BY <1>1, <1>3, <1>4, <1>5, <1>9 DEF AsFar, InPool, Recursing, Walks, Mine
<1> QED  BY <1>4, <1>7, <1>10 DEF Kept

LEMMA SweepBackKept ==
    ASSUME TypeOK, NEW t \in Thread, t = Main, Calm(t), SweepBack(t)
    PROVE  Kept(t)'
<1>1. th \in [Thread -> Local] /\ t \notin Client
  BY StepFacts, TableAssumption
<1> PICK l : l = th[t]
  OBVIOUS
<1> PICK k : k = th'[t]
  OBVIOUS
<1> PICK T : T = Tree(l)
  OBVIOUS
<1>2. /\ l.pc = "back" /\ l.path # <<>> /\ l \in Local /\ AsFar(t, l) /\ l.path \in Seq(Frame)
      /\ \A u \in Thread : u # t => th'[u] = th[u]
  BY <1>1 DEF SweepBack, At, Calm, Local
<1>3. /\ alive' /\ Contents' /\ Promises' /\ \A ip, c : Held(ip, c)' = Held(ip, c)
      /\ Heap' = T /\ T \in Trees /\ Sound(T)' /\ now' = now /\ used' = used
  BY <1>2, StoreKept DEF SweepBack
<1>4. OnPath(t, l) /\ l.op # "assign"
  BY <1>2 DEF AsFar, Recursing
<1>5. Linked(T, l.path) /\ Distinct(l.path)
      /\ \A i \in 1..Len(l.path) : l.path[i].by = ByOf(t) /\ l.path[i].time <= now
  BY <1>4 DEF OnPath
<1>6. CASE Top(t).side = "left"
  <2>1. k = [l EXCEPT !.pc = "s_enter", !.cur = node[Top(t).at].right,
                      !.path = Append(Pop(t), [Top(t) EXCEPT !.side = "right"])]
    BY <1>1, <1>6 DEF SweepBack
  <2>2. /\ k.pc = "s_enter" /\ k.op = l.op /\ k.cur = node[Last(l.path).at].right
        /\ k.path = Append(SubSeq(l.path, 1, Len(l.path) - 1), [Last(l.path) EXCEPT !.side = "right"])
    BY <1>2, <2>1 DEF Local, Top, Pop, Last
  <2>3. /\ Linked(T, k.path) /\ Distinct(k.path)
        /\ \A i \in 1..Len(k.path) : \E j \in 1..Len(l.path) :
             k.path[i].by = l.path[j].by /\ k.path[i].time = l.path[j].time
        /\ Place(T, k.path) = Kid(T, Last(l.path).at, "right")
    <3> PICK e : e = [Last(l.path) EXCEPT !.side = "right"]
      OBVIOUS
    <3>1. Last(l.path) \in Frame
      BY <1>2, PopElements DEF Last
    <3>2. /\ e \in Frame /\ e.at = Last(l.path).at /\ e.side = "right"
          /\ e.by = Last(l.path).by /\ e.time = Last(l.path).time
      BY <3>1 DEF Frame, Side
    <3> PICK p, q : p = l.path /\ q = k.path
      OBVIOUS
    <3>3. q = Append(SubSeq(p, 1, Len(p) - 1), e)
      BY <2>2
    <3>4. p \in Seq(Frame) /\ p # <<>> /\ Linked(T, p) /\ Distinct(p)
      BY <1>2, <1>5
    <3>5. /\ e \in Frame /\ e.at = Last(p).at /\ e.side = "right" /\ e.by = Last(p).by
          /\ e.time = Last(p).time
      BY <3>2
    <3>6. Linked(T, q) /\ Distinct(q)
      BY ONLY <3>3, <3>4, <3>5, LinkedTurn
    <3>7. \A i \in 1..Len(q) : \E j \in 1..Len(p) :
               q[i].by = p[j].by /\ q[i].time = p[j].time
      BY ONLY <3>3, <3>4, <3>5, LinkedTurn, SMTT(30)
    <3>8. Place(T, q) = Kid(T, Last(p).at, "right")
      BY ONLY <3>3, <3>4, <3>5, LinkedTurn
    <3> QED  BY <3>6, <3>7, <3>8
  <2>4. k.cur = Kid(T, Last(l.path).at, "right")
    <3>1. T = Placed(Heap, l.path, l.ret) /\ Last(l.path).side = "left" /\ l.ret \in Ptr
      BY <1>2, <1>6 DEF Tree, Top, Last, Local
    <3>2. /\ Last(l.path).at \in Addr
          /\ Kid(T, Last(l.path).at, "right") = Kid(Heap, Last(l.path).at, "right")
      <4>1. Heap \in Trees /\ "right" \in Side /\ "right" # "left"
        BY HeapFacts DEF Side
      <4> QED  BY <1>2, <3>1, <4>1, PlacedFacts
    <3> QED  BY <2>2, <3>2, HeapFacts
  <2>5. Tree(k)' = T
    BY <1>3, <2>2 DEF Tree
  <2>6. Linked(T, k.path)' /\ k.cur = Place(T, k.path)'
    BY <1>3, <2>3, <2>4 DEF Linked, Place, PlaceAt, Kid
  <2>7. OnPath(t, k)'
    <3>1. \A i \in 1..Len(k.path) : k.path[i].by = ByOf(t) /\ k.path[i].time <= now'
      BY <1>3, <1>5, <2>3
    <3> QED  BY <2>2, <2>3, <2>5, <2>6, <3>1 DEF OnPath, Walks, ByOf
  <2>8. AsFar(t, k)'
    BY <1>4, <2>2, <2>7 DEF AsFar, InPool, Recursing, Walks, Mine
  <2> QED  BY <1>3, <2>5, <2>8 DEF Kept
<1>7. CASE Top(t).side = "right"
  <2>1. k = [l EXCEPT !.pc = "s_check"]
    BY <1>1, <1>7 DEF SweepBack
  <2>2. k.pc = "s_check" /\ k.op = l.op /\ k.path = l.path
    BY <1>2, <2>1 DEF Local
  <2>3. Tree(k)' = T
    BY <1>3, <2>2 DEF Tree
  <2>4. Linked(T, k.path)'
    BY <1>3, <1>5, <2>2 DEF Linked, PlaceAt, Kid
  <2>5. OnPath(t, k)'
    BY <1>2, <1>3, <1>5, <2>2, <2>3, <2>4 DEF OnPath, Walks, ByOf
  <2>6. AsFar(t, k)'
    BY <1>4, <2>2, <2>5 DEF AsFar, InPool, Recursing, Walks, Mine
  <2> QED  BY <1>3, <2>3, <2>6 DEF Kept
<1> QED  BY <1>6, <1>7 DEF SweepBack

(* A recursion that returns what is in its place already. *)
LEMMA SameOnPath ==
    ASSUME TypeOK, NEW T \in Trees, Heap' = T, used' = used, now' = now, NEW t,
           NEW k, k.pc = "back", k.path \in Seq(Frame), Linked(T, k.path), Distinct(k.path),
           \A i \in 1..Len(k.path) : k.path[i].by = ByOf(t) /\ k.path[i].time <= now,
           k.ret = Place(T, k.path), k.ret \in Ptr
    PROVE  OnPath(t, k)' /\ Tree(k)' = T
<1>1. Tree(k)' = T
  <2>1. Placed(T, k.path, k.ret) = T
    BY PlacedSame
  <2> QED  BY <2>1 DEF Tree
<1>2. Linked(T, k.path)'
  BY DEF Linked, PlaceAt, Kid
<1> QED  BY <1>1, <1>2 DEF OnPath, Walks, ByOf

LEMMA SweepEnterKept ==
    ASSUME TypeOK, NEW t \in Thread, t = Main, Calm(t), SweepEnter(t)
    PROVE  Kept(t)'
<1>1. th \in [Thread -> Local] /\ t \notin Client
  BY StepFacts, TableAssumption
<1> PICK l : l = th[t]
  OBVIOUS
<1> PICK k : k = th'[t]
  OBVIOUS
<1> PICK T : T = Heap
  OBVIOUS
<1>2. /\ l.pc = "s_enter" /\ l \in Local /\ AsFar(t, l) /\ l.path \in Seq(Frame)
      /\ UNCHANGED <<heapVars, alive, now, promised>>
      /\ \A u \in Thread : u # t => th'[u] = th[u]
  BY <1>1 DEF SweepEnter, At, Calm, Local
<1>3. \A ip : ~Promising(t, ip)
  BY <1>2 DEF Promising
<1>4. /\ alive' /\ Contents' /\ Promises' /\ Sound(Heap) /\ Heap' = T /\ Sound(T)' /\ T \in Trees
      /\ th'[t].pc # "back" => Sound(Tree(th[t]))'
  BY <1>1, <1>2, <1>3, QuietStep, HeapFacts
<1>5. OnPath(t, l) /\ l.op # "assign" /\ used' = used
  BY <1>2 DEF AsFar, Recursing, Walks, heapVars
<1>6. /\ Linked(T, l.path) /\ Distinct(l.path) /\ l.cur = Place(T, l.path)
      /\ \A i \in 1..Len(l.path) : l.path[i].by = ByOf(t) /\ l.path[i].time <= now
  BY <1>2, <1>5 DEF OnPath, Tree, Walks
<1>7. CASE l.cur # Null
  <2>1. k = [l EXCEPT !.path = Push(t, "sweep", "left"), !.cur = node[l.cur].left]
    BY <1>1, <1>7 DEF SweepEnter
  <2>2. /\ k.pc = "s_enter" /\ k.op = l.op /\ k.cur = node[l.cur].left
        /\ k.path = Append(l.path, [at |-> l.cur, side |-> "left", by |-> ByOf(t), time |-> now])
    BY <1>2, <2>1 DEF Local, Push, ByOf
  <2>3. l.cur \in Addr /\ "left" \in Side
    BY <1>2, <1>4, <1>5, <1>7, AtBlock DEF Walks, Side
  <2>4. k.cur = Kid(Heap, l.cur, "left")
    BY <2>2, <2>3, HeapFacts
  <2>5. OnPath(t, k)'
    BY <1>2, <1>4, <1>5, <1>7, <2>2, <2>3, <2>4, DownOnPath, SMTT(30) DEF Walks
  <2>6. AsFar(t, k)'
    BY <1>5, <2>2, <2>5 DEF AsFar, InPool, Recursing, Walks, Mine
  <2> QED  BY <1>4, <2>2, <2>6 DEF Kept
<1>8. CASE l.cur = Null
  <2>1. k = [l EXCEPT !.pc = "back", !.ret = Null]
    BY <1>1, <1>8 DEF SweepEnter
  <2>2. k.pc = "back" /\ k.op = l.op /\ k.ret = Null /\ k.path = l.path
    BY <1>2, <2>1 DEF Local
  <2>3. OnPath(t, k)' /\ Tree(k)' = T
    <3>1. k.path \in Seq(Frame) /\ Linked(T, k.path) /\ Distinct(k.path)
      BY <1>2, <1>6, <2>2
    <3>2. \A i \in 1..Len(k.path) : k.path[i].by = ByOf(t) /\ k.path[i].time <= now
      BY <1>6, <2>2
    <3>3. k.ret = Place(T, k.path) /\ k.ret \in Ptr
      BY <1>6, <1>8, <2>2, PtrFacts
    <3>4. TypeOK /\ T \in Trees /\ Heap' = T /\ used' = used /\ now' = now /\ k.pc = "back"
      BY <1>2, <1>4, <1>5, <2>2
    <3> QED  BY ONLY <3>1, <3>2, <3>3, <3>4, SameOnPath
  <2>4. AsFar(t, k)'
    BY <1>5, <2>2, <2>3 DEF AsFar, InPool, Recursing, Walks, Mine
  <2> QED  BY <1>4, <2>3, <2>4 DEF Kept
<1> QED  BY <1>7, <1>8

(* The sweep deletes a lease only once it has run out. *)
LEMMA SweepCheckKept ==
    ASSUME TypeOK, NEW t \in Thread, t = Main, Calm(t), SweepCheck(t)
    PROVE  Kept(t)'
<1>1. th \in [Thread -> Local] /\ t \notin Client
  BY StepFacts, TableAssumption
<1> PICK l : l = th[t]
  OBVIOUS
<1> PICK k : k = th'[t]
  OBVIOUS
<1> PICK T : T = Heap
  OBVIOUS
<1> PICK a : a = Last(l.path).at
  OBVIOUS
<1>2. /\ l.pc = "s_check" /\ l \in Local /\ AsFar(t, l) /\ l.path \in Seq(Frame)
      /\ UNCHANGED <<heapVars, alive, now, promised>>
      /\ \A u \in Thread : u # t => th'[u] = th[u]
  BY <1>1 DEF SweepCheck, At, Calm, Local
<1>3. \A ip : ~Promising(t, ip)
  BY <1>2 DEF Promising
<1>4. /\ alive' /\ Contents' /\ Promises' /\ Sound(Heap) /\ Heap' = T /\ Sound(T)' /\ T \in Trees
      /\ th'[t].pc # "back" => Sound(Tree(th[t]))'
  BY <1>1, <1>2, <1>3, QuietStep, HeapFacts
<1>5. OnPath(t, l) /\ l.op # "assign" /\ l.path # <<>> /\ UNCHANGED <<used, node>>
  BY <1>2 DEF AsFar, Recursing, Walks, OnPath, heapVars
<1>6. /\ Linked(T, l.path) /\ Distinct(l.path)
      /\ \A i \in 1..Len(l.path) : l.path[i].by = ByOf(t) /\ l.path[i].time <= now
  BY <1>2, <1>5 DEF OnPath, Tree
<1>7. /\ k.op = l.op /\ k.path = SubSeq(l.path, 1, Len(l.path) - 1)
      /\ \/ /\ k.pc = "d_lock" /\ k.cur = a /\ k.ip = node[a].ip
            /\ Last(l.path).time - node[a].start > LeaseTime
         \/ k.pc = "back" /\ k.ret = a
  <2>1. Top(t) = Last(l.path) /\ Pop(t) = SubSeq(l.path, 1, Len(l.path) - 1)
    BY DEF Top, Pop, Last
  <2>2. \/ /\ k = [l EXCEPT !.pc = "d_lock", !.cur = a, !.ip = node[a].ip, !.path = Pop(t)]
           /\ Last(l.path).time - node[a].start > LeaseTime
        \/ k = [l EXCEPT !.pc = "back", !.ret = a, !.path = Pop(t)]
    <3>1. \/ /\ th' = [th EXCEPT ![t].pc = "d_lock", ![t].cur = a, ![t].ip = node[a].ip,
                                  ![t].path = Pop(t)]
             /\ Last(l.path).time - node[a].start > LeaseTime
          \/ th' = [th EXCEPT ![t].pc = "back", ![t].ret = a, ![t].path = Pop(t)]
      BY <2>1 DEF SweepCheck, Over
    <3> PICK p : p = Pop(t)
      OBVIOUS
    <3> QED  BY <1>1, <3>1
  <2> QED  BY <1>2, <2>1, <2>2 DEF Local
<1>8. /\ k.path \in Seq(Frame) /\ Linked(T, k.path) /\ Distinct(k.path)
      /\ \A i \in 1..Len(k.path) : \E j \in 1..Len(l.path) : k.path[i] = l.path[j]
      /\ Place(T, k.path) = a /\ a \in used
  <2> PICK p, q : p = l.path /\ q = k.path
    OBVIOUS
  <2>1. p \in Seq(Frame) /\ p # <<>> /\ Linked(T, p) /\ Distinct(p)
        /\ q = SubSeq(p, 1, Len(p) - 1)
    BY <1>2, <1>5, <1>6, <1>7
  <2>2. q \in Seq(Frame) /\ Linked(T, q) /\ Distinct(q)
    BY ONLY <2>1, LinkedPop
  <2>3. \A i \in 1..Len(q) : \E j \in 1..Len(p) : q[i] = p[j]
    BY ONLY <2>1, LinkedPop
  <2>4. Place(T, q) = Last(p).at /\ Last(p).at \in used
    BY <2>1, PlacePop
  <2> QED  BY <2>2, <2>3, <2>4
<1>9. \A i \in 1..Len(k.path) : k.path[i].by = ByOf(t) /\ k.path[i].time <= now
  <2> SUFFICES ASSUME NEW i \in 1..Len(k.path)
               PROVE  k.path[i].by = ByOf(t) /\ k.path[i].time <= now
    OBVIOUS
  <2> PICK j \in 1..Len(l.path) : k.path[i] = l.path[j]
    BY <1>8
  <2>1. l.path[j].by = ByOf(t) /\ l.path[j].time <= now
    BY <1>6
  <2> QED  BY <2>1
<1>10. CASE k.pc = "back"
  <2>1. OnPath(t, k)' /\ Tree(k)' = T
    <3>1. k.ret = Place(T, k.path) /\ k.ret \in Ptr
      BY <1>7, <1>8, <1>10 DEF TypeOK, Ptr
    <3> QED  BY <1>2, <1>4, <1>5, <1>8, <1>9, <1>10, <3>1, SameOnPath
  <2>2. AsFar(t, k)'
    BY <1>5, <1>7, <1>10, <2>1 DEF AsFar, InPool, Recursing, Walks, Mine
  <2> QED  BY <1>4, <2>1, <2>2 DEF Kept
<1>11. CASE k.pc = "d_lock"
  <2>1. Expired(a)
    <3>1. Last(l.path) = l.path[Len(l.path)] /\ Len(l.path) \in 1..Len(l.path)
          /\ Last(l.path) \in Frame
      BY <1>2, <1>5, PopElements DEF Last
    <3>2. Last(l.path).time <= now /\ Last(l.path).time \in Nat /\ now \in Nat
      BY <1>6, <3>1 DEF Frame, TypeOK
    <3>3. node[a].start \in Nat
      BY <1>8 DEF TypeOK, Node
    <3> QED  BY <1>7, <1>8, <1>11, <3>2, <3>3, TableAssumption DEF Expired
  <2>2. Deletes(t, k)'
    BY <1>1, <1>2, <1>5, <1>7, <1>11, <2>1 DEF Deletes, Expired
  <2>3. Tree(k)' = T
    BY <1>4, <1>11 DEF Tree
  <2>4. Linked(T, k.path)' /\ k.cur = Place(T, k.path)'
    BY <1>5, <1>7, <1>8, <1>11 DEF Linked, Place, PlaceAt, Kid
  <2>5. OnPath(t, k)'
    <3>1. \A i \in 1..Len(k.path) : k.path[i].by = ByOf(t) /\ k.path[i].time <= now'
      BY <1>2, <1>9
    <3>2. Distinct(k.path)
      BY <1>8
    <3> QED  BY <1>11, <2>3, <2>4, <3>1, <3>2 DEF OnPath, Walks, ByOf
  <2>6. AsFar(t, k)'
    BY <1>5, <1>7, <1>11, <2>2, <2>5 DEF AsFar, InPool, Recursing, Walks, Mine
  <2> QED  BY <1>4, <1>11, <2>6 DEF Kept
<1> QED  BY <1>7, <1>10, <1>11

(* A deletion that goes on holds the mutex it will wait for, one level down. *)
LEMMA LockedPath ==
    ASSUME TypeOK, NEW t \in Thread, th[t].cur \in Addr, NEW s \in Side
    PROVE  Push(t, "delete", s) # <<>> /\ Last(Push(t, "delete", s)).by = "delete"
           /\ Last(Push(t, "delete", s)).at = th[t].cur
<1> PICK e : e = [at |-> th[t].cur, side |-> s, by |-> "delete", time |-> now]
  OBVIOUS
<1>1. th[t].path \in Seq(Frame) /\ e \in Frame /\ Push(t, "delete", s) = Append(th[t].path, e)
  BY DEF TypeOK, Local, Frame, Push
<1>2. e.by = "delete" /\ e.at = th[t].cur
  OBVIOUS
<1> QED  BY <1>1, <1>2, PushElements, AppendNotEmpty DEF Last

(* A path one block longer. *)
LEMMA LongerPath ==
    ASSUME NEW T, OneParent(T), NEW path \in Seq(Frame), Linked(T, path), Distinct(path),
           NEW b \in used, b \in Addr, b # Null, b = Place(T, path), NEW s \in Side, NEW a,
           a = b \/ \E i \in 1..Len(path) : path[i].at = a
    PROVE  Under(T, Kid(T, b, s), a)
<1> PICK e : e = [at |-> b, side |-> s, by |-> "delete", time |-> 0]
  OBVIOUS
<1> PICK q : q = Append(path, e)
  OBVIOUS
<1>1. e \in Frame /\ e.at = b /\ e.side = s
  BY DEF Frame
<1>2. q \in Seq(Frame) /\ Linked(T, q) /\ Distinct(q) /\ Kid(T, b, s) = Place(T, q)
  BY <1>1, LinkedPush
<1>3. /\ Len(q) = Len(path) + 1 /\ q[Len(path) + 1] = e
      /\ \A i \in 1..Len(path) : q[i] = path[i]
  BY <1>1, PushElements
<1>4. \E i \in 1..Len(q) : q[i].at = a
  <2>1. CASE a = b
    BY <1>1, <1>3, <2>1
  <2>2. CASE \E i \in 1..Len(path) : path[i].at = a
    BY <1>3, <2>2
  <2> QED  BY <2>1, <2>2
<1> QED  BY <1>2, <1>4 DEF Under

LEMMA UnderSame ==
    ASSUME NEW T, NEW p, NEW a, used' = used, Under(T, p, a)
    PROVE  Under(T, p, a)'
<1>1. \A q : Linked(T, q) => Linked(T, q)'
  BY DEF Linked, PlaceAt, Kid
<1>2. \A q : Place(T, q)' = Place(T, q)
  BY DEF Place, PlaceAt, Kid
<1> QED  BY <1>1, <1>2 DEF Under, Distinct

LEMMA DeleteOnKept ==
    ASSUME TypeOK, NEW t \in Thread, Calm(t), DeleteDown(t) \/ DeleteInner(t) \/ FindMin(t)
    PROVE  Kept(t)'
<1>1. th \in [Thread -> Local]
  BY StepFacts
<1> PICK l : l = th[t]
  OBVIOUS
<1> PICK k : k = th'[t]
  OBVIOUS
<1> PICK H : H = Heap
  OBVIOUS
<1>2. /\ l.pc \in {"d_lock", "d_min"} /\ l \in Local /\ AsFar(t, l)
      /\ UNCHANGED <<heapVars, alive, now, promised>>
      /\ \A u \in Thread : u # t => th'[u] = th[u]
  BY <1>1 DEF DeleteDown, DeleteInner, FindMin, At, Calm
<1>3. th'[t].pc # "back" /\ k.op = l.op /\ k.ip = l.ip
  BY <1>1 DEF DeleteDown, DeleteInner, FindMin, At, Local
<1>4. \A ip : ~Promising(t, ip)
  BY <1>2 DEF Promising
<1>5. /\ alive' /\ Contents' /\ Promises' /\ Sound(Heap) /\ Sound(Tree(th[t]))'
  BY <1>1, <1>2, <1>3, <1>4, QuietStep
<1>6. /\ node' = node /\ used' = used /\ now' = now /\ Null \notin used /\ used \subseteq Addr
      /\ \A a \in used : /\ node[a].left # Null => node[a].left \in used
                         /\ node[a].right # Null => node[a].right \in used
                         /\ Kid(H, a, "left") = node[a].left
                         /\ Kid(H, a, "right") = node[a].right
      /\ Heap' = H /\ OneParent(H)
  <2>1. \A a \in used, s \in Side : Kid(Heap, a, s) \in used \cup {Null}
    BY <1>5 DEF Sound, Whole
  <2>3. Heap' = H /\ OneParent(H)
    BY <1>2, <1>5 DEF Heap, heapVars, Sound
  <2>2. used \subseteq Addr /\ "left" \in Side /\ "right" \in Side
    BY DEF TypeOK, Side
  <2> QED  BY <1>2, <2>1, <2>2, <2>3, HeapFacts, PtrFacts DEF heapVars
<1>7. ASSUME l.pc = "d_lock", l.cur # Null
      PROVE  /\ l.cur \in used /\ Deletes(t, l) /\ l.op # "assign"
             /\ Linked(H, l.path) /\ Distinct(l.path) /\ l.cur = Place(H, l.path)
  <2>1. OnPath(t, l) /\ Deletes(t, l)
    BY <1>2, <1>7 DEF AsFar, Recursing, Walks
  <2>2. l.op # "assign"
    BY <1>2, <2>1 DEF Deletes, AsFar, Thread
  <2>3. Linked(H, l.path) /\ Distinct(l.path) /\ l.cur = Place(H, l.path)
    BY <1>7, <2>1 DEF OnPath, Tree, Walks
  <2> QED  BY <1>2, <1>5, <1>7, <2>1, <2>2, <2>3, AtBlock DEF Walks
<1>8. CASE DeleteDown(t)
  <2>1. l.pc = "d_lock" /\ l.cur # Null
    BY <1>8 DEF DeleteDown, At
  <2> PICK s : s = SideOf(l.ip, l.cur)
    OBVIOUS
  <2>2. s \in Side /\ locked' /\ th' = [th EXCEPT ![t].path = Push(t, "delete", s),
                                                  ![t].cur = Child(l.cur, s)]
    BY <1>8, SideOfSide DEF DeleteDown
  <2>3. k.path = Push(t, "delete", s) /\ k.pc = l.pc
    BY <1>1, <1>2, <2>2 DEF Local
  <2>4. k.path # <<>> /\ Last(k.path).by = "delete"
    BY <1>6, <1>7, <2>1, <2>2, <2>3, LockedPath
  <2>5. Waits(k)'
    BY <2>1, <2>2, <2>3, <2>4 DEF Waits
  <2> QED  BY <1>5, <2>5 DEF Kept
<1>9. CASE DeleteInner(t)
  <2>1. l.pc = "d_lock" /\ l.cur # Null /\ node[l.cur].ip = l.ip /\ node[l.cur].right # Null
    BY <1>9 DEF DeleteInner, At
  <2>2. locked' /\ th' = [th EXCEPT ![t].pc = "d_min", ![t].path = Push(t, "delete", "right"),
                                    ![t].cur = node[l.cur].right]
    BY <1>9 DEF DeleteInner
  <2>3. k.path = Push(t, "delete", "right") /\ k.pc = "d_min" /\ k.cur = node[l.cur].right
    BY <1>1, <1>2, <2>2 DEF Local
  <2>4. k.path # <<>> /\ Last(k.path).by = "delete" /\ Last(k.path).at = l.cur
    BY <1>6, <1>7, <2>1, <2>3, LockedPath DEF Side
  <2>5. l.cur \in used /\ k.cur \in used /\ (t = Main => Expired(l.cur))
    BY <1>6, <1>7, <2>1, <2>3 DEF Deletes
  <2> PICK a : a = Last(k.path).at
    OBVIOUS
  <2>6. Under(H, k.cur, a)'
    <3>1. l.path \in Seq(Frame) /\ "right" \in Side /\ k.cur = Kid(H, l.cur, "right")
      BY <1>2, <1>6, <2>3, <2>5 DEF Local, Side
    <3>2. Under(H, k.cur, a)
      BY <1>6, <1>7, <2>1, <2>4, <2>5, <3>1, LongerPath
    <3> QED  BY <1>6, <3>2, UnderSame
  <2>7. FindsMin(t, k)'
    BY <1>3, <1>6, <2>1, <2>2, <2>4, <2>5, <2>6 DEF FindsMin, Expired
  <2>8. AsFar(t, k)'
    BY <1>3, <1>7, <2>1, <2>3, <2>7 DEF AsFar, InPool, Recursing, Walks, Mine
  <2> QED  BY <1>5, <2>8 DEF Kept
<1>10. CASE FindMin(t)
  <2>1. l.pc = "d_min" /\ node[l.cur].left # Null /\ locked' = locked
        /\ th' = [th EXCEPT ![t].cur = node[@].left]
    BY <1>10 DEF FindMin, At
  <2>2. k.path = l.path /\ k.pc = "d_min" /\ k.cur = node[l.cur].left
    BY <1>1, <1>2, <2>1 DEF Local
  <2>3. FindsMin(t, l)
    BY <1>2, <2>1 DEF AsFar
  <2> PICK a : a = Last(l.path).at
    OBVIOUS
  <2>4. Under(H, k.cur, a)'
    <3>1. PICK q \in Seq(Frame) :
            /\ Linked(H, q) /\ Distinct(q) /\ l.cur = Place(H, q)
            /\ \E i \in 1..Len(q) : q[i].at = a
      BY <2>3 DEF FindsMin, Under
    <3>2. "left" \in Side /\ k.cur = Kid(H, l.cur, "left") /\ l.cur \in used
      BY <1>6, <2>2, <2>3 DEF Side, FindsMin
    <3>3. Under(H, k.cur, a)
      BY <1>6, <3>1, <3>2, LongerPath
    <3> QED  BY <1>6, <3>3, UnderSame
  <2>5. FindsMin(t, k)'
    BY <1>3, <1>6, <2>1, <2>2, <2>3, <2>4 DEF FindsMin, Expired
  <2>6. AsFar(t, k)'
    BY <1>2, <1>3, <2>1, <2>2, <2>5 DEF AsFar, InPool, Recursing, Walks, Mine
  <2> QED  BY <1>5, <2>6 DEF Kept
<1> QED  BY <1>8, <1>9, <1>10

(* The copy of the minimum: the lease at the node is gone, the minimum has two nodes. *)
LEMMA DeleteCopyKept ==
    ASSUME TypeOK, NEW t \in Thread, Calm(t), DeleteCopy(t)
    PROVE  Kept(t)'
<1>1. /\ th \in [Thread -> Local] /\ node \in [Addr -> Node] /\ used \subseteq Addr
  BY StepFacts DEF TypeOK
<1> PICK l : l = th[t]
  OBVIOUS
<1> PICK k : k = th'[t]
  OBVIOUS
<1> PICK a : a = Last(l.path).at
  OBVIOUS
<1>2. /\ l.pc = "d_min" /\ l \in Local /\ FindsMin(t, l) /\ Contents /\ Promises /\ a = Top(t).at
      /\ \A u \in Thread : u # t => th'[u] = th[u]
  BY <1>1 DEF DeleteCopy, At, Calm, AsFar, Top, Last
<1>3. /\ a \in used /\ l.cur \in used /\ node[a].ip = l.ip /\ locked
      /\ l.path # <<>> /\ Last(l.path).by = "delete"
  BY <1>2 DEF FindsMin
<1>4. /\ UNCHANGED <<used, locked, alive>>
      /\ node' = [node EXCEPT ![a] = [node[l.cur] EXCEPT !.left = node[a].left, !.right = node[a].right]]
      /\ promised' = [c \in Client |-> promised[c] \ {l.ip}]
  BY <1>2 DEF DeleteCopy
<1>5. k.pc = "d_lock" /\ k.path = l.path
  BY <1>1, <1>2 DEF DeleteCopy, Local
<1>6. Waits(k)'
  BY <1>3, <1>4, <1>5 DEF Waits
<1>7. /\ \A b \in used : b # a => node'[b] = node[b]
      /\ node'[a].ip = node[l.cur].ip /\ node'[a].mac = node[l.cur].mac
      /\ node'[a].start = node[l.cur].start
  BY <1>1, <1>3, <1>4 DEF Node
<1>8. Contents'
  <2> DEFINE Of(b) == IF b = a THEN l.cur ELSE b
  <2>1. \A b \in used : /\ Of(b) \in used /\ node'[b].ip = node[Of(b)].ip
                        /\ node'[b].mac = node[Of(b)].mac
                        /\ node'[b].start = node[Of(b)].start
    BY <1>3, <1>7
  <2> HIDE DEF Of
  <2> QED  BY <1>2, <1>4, <2>1 DEF Contents, Agree
<1>9. Promises'
  <2> SUFFICES ASSUME NEW c \in Client, NEW ip \in promised[c], ip # l.ip
               PROVE  Held(ip, c)' \/ Promising(c, ip)'
    BY <1>4 DEF Promises
  <2>1. CASE Held(ip, c)
    <3>1. PICK b \in used : node[b].ip = ip /\ node[b].mac = c
      BY <2>1 DEF Held
    <3> QED  BY <1>3, <1>4, <1>7, <3>1 DEF Held
  <2>2. CASE Promising(c, ip)
    BY <1>2, <2>2 DEF Promising, Thread
  <2> QED  BY <1>2, <2>1, <2>2 DEF Promises
<1> QED  BY <1>4, <1>6, <1>8, <1>9 DEF Kept, Calm

LEMMA DeleteMissingKept ==
    ASSUME TypeOK, NEW t \in Thread, Calm(t), DeleteMissing(t)
    PROVE  Kept(t)'
<1>1. th \in [Thread -> Local]
  BY StepFacts
<1> PICK l : l = th[t]
  OBVIOUS
<1> PICK k : k = th'[t]
  OBVIOUS
<1> PICK T : T = Heap
  OBVIOUS
<1>2. /\ l.pc = "d_lock" /\ l \in Local /\ AsFar(t, l) /\ l.path \in Seq(Frame) /\ l.cur = Null
      /\ UNCHANGED <<heapVars, alive, now, promised>>
      /\ \A u \in Thread : u # t => th'[u] = th[u]
  BY <1>1 DEF DeleteMissing, At, Calm, Local
<1>3. \A ip : ~Promising(t, ip)
  BY <1>2 DEF Promising
<1>4. /\ alive' /\ Contents' /\ Promises' /\ Heap' = T /\ Sound(T)' /\ T \in Trees
  BY <1>1, <1>2, <1>3, QuietStep, HeapFacts
<1>5. OnPath(t, l) /\ Deletes(t, l) /\ used' = used
  BY <1>2 DEF AsFar, Recursing, Walks, heapVars
<1>6. l.op # "assign"
  BY <1>2, <1>5 DEF Deletes, AsFar, Thread
<1>7. k = [l EXCEPT !.pc = "back", !.ret = Null]
  BY <1>1 DEF DeleteMissing
<1>8. k.pc = "back" /\ k.op = l.op /\ k.ret = Null /\ k.path = l.path
  BY <1>2, <1>7 DEF Local
<1>9. OnPath(t, k)' /\ Tree(k)' = T
  <2>1. Linked(T, k.path) /\ Distinct(k.path) /\ k.ret = Place(T, k.path) /\ k.ret \in Ptr
    BY <1>2, <1>5, <1>8, PtrFacts DEF OnPath, Tree, Walks
  <2>2. \A i \in 1..Len(k.path) : k.path[i].by = ByOf(t) /\ k.path[i].time <= now
    BY <1>5, <1>8 DEF OnPath
  <2>3. /\ TypeOK /\ T \in Trees /\ Heap' = T /\ used' = used /\ now' = now /\ k.pc = "back"
        /\ k.path \in Seq(Frame)
    BY <1>2, <1>4, <1>5, <1>8
  <2> QED  BY ONLY <2>1, <2>2, <2>3, SameOnPath
<1>10. AsFar(t, k)'
  BY <1>6, <1>8, <1>9 DEF AsFar, InPool, Recursing, Walks, Mine
<1> QED  BY <1>4, <1>9, <1>10 DEF Kept

(* A node with at most one child goes, and the child takes its place. *)
LEMMA DeleteLeafKept ==
    ASSUME TypeOK, NEW t \in Thread, Calm(t), DeleteLeaf(t)
    PROVE  Kept(t)'
<1>1. /\ th \in [Thread -> Local] /\ node \in [Addr -> Node] /\ used \subseteq Addr
      /\ Null \notin Addr
  BY StepFacts, PtrFacts DEF TypeOK
<1> PICK l : l = th[t]
  OBVIOUS
<1> PICK k : k = th'[t]
  OBVIOUS
<1> PICK T : T = Heap
  OBVIOUS
<1> PICK a : a = l.cur
  OBVIOUS
<1>2. /\ l.pc = "d_lock" /\ l \in Local /\ AsFar(t, l) /\ l.path \in Seq(Frame) /\ a # Null
      /\ node[a].ip = l.ip /\ (node[a].left = Null \/ node[a].right = Null) /\ Free(a)
      /\ UNCHANGED <<root, now>>
      /\ promised' = [c \in Client |-> promised[c] \ {l.ip}]
      /\ \A u \in Thread : u # t => th'[u] = th[u]
  BY <1>1 DEF DeleteLeaf, At, Calm, Local
<1>3. Sound(T) /\ T \in Trees /\ T.top = root /\ Contents /\ Promises /\ alive
  BY <1>2, HeapFacts DEF Calm, Tree
<1>4. OnPath(t, l) /\ Deletes(t, l) /\ l.op # "assign"
  <2>1. OnPath(t, l) /\ Deletes(t, l)
    BY <1>2 DEF AsFar, Recursing, Walks
  <2> QED  BY <1>2, <2>1 DEF Deletes, AsFar, Thread
<1>5. /\ a \in used /\ a = Place(T, l.path)
      /\ \A i \in 1..Len(l.path) : l.path[i].at # a
  BY <1>2, <1>3, <1>4, AtBlock DEF Walks
<1>6. /\ Linked(T, l.path) /\ Distinct(l.path) /\ T = Tree(l)
      /\ \A i \in 1..Len(l.path) : l.path[i].at \in used
  BY <1>2, <1>4 DEF OnPath, Tree, Walks, Linked
<1>7. /\ used' = used \ {a} /\ alive'
      /\ \A b \in Addr : node'[b].left = node[b].left /\ node'[b].right = node[b].right
      /\ \A b \in Addr \ {a} : node'[b] = node[b]
  <2>1. PICK garbage \in {0, EndIp + 2} :
          node' = [node EXCEPT ![a].ip = garbage, ![a].mac = Nobody]
    BY <1>2, <1>5 DEF Free
  <2>2. used' = used \ {a} /\ alive'
    BY <1>2, <1>3, <1>5 DEF Free
  <2> QED  BY <1>1, <2>1, <2>2 DEF Node
<1> PICK c : c = Rest(a)
  OBVIOUS
<1>8. k = [l EXCEPT !.pc = "back", !.ret = c]
  BY <1>1 DEF DeleteLeaf
<1>9. k.pc = "back" /\ k.op = l.op /\ k.ret = c /\ k.path = l.path /\ k.ip = l.ip
  BY <1>2, <1>8 DEF Local
<1>10. Heap' = T
  <2>1. [b \in Addr |-> node'[b].left] = [b \in Addr |-> node[b].left]
    BY <1>7
  <2>2. [b \in Addr |-> node'[b].right] = [b \in Addr |-> node[b].right]
    BY <1>7
  <2> QED  BY <1>2, <2>1, <2>2 DEF Heap
<1> PICK U : U = Placed(T, l.path, c)
  OBVIOUS
<1>11. Tree(k)' = U
  BY <1>9, <1>10 DEF Tree
<1>12. c \in Ptr /\ (\A s \in Side : Kid(T, a, s) \in {c, Null}) /\ \E s \in Side : Kid(T, a, s) = c
  <2>1. Kid(T, a, "left") = node[a].left /\ Kid(T, a, "right") = node[a].right
    BY <1>1, <1>5, HeapFacts
  <2>2. node[a].left \in Ptr /\ node[a].right \in Ptr
    BY <1>1, <1>5 DEF Node
  <2> QED  BY <1>2, <2>1, <2>2 DEF Side, Rest
<1>13. l.path # <<>> =>
         /\ U.top = T.top /\ Last(l.path).at \in used \ {a} /\ Last(l.path).side \in Side
         /\ \A b \in Addr, s \in Side : Kid(U, b, s) =
              IF b = Last(l.path).at /\ s = Last(l.path).side THEN c ELSE Kid(T, b, s)
  <2>1. ASSUME l.path # <<>> PROVE Last(l.path).at \in used \ {a}
    BY <1>2, <1>5, <1>6, <2>1, PopElements DEF Last
  <2> QED  BY <1>2, <1>3, <1>12, <2>1, PlacedFacts
<1>14. Cut(T, U, a, c)
  <2>1. \A b \in used \ {a} : node'[b].ip = node[b].ip
    BY <1>1, <1>7
  <2>2. CASE l.path = <<>>
    <3>1. U.top = c /\ \A b, s : Kid(U, b, s) = Kid(T, b, s)
      BY <1>3, <1>12, <2>2, PlacedEmpty
    <3>2. T.top = a
      BY <1>5, <2>2, PlaceEmpty
    <3>3. \A b \in used \ {a}, s \in Side : Kid(U, b, s) = Kid(T, b, s)
      BY <3>1
    <3> QED  BY <1>5, <1>7, <1>12, <2>1, <3>1, <3>2, <3>3 DEF Cut
  <2>3. CASE l.path # <<>>
    <3> DEFINE e == Last(l.path).at
               r == Last(l.path).side
    <3>1. e \in used \ {a} /\ r \in Side /\ U.top = T.top /\ Kid(U, e, r) = c
      BY <1>1, <1>13, <2>3
    <3>2. Kid(T, e, r) = a
      BY <1>2, <1>5, <2>3, PlaceLast
    <3>3. \A b \in used \ {a}, s \in Side : b # e \/ s # r => Kid(U, b, s) = Kid(T, b, s)
      BY <1>1, <1>13, <2>3
    <3> HIDE DEF e, r
    <3> QED  BY <1>5, <1>7, <1>12, <2>1, <3>1, <3>2, <3>3 DEF Cut
  <2> QED  BY <2>2, <2>3
<1>15. Sound(U)'
  BY <1>3, <1>14, SoundCut
<1>16. OnPath(t, k)'
  <2>1. \A i \in 1..Len(l.path) : l.path[i].at \in used'
    BY <1>5, <1>6, <1>7
  <2>2. ASSUME NEW i \in 1..(Len(l.path) - 1)
        PROVE  Kid(U, l.path[i].at, l.path[i].side) = Kid(T, l.path[i].at, l.path[i].side)
    <3>1. /\ i \in 1..Len(l.path) /\ Len(l.path) \in 1..Len(l.path) /\ i # Len(l.path)
          /\ l.path # <<>>
      BY <1>2
    <3>2. l.path[i].at # Last(l.path).at
      BY <1>6, <3>1 DEF Distinct, Last
    <3>3. l.path[i].at \in used /\ l.path[i] \in Frame
      BY <1>2, <1>6, <3>1
    <3>4. l.path[i].side \in Side
      BY <3>3 DEF Frame
    <3> QED  BY <1>1, <1>13, <3>1, <3>2, <3>3, <3>4
  <2>3. l.path # <<>> => U.top = T.top
    BY <1>13
  <2>4. /\ l \in Local /\ OnPath(t, l) /\ T = Tree(l) /\ now' = now
        /\ k.pc = "back" /\ k.path = l.path /\ Tree(k)' = U
    BY <1>2, <1>4, <1>6, <1>9, <1>11
  <2> QED  BY ONLY <2>1, <2>2, <2>3, <2>4, BackOnPath
<1>17. Contents'
  BY <1>1, <1>3, <1>7 DEF Contents, Agree
<1>18. Promises'
  <2> SUFFICES ASSUME NEW d \in Client, NEW ip \in promised[d], ip # l.ip
               PROVE  Held(ip, d)' \/ Promising(d, ip)'
    BY <1>2 DEF Promises
  <2>1. CASE Held(ip, d)
    <3>1. PICK b \in used : node[b].ip = ip /\ node[b].mac = d
      BY <2>1 DEF Held
    <3>2. b \in used' /\ node'[b] = node[b]
      BY <1>1, <1>2, <1>7, <3>1
    <3> QED  BY <3>1, <3>2 DEF Held
  <2>2. CASE Promising(d, ip)
    BY <1>2, <2>2 DEF Promising, Thread
  <2> QED  BY <1>3, <2>1, <2>2 DEF Promises
<1>19. AsFar(t, k)'
  BY <1>4, <1>9, <1>16 DEF AsFar, InPool, Recursing, Walks, Mine
<1> QED  BY <1>7, <1>11, <1>15, <1>17, <1>18, <1>19 DEF Kept

(* The outermost call returns: the handler's root is the tree's, and so is the main *)
(* loop's unless the sweep freed it. *)
LEMMA RootBackKept ==
    ASSUME TypeOK, NEW t \in Thread, Calm(t), RootBack(t), t = Main => th[t].ret = root
    PROVE  Kept(t)'
<1>1. /\ th \in [Thread -> Local] /\ th[t].ret \in Ptr /\ used \subseteq Addr
  BY StepFacts DEF TypeOK
<1> PICK l : l = th[t]
  OBVIOUS
<1> PICK k : k = th'[t]
  OBVIOUS
<1> PICK T : T = Tree(l)
  OBVIOUS
<1>2. /\ l.pc = "back" /\ l \in Local /\ AsFar(t, l) /\ l.path = <<>>
      /\ UNCHANGED <<node, used, alive, now, promised>>
      /\ root' = l.ret /\ Sound(T) /\ Contents /\ Promises /\ alive
      /\ \A u \in Thread : u # t => th'[u] = th[u]
  BY <1>1, ReturnedAsFar DEF RootBack, At, Calm
<1>3. Heap' = T
  BY <1>2 DEF Heap, Tree, Placed
<1>4. Sound(T)'
  BY <1>2, SoundSame DEF SameBlocks
<1>5. \A ip, c : Held(ip, c)' = Held(ip, c)
  BY <1>2 DEF Held
<1>6. Contents'
  BY <1>2 DEF Contents, Agree
<1>7. Promises'
  <2> SUFFICES ASSUME NEW c \in Client, NEW ip \in promised[c]
               PROVE  Held(ip, c) \/ Promising(c, ip)'
    BY <1>2, <1>5 DEF Promises
  <2>1. Held(ip, c) \/ (Promising(c, ip) /\ c # t)
    BY <1>2 DEF Promises, Promising
  <2> QED  BY <1>2, <2>1 DEF Promising, Thread
<1>8. CASE l.op = "assign"
  <2>1. k = [l EXCEPT !.pc = "a_advance"]
    BY <1>1, <1>8 DEF RootBack
  <2>2. k.pc = "a_advance" /\ k.path = <<>> /\ k.op = l.op /\ k.ip = l.ip
    BY <1>2, <2>1 DEF Local
  <2>3. Held(l.ip, t) /\ t # Main
    BY <1>2, <1>8 DEF AsFar, Mine
  <2>4. l.ip \in Pool
    BY <1>2, <2>3 DEF Held, Contents
  <2>5. AsFar(t, k)'
    BY <1>5, <1>8, <2>2, <2>3, <2>4 DEF AsFar, InPool, Recursing, Walks, Mine
  <2>6. Tree(k)' = T
    BY <1>3, <2>2 DEF Tree
  <2> QED  BY <1>2, <1>4, <1>6, <1>7, <2>5, <2>6 DEF Kept
<1>9. CASE l.op # "assign"
  <2>1. k.pc \in {"idle", "ended"} /\ AsFar(t, th[t])'
    BY <1>9, ReturnedAsFar DEF RootBack
  <2>2. Tree(k)' = T
    BY <1>3, <2>1 DEF Tree
  <2> QED  BY <1>2, <1>4, <1>6, <1>7, <2>1, <2>2 DEF Kept
<1> QED  BY <1>8, <1>9

(* Nothing but time passes. *)
LEMMA TimeKept ==
    ASSUME TypeOK, TypeOK', UNCHANGED <<heapVars, locked, cursor, th, alive, promised>>, now <= now',
           NEW t \in Thread, Kept(t)
    PROVE  Kept(t)'
<1> PICK l : l = th[t]
  OBVIOUS
<1> PICK T : T = Tree(l)
  OBVIOUS
<1> PICK H : H = Heap
  OBVIOUS
<1>1. /\ l = th'[t] /\ l \in Local
      /\ UNCHANGED <<node, used, root, locked, cursor, th, alive, promised>>
      /\ now \in Nat /\ now' \in Nat /\ used \subseteq Addr
  BY StepFacts DEF heapVars, TypeOK
<1>2. alive' /\ Contents'
  BY <1>1 DEF Kept, Contents, Agree
<1>3. Promises'
  BY <1>1 DEF Kept, Promises, Held, Promising
<1>4. Waits(l) => Waits(l)'
  BY <1>1 DEF Waits
<1>5. Heap' = H /\ Tree(l)' = T
  BY <1>1 DEF Heap, Tree
<1>6. Sound(T) => Sound(T)'
  BY <1>1, SoundSame DEF SameBlocks
<1>7. \A p, ip : Meets(H, p, ip)' = Meets(H, p, ip)
  BY <1>1, MeetsSame DEF SameBlocks
<1>8. OnPath(t, l) => OnPath(t, l)'
  <2> SUFFICES ASSUME OnPath(t, l) PROVE OnPath(t, l)'
    OBVIOUS
  <2>1. Linked(T, l.path)' /\ Distinct(l.path)
    BY <1>1 DEF OnPath, Linked, PlaceAt, Kid
  <2>2. ASSUME NEW i \in 1..Len(l.path) PROVE l.path[i].by = ByOf(t) /\ l.path[i].time <= now'
    <3>1. l.path[i].time <= now /\ l.path[i].time \in Nat /\ l.path[i].by = ByOf(t)
      <4>1. l.path[i] \in Frame
        BY <1>1 DEF Local
      <4> QED  BY <4>1 DEF OnPath, Frame
    <3> QED  BY <1>1, <3>1
  <2>3. (l.pc \in Walks => l.cur = Place(T, l.path)') /\ (l.pc = "s_check" => l.path # <<>>)
    BY DEF OnPath, Place, PlaceAt, Kid
  <2> QED  BY <1>5, <2>1, <2>2, <2>3 DEF OnPath, Walks, ByOf
<1>9. \A a : Expired(a) => Expired(a)'
  <2> SUFFICES ASSUME NEW a, Expired(a) PROVE Expired(a)'
    OBVIOUS
  <2>1. node[a].start \in Nat /\ LeaseTime \in Nat
    BY <1>1, TableAssumption DEF Expired, TypeOK, Node
  <2> QED  BY <1>1, <2>1 DEF Expired
<1>10. /\ Deletes(t, l) => Deletes(t, l)'
       /\ FindsMin(t, l) => FindsMin(t, l)'
  <2>1. \A p, a : Under(H, p, a) => Under(H, p, a)'
    BY <1>1, UnderSame
  <2> QED  BY <1>1, <1>5, <1>9, <2>1 DEF Deletes, FindsMin
<1>11. Inserts(t, l) => Inserts(t, l)'
  BY <1>1, <1>5, <1>7 DEF Inserts, Leased, SideOf
<1>12. Looks(l) => Looks(l)'
  BY <1>1, <1>5, <1>7 DEF Looks
<1>13. /\ Found(l) => Found(l)'
       /\ Held(l.ip, t) => Held(l.ip, t)'
  BY <1>1 DEF Found, Leased, Held
<1>14. AsFar(t, l) => AsFar(t, l)'
  BY <1>1, <1>8, <1>10, <1>11, <1>12, <1>13 DEF AsFar
<1> QED  BY <1>1, <1>2, <1>3, <1>4, <1>5, <1>6, <1>14 DEF Kept

(* A call begins where no other is under way. *)
LEMMA BeginKept ==
    ASSUME TypeOK, NEW u \in Thread, Kept(u), NEW c \in Thread, th[c].pc = "idle",
           NEW l \in Local, th' = [th EXCEPT ![c] = l],
           l.pc \in {"a_lock", "f_unlock", "s_enter"}, AsFar(c, l)', OneAtATime',
           UNCHANGED <<heapVars, alive, promised>>
    PROVE  Kept(c)' /\ Alone(c)'
<1>1. th'[c] = l /\ (\A v \in Thread : v # c => th'[v] = th[v]) /\ InCall(c)'
  BY DEF TypeOK, InCall
<1>2. Alone(c)'
  BY <1>1 DEF OneAtATime, Alone
<1>3. th[u].pc \in {"idle", "ended"}
  BY <1>1, <1>2 DEF Alone, InCall
<1> PICK T : T = Heap
  OBVIOUS
<1>4. Sound(T)
  BY <1>3 DEF Kept, Waits, Tree
<1>5. UNCHANGED <<node, used, root, alive, promised>>
  BY DEF heapVars
<1>6. Sound(T)'
  BY <1>4, <1>5, SoundSame DEF SameBlocks
<1>7. Heap' = T
  BY <1>5 DEF Heap
<1>8. Tree(th[c])' = T
  BY <1>1, <1>7 DEF Tree
<1>9. alive' /\ Contents'
  BY <1>5 DEF Kept, Contents, Agree
<1>10. Promises'
  <2> SUFFICES ASSUME NEW v \in Client, NEW ip \in promised[v]
               PROVE  Held(ip, v)' \/ Promising(v, ip)'
    BY <1>5 DEF Promises
  <2>1. Held(ip, v) \/ (Promising(v, ip) /\ v # c)
    BY DEF Kept, Promises, Promising
  <2>2. Held(ip, v) => Held(ip, v)'
    BY <1>5 DEF Held
  <2> QED  BY <1>1, <2>1, <2>2 DEF Promising, Thread
<1> QED  BY <1>1, <1>2, <1>6, <1>8, <1>9, <1>10 DEF Kept

(* A thread that waits for itself takes no step. *)
LEMMA StepCalm ==
    ASSUME NEW t \in Thread, Kept(t), Step(t)
    PROVE  Calm(t)
<1> SUFFICES ASSUME Waits(th[t]) PROVE FALSE
  BY DEF Kept, Calm
<1>1. th[t].pc = "d_lock" /\ locked
  BY DEF Waits
<1>2. ~(Find(t) \/ Assign(t) \/ Answer(t) \/ Insert(t))
  BY <1>1 DEF Find, Assign, Answer, Insert, FindUnlock, FindLock, FindWalk,
     AssignLock, AssignCursor, AssignRead, AssignNext, AssignAdvance, AssignWrap, AssignUnlock,
     RequestFound, RenewFound, RenewWrite, GiveBackFound, InsertStart, InsertWalk, InsertEnd,
     InsertBack, At
<1>3. ~(Delete(t) \/ Sweep(t) \/ RootBack(t))
  BY <1>1 DEF Delete, Sweep, DeleteDown, DeleteMissing, DeleteLeaf, DeleteInner, FindMin,
     DeleteCopy, DeleteBack, SweepEnter, SweepCheck, SweepBack, RootBack, At
<1> QED  BY <1>2, <1>3 DEF Step

(* One step of the one thread in a call. *)
LEMMA StepKept ==
    ASSUME TypeOK, TypeOK', NEW t \in Thread, Kept(t), Step(t), ~(t = Main /\ DropsRoot)
    PROVE  Kept(t)'
<1>1. Calm(t)
  BY StepCalm
<1>2. ~DeleteBack(t)
  <2> SUFFICES ASSUME DeleteBack(t) PROVE FALSE
    OBVIOUS
  <2>1. th[t].pc = "back" /\ th[t].path # <<>> /\ Top(t).by = "delete"
    BY DEF DeleteBack, At
  <2>2. OnPath(t, th[t])
    BY <1>1, <2>1 DEF Calm, AsFar, Recursing
  <2>3. Len(th[t].path) \in 1..Len(th[t].path)
    BY <2>1, StepFacts, PopElements
  <2>4. Top(t).by = ByOf(t)
    BY <2>2, <2>3 DEF OnPath, Top
  <2> QED  BY <2>1, <2>4 DEF ByOf
<1>3. CASE t \in Client /\ (Find(t) \/ Assign(t) \/ Answer(t) \/ Insert(t))
  BY <1>1, <1>3, FindKept, AssignKept, AnswerKept, RenewKept, InsertWalkKept, InsertEndKept,
     InsertBackKept DEF Insert
<1>4. CASE t = Main /\ Sweep(t)
  BY <1>1, <1>4, SweepEnterKept, SweepCheckKept, SweepBackKept DEF Sweep
<1>5. CASE Delete(t)
  BY <1>1, <1>2, <1>5, DeleteOnKept, DeleteMissingKept, DeleteLeafKept, DeleteCopyKept DEF Delete
<1>6. CASE RootBack(t)
  BY <1>1, <1>6, RootBackKept DEF DropsRoot
<1> QED  BY <1>3, <1>4, <1>5, <1>6 DEF Step

LEMMA StepsInCall == \A t \in Thread : Step(t) => InCall(t)
<1> SUFFICES ASSUME NEW t \in Thread, Step(t) PROVE InCall(t)
  OBVIOUS
<1>1. CASE Find(t) \/ Assign(t) \/ Answer(t)
  BY <1>1 DEF Find, Assign, Answer, FindUnlock, FindLock, FindWalk, AssignLock, AssignCursor,
     AssignRead, AssignNext, AssignAdvance, AssignWrap, AssignUnlock, RequestFound, RenewFound,
     RenewWrite, GiveBackFound, At, InCall
<1>2. CASE Insert(t) \/ Sweep(t) \/ RootBack(t)
  BY <1>2 DEF Insert, Sweep, InsertStart, InsertWalk, InsertEnd, InsertBack, SweepEnter,
     SweepCheck, SweepBack, RootBack, At, InCall
<1>3. CASE Delete(t)
  BY <1>3 DEF Delete, DeleteDown, DeleteMissing, DeleteLeaf, DeleteInner, FindMin, DeleteCopy,
     DeleteBack, At, InCall
<1> QED  BY <1>1, <1>2, <1>3 DEF Step


-----------------------------------------------------------------------------
(* The inductive invariant. *)
LEMMA TurnBegins == TurnInit => TurnInv
<1> SUFFICES ASSUME TurnInit PROVE Alone(Main) /\ Kept(Main)
  BY DEF TurnInv, Thread
<1>1. Init /\ used = {} /\ root = Null /\ alive /\ \A t \in Thread : th[t] = Idle
  BY DEF TurnInit, Init
<1>2. Alone(Main)
  BY <1>1 DEF Alone, InCall, Idle
<1>3. th[Main].pc = "idle" /\ th[Main].path = <<>> /\ th[Main].op = "none"
  BY <1>1 DEF Thread, Idle
<1>4. Tree(th[Main]) = Heap /\ Heap.top = Null
  BY <1>1, <1>3 DEF Tree, Heap
<1>5. Sound(Heap)
  BY <1>1, <1>4 DEF Sound, Whole, OneParent
<1>6. Contents
  BY <1>1 DEF Contents, Agree
<1>7. Promises
  BY <1>1 DEF Promises, Init
<1> QED  BY <1>1, <1>2, <1>3, <1>4, <1>5, <1>6, <1>7, IdleAsFar DEF Kept

LEMMA TurnGoesOn == TypeOK /\ TypeOK' /\ TurnInv /\ [TurnNext]_turnVars => TurnInv'
<1> SUFFICES ASSUME TypeOK, TypeOK', TurnInv, [TurnNext]_turnVars, inTurn'
             PROVE  \E t \in Thread : Alone(t)' /\ Kept(t)'
  BY DEF TurnInv
<1>1. inTurn
  BY DEF TurnNext, Watch, turnVars
<1> PICK u \in Thread : Alone(u) /\ Kept(u)
  BY <1>1 DEF TurnInv
<1>2. CASE Tick \/ UNCHANGED turnVars
  <2>1. UNCHANGED <<heapVars, locked, cursor, th, alive, promised>>
    BY <1>2 DEF Tick, turnVars, vars
  <2>2. now \in Nat /\ (now' = now + 1 \/ now' = now)
    BY <1>2 DEF Tick, turnVars, vars, TypeOK
  <2>3. Kept(u)'
    BY <2>1, <2>2, TimeKept
  <2>4. Alone(u)'
    BY <2>1 DEF Alone, InCall
  <2> QED  BY <2>3, <2>4
<1>3. CASE TurnNext /\ ~Tick
  <2>1. OneAtATime' /\ ~DropsRoot /\ Next
    BY <1>3 DEF TurnNext, Watch
  <2>2. ASSUME NEW c \in Client, BeginHandling(c) PROVE Alone(c)' /\ Kept(c)'
    <3>1. PICK op \in Stages[stage[c]] \cap Calls, ip \in Pool :
            th' = [th EXCEPT ![c] = IF op = "assign"
                                     THEN [Idle EXCEPT !.pc = "a_lock", !.op = op]
                                     ELSE [Idle EXCEPT !.pc = "f_unlock", !.op = op, !.ip = ip]]
      BY <2>2 DEF BeginHandling
    <3> PICK l : l = IF op = "assign"
                     THEN [Idle EXCEPT !.pc = "a_lock", !.op = op]
                     ELSE [Idle EXCEPT !.pc = "f_unlock", !.op = op, !.ip = ip]
      OBVIOUS
    <3>2. /\ c \in Thread /\ th' = [th EXCEPT ![c] = l] /\ th'[c] = l /\ th'[c] \in Local
          /\ th[c].pc = "idle" /\ UNCHANGED <<heapVars, alive, promised>> /\ c # Main
      BY <2>2, <3>1, TableAssumption DEF BeginHandling, At, Thread, TypeOK
    <3>3. /\ l.path = <<>>
          /\ \/ l.pc = "a_lock" /\ l.op = "assign"
             \/ l.pc = "f_unlock" /\ l.ip = ip
      <4>1. CASE op = "assign"
        <5>1. l = [Idle EXCEPT !.pc = "a_lock", !.op = op]
          BY <4>1
        <5> QED  BY <4>1, <5>1 DEF Idle
      <4>2. CASE op # "assign"
        <5>1. l = [Idle EXCEPT !.pc = "f_unlock", !.op = op, !.ip = ip]
          BY <4>2
        <5> QED  BY <5>1 DEF Idle
      <4> QED  BY <4>1, <4>2
    <3>4. AsFar(c, l)'
      BY <3>2, <3>3 DEF AsFar, InPool, Recursing, Walks, Mine
    <3> QED  BY <2>1, <3>2, <3>3, <3>4, BeginKept
  <2>3. CASE BeginSweep
    <3> PICK l : l = [Idle EXCEPT !.pc = "s_enter", !.op = "sweep", !.cur = root]
      OBVIOUS
    <3>1. /\ Main \in Thread /\ th' = [th EXCEPT ![Main] = l] /\ th'[Main] = l /\ l \in Local
          /\ th[Main].pc = "idle" /\ UNCHANGED <<heapVars, alive, promised>>
      BY <2>3 DEF BeginSweep, At, Thread, TypeOK
    <3>2. l.path = <<>> /\ l.pc = "s_enter" /\ l.op = "sweep" /\ l.cur = root'
      BY <3>1 DEF Idle, heapVars
    <3>3. OnPath(Main, l)'
      <4>1. AtRoot'
        BY BeginsAtRoot, PTL
      <4> QED  BY <3>2, <4>1 DEF AtRoot, Walks
    <3>4. AsFar(Main, l)'
      BY <3>2, <3>3 DEF AsFar, InPool, Recursing, Walks, Mine
    <3>5. Alone(Main)' /\ Kept(Main)'
      BY <2>1, <3>1, <3>2, <3>4, BeginKept
    <3> QED  BY <3>1, <3>5
  <2>4. ASSUME NEW t \in Thread, Step(t) PROVE Alone(t)' /\ Kept(t)'
    <3>1. t = u
      BY <2>4, StepsInCall DEF Alone
    <3>2. Kept(t)'
      BY <2>1, <2>4, <3>1, StepKept
    <3>3. Alone(t)'
      BY <2>4, <3>1, OthersKeepStill DEF Alone, InCall
    <3> QED  BY <3>2, <3>3
  <2> QED  BY <1>3, <2>1, <2>2, <2>3, <2>4 DEF Next, Thread
<1> QED  BY <1>2, <1>3

LEMMA TurnAlways == TurnSpec => [](TableInv /\ TurnInv)
<1>1. TurnInit => TableInv /\ TurnInv
  BY TableInit, TurnBegins DEF TurnInit
<1>2. (TableInv /\ TurnInv) /\ [TurnNext]_turnVars => (TableInv /\ TurnInv)'
  <2> SUFFICES ASSUME TableInv, TurnInv, [TurnNext]_turnVars PROVE TableInv' /\ TurnInv'
    OBVIOUS
  <2>1. [Next]_vars
    BY DEF TurnNext, turnVars
  <2>2. TableInv'
    BY <2>1, TableStep
  <2> QED  BY <2>2, TurnGoesOn DEF TableInv
<1> QED  BY <1>1, <1>2, PTL DEF TurnSpec

-----------------------------------------------------------------------------
(* As long as calls come in turn, the process never frees a node twice and no   *)
(* two clients are promised one address (dhcp_server.c:630-798).                *)
THEOREM SafeWhileInTurn == TurnSpec => []SafeInTurn
<1>1. TableInv /\ TurnInv => SafeInTurn
  <2> SUFFICES ASSUME TurnInv, inTurn PROVE alive /\ NoSharedAddress
    BY DEF SafeInTurn
  <2> PICK t \in Thread : Alone(t) /\ Kept(t)
    BY DEF TurnInv
  <2>1. alive /\ Contents /\ Promises
    BY DEF Kept
  <2>2. ASSUME NEW c \in Client, NEW d \in Client, c # d, NEW ip \in promised[c] \cap promised[d]
        PROVE  FALSE
    <3>1. (Held(ip, c) \/ Promising(c, ip)) /\ (Held(ip, d) \/ Promising(d, ip))
      BY <2>1 DEF Promises
    <3>2. ~(Held(ip, c) /\ Held(ip, d))
      BY <2>1, <2>2 DEF Contents, Agree, Held
    <3>3. ASSUME NEW v \in Client, NEW w, Promising(v, ip), Held(ip, w) PROVE FALSE
      <4>1. v \in Thread /\ th[v].pc = "i_walk" /\ th[v].ip = ip
        BY <3>3 DEF Promising, Thread
      <4>2. v = t /\ ~Waits(th[v])
        BY <4>1 DEF Alone, InCall, Waits
      <4>3. Inserts(v, th[v])
        BY <4>1, <4>2 DEF Kept, AsFar
      <4>4. ~Leased(ip)
        BY <4>1, <4>3 DEF Inserts
      <4> QED  BY <3>3, <4>4 DEF Held, Leased
    <3>4. ~(Promising(c, ip) /\ Promising(d, ip))
      <4> SUFFICES ASSUME Promising(c, ip), Promising(d, ip) PROVE FALSE
        OBVIOUS
      <4>1. InCall(c) /\ InCall(d) /\ c \in Thread /\ d \in Thread
        BY DEF Promising, InCall, Thread
      <4> QED  BY <2>2, <4>1 DEF Alone
    <3> QED  BY <3>1, <3>2, <3>3, <3>4
  <2> QED  BY <2>1, <2>2 DEF NoSharedAddress
<1> QED  BY <1>1, TurnAlways, PTL

(* Whenever no call is under way, a lookup of the address of any lease, walking *)
(* down from ip_assignment_root, meets its node (dhcp_server.c:752-758).        *)
THEOREM FoundWhileInTurn == TurnSpec => []LeasesFound
<1>1. TableInv /\ TurnInv => LeasesFound
  <2> SUFFICES ASSUME TypeOK, TurnInv, inTurn, \A t \in Thread : ~InCall(t), NEW a \in used
               PROVE  a \in From(root, node[a].ip)
    BY DEF LeasesFound, TableInv
  <2> PICK t \in Thread : Kept(t)
    BY DEF TurnInv
  <2>1. th[t].pc \in {"idle", "ended"}
    BY DEF InCall
  <2>2. Sound(Heap)
    BY <2>1 DEF Kept, Waits, Tree
  <2> PICK ip : ip = node[a].ip
    OBVIOUS
  <2>3. a \in Meets(Heap, root, ip) /\ Whole(Heap) /\ Heap.top = root /\ used \subseteq Addr
    BY <2>2, HeapFacts DEF Sound, TypeOK
  <2>4. ASSUME NEW S \in SUBSET Addr, {root} \ {Null} \subseteq S, Descends(S, ip)
        PROVE  a \in S
    <3> DEFINE R == S \cap used
    <3>1. R \in SUBSET used /\ {root} \ {Null} \subseteq R
      BY <2>3, <2>4 DEF Whole
    <3>2. Descent(Heap, R, ip)
      <4> SUFFICES ASSUME NEW b \in R, node[b].ip # ip
                   PROVE  Kid(Heap, b, SideOf(ip, b)) \in R \cup {Null}
        BY DEF Descent
      <4>1. Kid(Heap, b, SideOf(ip, b)) = Child(b, SideOf(ip, b))
        BY <2>3, HeapFacts, SideOfSide
      <4>2. Child(b, SideOf(ip, b)) \in S \cup {Null}
        BY <2>4 DEF Descends
      <4>3. Kid(Heap, b, SideOf(ip, b)) \in used \cup {Null}
        BY <2>3, SideOfSide DEF Whole
      <4> QED  BY <4>1, <4>2, <4>3
    <3> QED  BY <2>3, <3>1, <3>2 DEF Meets
  <2> QED  BY <2>3, <2>4 DEF From
<1> QED  BY <1>1, TurnAlways, PTL

-----------------------------------------------------------------------------
(* The table behind the tree: an address has the holder of its node. *)
LeaseIs(ip, c, s) == \E a \in used : node[a].ip = ip /\ node[a].mac = c /\ node[a].start = s
HolderOf(ip) == IF Leased(ip) THEN node[Lease(ip)].mac ELSE Nobody
StartOf(ip) == IF Leased(ip) THEN node[Lease(ip)].start ELSE 0
Holder == [ip \in Pool |-> HolderOf(ip)]
Start == [ip \in Pool |-> StartOf(ip)]

TableOf ==
    /\ \A ip, c, s : LeaseIs(ip, c, s) => HolderOf(ip) = c /\ StartOf(ip) = s
    /\ \A ip : (\A c, s : ~LeaseIs(ip, c, s)) => HolderOf(ip) = Nobody /\ StartOf(ip) = 0
LEMMA TableRead == Contents => TableOf
<1> SUFFICES ASSUME Contents PROVE TableOf
  OBVIOUS
<1>1. ASSUME NEW ip, NEW c, NEW s, LeaseIs(ip, c, s)
      PROVE  HolderOf(ip) = c /\ StartOf(ip) = s
  <2>1. Leased(ip)
    BY <1>1 DEF Leased, LeaseIs
  <2>2. Lease(ip) \in used /\ node[Lease(ip)].ip = ip
    BY <2>1 DEF Lease, Leased
  <2> QED  BY <1>1, <2>1, <2>2 DEF LeaseIs, HolderOf, StartOf, Contents, Agree
<1>2. ASSUME NEW ip, \A c, s : ~LeaseIs(ip, c, s)
      PROVE  HolderOf(ip) = Nobody /\ StartOf(ip) = 0
  <2>1. ~Leased(ip)
    BY <1>2 DEF Leased, LeaseIs
  <2> QED  BY <2>1 DEF HolderOf, StartOf
<1> QED  BY <1>1, <1>2 DEF TableOf

(* A step that leaves the lease of an address alone, and the table with it. *)
LEMMA TableSame ==
    ASSUME Contents, Contents', NEW ip,
           \A c, s : LeaseIs(ip, c, s) <=> LeaseIs(ip, c, s)'
    PROVE  HolderOf(ip)' = HolderOf(ip) /\ StartOf(ip)' = StartOf(ip)
<1>1. TableOf /\ TableOf'
  BY TableRead, PTL
<1> QED  BY <1>1 DEF TableOf

(* A step that leaves the leases of all addresses but one alone. *)
LEMMA TableButOne ==
    ASSUME Contents, Contents', NEW ip \in Pool,
           \A x \in Pool \ {ip} : \A c, s : LeaseIs(x, c, s) <=> LeaseIs(x, c, s)'
    PROVE  /\ \A m : HolderOf(ip)' = m => Holder' = [Holder EXCEPT ![ip] = m]
           /\ \A s : StartOf(ip)' = s => Start' = [Start EXCEPT ![ip] = s]
<1>1. ASSUME NEW x \in Pool \ {ip}
      PROVE  HolderOf(x)' = HolderOf(x) /\ StartOf(x)' = StartOf(x)
  BY <1>1, TableSame
<1>2. Holder' = [x \in Pool |-> HolderOf(x)'] /\ Start' = [x \in Pool |-> StartOf(x)']
  BY DEF Holder, Start
<1> QED  BY <1>1, <1>2 DEF Holder, Start

(* The steps of the abstract table, in these terms. *)
Promised == Leases!TableNext /\ (InCall(Main) => Leases!Reclaim \/ Leases!Tick)
LEMMA TableGrants ==
    ASSUME NEW ip \in Pool, NEW m \in Client, HolderOf(ip) = Nobody, now' = now,
           Holder' = [Holder EXCEPT ![ip] = m], Start' = [Start EXCEPT ![ip] = now]
    PROVE  Leases!TableNext
BY DEF Leases!TableNext, Leases!Grant, Holder, Start, HolderOf, StartOf

LEMMA TableRenews ==
    ASSUME NEW ip \in Pool, HolderOf(ip) # Nobody, now' = now,
           Holder' = Holder, Start' = [Start EXCEPT ![ip] = now]
    PROVE  Leases!TableNext
BY DEF Leases!TableNext, Leases!Renew, Holder, Start, HolderOf, StartOf

LEMMA TableGivesBack ==
    ASSUME NEW ip \in Pool, HolderOf(ip) # Nobody, now' = now,
           Holder' = [Holder EXCEPT ![ip] = Nobody], Start' = [Start EXCEPT ![ip] = 0]
    PROVE  /\ Leases!TableNext
           /\ now - StartOf(ip) > LeaseTime => Leases!Reclaim
<1>1. Leases!TableNext
  BY DEF Leases!TableNext, Leases!GiveBack, Holder, Start, HolderOf, StartOf
<1>2. ASSUME now - StartOf(ip) > LeaseTime PROVE Leases!Reclaim
  <2>1. {ip} \in SUBSET {x \in Pool : Leases!RunOut(x)}
    BY <1>2 DEF Leases!RunOut, HolderOf, StartOf
  <2>2. /\ Holder' = [x \in Pool |-> IF x \in {ip} THEN Nobody ELSE Holder[x]]
        /\ Start' = [x \in Pool |-> IF x \in {ip} THEN 0 ELSE Start[x]]
    BY DEF Holder, Start
  <2> QED  BY <2>1, <2>2 DEF Leases!Reclaim, Holder, Start, HolderOf, StartOf
<1> QED  BY <1>1, <1>2

LEMMA TableTime ==
    ASSUME Holder' = Holder, Start' = Start
    PROVE  /\ now' = now + 1 => Promised
           /\ now' = now => UNCHANGED Leases!tableVars
BY DEF Promised, Leases!TableNext, Leases!Tick, Leases!tableVars, Holder, Start, HolderOf, StartOf

(* Steps that leave the contents of the nodes alone leave the table alone. *)
LEMMA TableKept ==
    ASSUME Contents, used' = used,
           \A a \in used : /\ node'[a].ip = node[a].ip /\ node'[a].mac = node[a].mac
                           /\ node'[a].start = node[a].start
    PROVE  Holder' = Holder /\ Start' = Start
<1>1. Contents'
  BY SameLeases
<1>2. \A x, c, s : LeaseIs(x, c, s) <=> LeaseIs(x, c, s)'
  BY DEF LeaseIs
<1>3. ASSUME NEW x \in Pool PROVE HolderOf(x)' = HolderOf(x) /\ StartOf(x)' = StartOf(x)
  BY <1>1, <1>2, TableSame
<1>4. Holder' = [x \in Pool |-> HolderOf(x)'] /\ Start' = [x \in Pool |-> StartOf(x)']
  BY DEF Holder, Start
<1> QED  BY <1>3, <1>4 DEF Holder, Start

(* The new node of an insertion. *)
LEMMA InsertTable ==
    ASSUME TypeOK, NEW t \in Client, Calm(t), Contents', InsertEnd(t)
    PROVE  Leases!TableNext \/ UNCHANGED Leases!tableVars
<1>1. /\ t \in Thread /\ node \in [Addr -> Node] /\ used \subseteq Addr /\ now' = now
      /\ Contents /\ th[t].pc = "i_walk"
  BY DEF Thread, TypeOK, InsertEnd, Calm, At
<1>2. CASE UNCHANGED <<node, used>>
  <2>1. Holder' = Holder /\ Start' = Start
    BY <1>1, <1>2, TableKept
  <2> QED  BY <1>1, <2>1, TableTime
<1>3. CASE ~UNCHANGED <<node, used>>
  <2> PICK ip : ip = th[t].ip
    OBVIOUS
  <2> PICK n : n = now
    OBVIOUS
  <2>1. PICK a \in Addr \ used :
          /\ node' = [node EXCEPT ![a] = [ip |-> ip, mac |-> t, start |-> now,
                                         left |-> Null, right |-> Null]]
          /\ used' = used \cup {a}
    BY <1>3 DEF InsertEnd
  <2>2. ip \in Pool /\ ~Leased(ip)
    BY <1>1 DEF Calm, AsFar, InPool, Inserts
  <2>3. /\ node'[a].ip = ip /\ node'[a].mac = t /\ node'[a].start = now
        /\ \A b \in used : node'[b] = node[b]
    BY <1>1, <2>1
  <2>4. \A x \in Pool \ {ip} : \A c, s : LeaseIs(x, c, s) <=> LeaseIs(x, c, s)'
    BY <2>1, <2>3 DEF LeaseIs
  <2>5. TableOf /\ TableOf'
    BY <1>1, TableRead, PTL
  <2>6. HolderOf(ip) = Nobody
    BY <2>2, <2>5 DEF TableOf, LeaseIs, Leased
  <2>7. LeaseIs(ip, t, n)'
    BY <1>1, <2>1, <2>3 DEF LeaseIs
  <2>8. HolderOf(ip)' = t /\ StartOf(ip)' = n
    BY <2>5, <2>7 DEF TableOf
  <2>9. Holder' = [Holder EXCEPT ![ip] = t] /\ Start' = [Start EXCEPT ![ip] = now]
    BY <1>1, <2>2, <2>4, <2>8, TableButOne
  <2> QED  BY <1>1, <2>2, <2>6, <2>9, TableGrants
<1> QED  BY <1>2, <1>3

(* The lease that a renewal starts again. *)
LEMMA RenewTable ==
    ASSUME TypeOK, NEW t \in Client, Calm(t), Contents', RenewWrite(t)
    PROVE  Leases!TableNext
<1> PICK a : a = th[t].cur
  OBVIOUS
<1>1. /\ t \in Thread /\ node \in [Addr -> Node] /\ used \subseteq Addr /\ now' = now
      /\ used' = used /\ node' = [node EXCEPT ![a].start = now]
      /\ Contents /\ th[t].pc = "n_write" /\ a \in used /\ Sound(Heap)
  BY DEF Thread, TypeOK, RenewWrite, Calm, At, AsFar, Found, Tree
<1> PICK ip : ip = node[a].ip
  OBVIOUS
<1> PICK m : m = node[a].mac
  OBVIOUS
<1> PICK r : r = node[a].start
  OBVIOUS
<1> PICK n : n = now
  OBVIOUS
<1>2. /\ ip \in Pool /\ m \in Client /\ m # Nobody
      /\ \A b \in used : node'[b].ip = node[b].ip /\ node'[b].mac = node[b].mac
      /\ \A b \in used \ {a} : node'[b].start = node[b].start
      /\ node'[a].start = now
  BY <1>1, TableAssumption DEF Contents, Node
<1>3. \A x \in Pool \ {ip} : \A c, s : LeaseIs(x, c, s) <=> LeaseIs(x, c, s)'
  <2>1. \A b \in used : node[b].ip # ip => node'[b].start = node[b].start
    BY <1>2
  <2> QED  BY <1>1, <1>2, <2>1 DEF LeaseIs
<1>4. TableOf /\ TableOf'
  BY <1>1, TableRead, PTL
<1>5. LeaseIs(ip, m, r) /\ LeaseIs(ip, m, n)'
  BY <1>1, <1>2 DEF LeaseIs
<1>6. HolderOf(ip) = m /\ HolderOf(ip)' = m /\ StartOf(ip)' = n
  BY <1>4, <1>5 DEF TableOf
<1>7. Holder' = [Holder EXCEPT ![ip] = m] /\ Start' = [Start EXCEPT ![ip] = now]
  BY <1>1, <1>2, <1>3, <1>6, TableButOne
<1>8. Holder' = Holder
  BY <1>6, <1>7 DEF Holder
<1> QED  BY <1>1, <1>2, <1>6, <1>7, <1>8, TableRenews

(* A lease that leaves the tree, its node freed or overwritten. *)
LEMMA TakenAway ==
    ASSUME Contents, Contents', now' = now, NEW t \in Thread, NEW a \in used,
           t = Main => Expired(a), NEW ip, ip = node[a].ip,
           \A x \in Pool \ {ip} : \A c, s : LeaseIs(x, c, s) <=> LeaseIs(x, c, s)',
           \A b \in used' : node'[b].ip # ip
    PROVE  Leases!TableNext /\ (t = Main => Leases!Reclaim)
<1> PICK m : m = node[a].mac
  OBVIOUS
<1> PICK n : n = node[a].start
  OBVIOUS
<1>1. ip \in Pool /\ m # Nobody
  BY TableAssumption DEF Contents
<1>2. TableOf /\ TableOf'
  BY TableRead, PTL
<1>3. HolderOf(ip) # Nobody /\ StartOf(ip) = n
  <2>1. LeaseIs(ip, m, n)
    BY DEF LeaseIs
  <2> QED  BY <1>1, <1>2, <2>1 DEF TableOf
<1>4. HolderOf(ip)' = Nobody /\ StartOf(ip)' = 0
  <2>1. \A c, s : ~LeaseIs(ip, c, s)'
    BY DEF LeaseIs
  <2> QED  BY <1>2, <2>1 DEF TableOf
<1>5. Holder' = [Holder EXCEPT ![ip] = Nobody] /\ Start' = [Start EXCEPT ![ip] = 0]
  BY <1>1, <1>4, TableButOne
<1>6. t = Main => now - StartOf(ip) > LeaseTime
  BY <1>3 DEF Expired
<1> QED  BY <1>1, <1>3, <1>5, <1>6, TableGivesBack

LEMMA DeleteLeafTable ==
    ASSUME TypeOK, NEW t \in Thread, Calm(t), Contents', DeleteLeaf(t)
    PROVE  Leases!TableNext /\ (t = Main => Leases!Reclaim)
<1> PICK a : a = th[t].cur
  OBVIOUS
<1>1. /\ th \in [Thread -> Local] /\ node \in [Addr -> Node] /\ used \subseteq Addr
      /\ now' = now /\ th[t].pc = "d_lock" /\ a # Null /\ Free(a) /\ Contents
      /\ Sound(Heap)
  BY StepFacts DEF TypeOK, DeleteLeaf, At, Calm, Tree
<1>2. OnPath(t, th[t]) /\ Deletes(t, th[t]) /\ th[t] \in Local
  BY <1>1 DEF Calm, AsFar, Recursing, Walks
<1>3. a \in used /\ (t = Main => Expired(a))
  BY <1>1, <1>2, AtBlock DEF Walks, Deletes
<1>4. used' = used \ {a} /\ \A b \in Addr \ {a} : node'[b] = node[b]
  BY <1>1, <1>3 DEF Free
<1> PICK ip : ip = node[a].ip
  OBVIOUS
<1>5. \A b \in used \ {a} : node[b].ip # ip
  BY <1>1, <1>3, OneBlock
<1>6. \A x \in Pool \ {ip} : \A c, s : LeaseIs(x, c, s) <=> LeaseIs(x, c, s)'
  BY <1>1, <1>4 DEF LeaseIs
<1>7. \A b \in used' : node'[b].ip # ip
  BY <1>1, <1>4, <1>5
<1> QED  BY <1>1, <1>3, <1>6, <1>7, TakenAway

LEMMA DeleteCopyTable ==
    ASSUME TypeOK, NEW t \in Thread, Calm(t), Contents', DeleteCopy(t)
    PROVE  Leases!TableNext /\ (t = Main => Leases!Reclaim)
<1> PICK a : a = Last(th[t].path).at
  OBVIOUS
<1> PICK m : m = th[t].cur
  OBVIOUS
<1>1. /\ node \in [Addr -> Node] /\ used \subseteq Addr /\ now' = now /\ used' = used
      /\ th[t].pc = "d_min" /\ Contents /\ Sound(Heap) /\ a = Top(t).at
      /\ node' = [node EXCEPT ![a] = [node[m] EXCEPT !.left = node[a].left, !.right = node[a].right]]
  BY DEF TypeOK, DeleteCopy, At, Calm, Tree, Top, Last
<1>2. a \in used /\ m \in used /\ node[a].ip = th[t].ip /\ (t = Main => Expired(a))
  BY <1>1 DEF Calm, AsFar, FindsMin
<1>3. /\ \A b \in used : b # a => node'[b] = node[b]
      /\ node'[a].ip = node[m].ip /\ node'[a].mac = node[m].mac /\ node'[a].start = node[m].start
  BY <1>1, <1>2 DEF Node
<1> PICK ip : ip = node[a].ip
  OBVIOUS
<1>4. \A b \in used \ {a} : node[b].ip # ip
  BY <1>1, <1>2, OneBlock
<1>5. m # a
  <2>1. PICK q \in Seq(Frame) :
          /\ Linked(Heap, q) /\ Distinct(q) /\ m = Place(Heap, q)
          /\ \E i \in 1..Len(q) : q[i].at = a
    BY <1>1 DEF Calm, AsFar, FindsMin, Under
  <2> QED  BY <1>1, <1>2, <2>1, KidFresh, PtrFacts DEF Sound
<1>6. \A x \in Pool \ {ip} : \A c, s : LeaseIs(x, c, s) <=> LeaseIs(x, c, s)'
  <2> SUFFICES ASSUME NEW x \in Pool \ {ip}, NEW c, NEW s
               PROVE  LeaseIs(x, c, s) <=> LeaseIs(x, c, s)'
    OBVIOUS
  <2>1. ASSUME LeaseIs(x, c, s) PROVE LeaseIs(x, c, s)'
    BY <1>1, <1>3, <2>1 DEF LeaseIs
  <2>2. ASSUME LeaseIs(x, c, s)' PROVE LeaseIs(x, c, s)
    <3>1. PICK b \in used : node'[b].ip = x /\ node'[b].mac = c /\ node'[b].start = s
      BY <1>1, <2>2 DEF LeaseIs
    <3> QED  BY <1>2, <1>3, <3>1 DEF LeaseIs
  <2> QED  BY <2>1, <2>2
<1>7. \A b \in used' : node'[b].ip # ip
  BY <1>1, <1>2, <1>3, <1>4, <1>5
<1> QED  BY <1>1, <1>2, <1>6, <1>7, TakenAway

LEMMA StoreTable ==
    ASSUME TypeOK, NEW t \in Thread, Contents, th[t].path # <<>>, UNCHANGED <<used, now>>,
           Store(Top(t).at, Top(t).side, th[t].ret)
    PROVE  UNCHANGED Leases!tableVars
<1> PICK e : e = Top(t)
  OBVIOUS
<1>1. e \in Frame /\ node \in [Addr -> Node] /\ used \subseteq Addr
  BY PopElements DEF TypeOK, Local, Top
<1>2. \A a \in used : /\ node'[a].ip = node[a].ip /\ node'[a].mac = node[a].mac
                      /\ node'[a].start = node[a].start
  BY <1>1 DEF Store, Frame, Node
<1>3. Holder' = Holder /\ Start' = Start
  BY <1>2, TableKept
<1> QED  BY <1>3, TableTime

(* The other steps write no node. *)
LEMMA QuietTable ==
    ASSUME TypeOK, Contents, UNCHANGED <<node, used, now>>
    PROVE  UNCHANGED Leases!tableVars
<1>1. Holder' = Holder /\ Start' = Start
  BY TableKept
<1> QED  BY <1>1, TableTime

LEMMA StepTable ==
    ASSUME TypeOK, NEW t \in Thread, Kept(t), Contents', Step(t)
    PROVE  \/ UNCHANGED Leases!tableVars
           \/ Leases!TableNext /\ (t = Main => Leases!Reclaim)
<1>1. Calm(t) /\ Contents
  BY StepCalm DEF Kept
<1>2. CASE t \in Client /\ (Find(t) \/ Assign(t) \/ Answer(t) \/ Insert(t))
  <2>1. CASE InsertEnd(t) \/ RenewWrite(t)
    BY <1>1, <1>2, <2>1, InsertTable, RenewTable, TableAssumption
  <2>2. CASE InsertBack(t)
    BY <1>1, <2>2, StoreTable DEF InsertBack
  <2>3. CASE ~(InsertEnd(t) \/ RenewWrite(t) \/ InsertBack(t))
    <3>1. UNCHANGED <<node, used, now>>
      BY <1>2, <2>3 DEF Find, Assign, Answer, Insert, FindUnlock, FindLock, FindWalk, AssignLock,
         AssignCursor, AssignRead, AssignNext, AssignAdvance, AssignWrap, AssignUnlock,
         RequestFound, RenewFound, GiveBackFound, InsertStart, InsertWalk, heapVars
    <3> QED  BY <1>1, <3>1, QuietTable
  <2> QED  BY <2>1, <2>2, <2>3
<1>3. CASE Sweep(t) \/ RootBack(t)
  <2>1. CASE SweepBack(t)
    BY <1>1, <2>1, StoreTable DEF SweepBack
  <2>2. CASE ~SweepBack(t)
    <3>1. UNCHANGED <<node, used, now>>
      BY <1>3, <2>2 DEF Sweep, SweepEnter, SweepCheck, RootBack, heapVars
    <3> QED  BY <1>1, <3>1, QuietTable
  <2> QED  BY <2>1, <2>2
<1>4. CASE Delete(t)
  <2>1. CASE DeleteLeaf(t) \/ DeleteCopy(t)
    BY <1>1, <2>1, DeleteLeafTable, DeleteCopyTable
  <2>2. CASE DeleteBack(t)
    BY <1>1, <2>2, StoreTable DEF DeleteBack
  <2>3. CASE ~(DeleteLeaf(t) \/ DeleteCopy(t) \/ DeleteBack(t))
    <3>1. UNCHANGED <<node, used, now>>
      BY <1>4, <2>3 DEF Delete, DeleteDown, DeleteMissing, DeleteInner, FindMin, heapVars
    <3> QED  BY <1>1, <3>1, QuietTable
  <2> QED  BY <2>1, <2>2, <2>3
<1> QED  BY <1>2, <1>3, <1>4 DEF Step

(* As long as calls come in turn, the tree is the abstract table: it begins     *)
(* empty, each of its steps is a step of the table or none, and a sweep takes   *)
(* only leases that have run out (dhcp_server.c:630-798).                       *)
THEOREM KeepsAlways == TurnSpec => Leases!TableInit /\ KeepsPromise
<1>1. TurnInit => Leases!TableInit
  <2> SUFFICES ASSUME TurnInit PROVE Leases!TableInit
    OBVIOUS
  <2>1. used = {} /\ now = 0
    BY DEF TurnInit, Init
  <2>2. \A ip : ~Leased(ip)
    BY <2>1 DEF Leased
  <2> QED  BY <2>1, <2>2 DEF Leases!TableInit
<1>2. ASSUME TypeOK, TurnInv, TurnInv', [TurnNext]_turnVars
      PROVE  [inTurn' => Promised]_(Leases!tableVars)
  <2> SUFFICES ASSUME inTurn' PROVE Promised \/ UNCHANGED Leases!tableVars
    OBVIOUS
  <2>1. inTurn
    BY <1>2 DEF TurnNext, Watch, turnVars
  <2> PICK u \in Thread : Alone(u) /\ Kept(u)
    BY <1>2, <2>1 DEF TurnInv
  <2>2. Contents /\ Contents'
    BY <1>2 DEF TurnInv, Kept
  <2>3. CASE Tick \/ UNCHANGED turnVars
    <3>1. UNCHANGED <<node, used>> /\ (now' = now + 1 \/ now' = now)
      BY <2>3 DEF Tick, turnVars, vars, heapVars
    <3>2. Holder' = Holder /\ Start' = Start
      BY <2>2, <3>1, TableKept
    <3> QED  BY <3>1, <3>2, TableTime
  <2>4. CASE BeginSweep \/ \E c \in Client : BeginHandling(c)
    <3>1. UNCHANGED <<node, used, now>>
      BY <2>4 DEF BeginSweep, BeginHandling, heapVars
    <3> QED  BY <1>2, <2>2, <3>1, QuietTable
  <2>5. ASSUME NEW t \in Thread, Step(t) PROVE Promised \/ UNCHANGED Leases!tableVars
    <3>1. t = u
      BY <2>5, StepsInCall DEF Alone
    <3>2. InCall(Main) => t = Main
      BY <3>1 DEF Alone, Thread
    <3> QED  BY <1>2, <2>2, <2>5, <3>1, <3>2, StepTable DEF Promised
  <2> QED  BY <1>2, <2>3, <2>4, <2>5 DEF TurnNext, Next
<1>3. TypeOK /\ TurnInv /\ TurnInv' /\ [TurnNext]_turnVars
        => [inTurn' => Promised]_(Leases!tableVars)
  BY <1>2
<1>4. TurnSpec => [][inTurn' => Promised]_(Leases!tableVars)
  BY <1>3, TurnAlways, PTL DEF TurnSpec, TableInv
<1> QED  BY <1>1, <1>4, PTL DEF TurnSpec, KeepsPromise, Promised

(* The table of dhcp_server.c:630-798 implements the abstract one in every     *)
(* behaviour whose calls come in turn throughout.                               *)
THEOREM InTurnImplements == TurnSpec /\ []inTurn => Leases!TableSpec
<1>1. inTurn' /\ [inTurn' => Promised]_(Leases!tableVars)
        => [Leases!TableNext]_(Leases!tableVars)
  BY DEF Promised
<1>2. TurnSpec => [][inTurn' => Promised]_(Leases!tableVars)
  BY KeepsAlways, PTL DEF KeepsPromise, Promised
<1> QED  BY <1>1, <1>2, KeepsAlways, PTL DEF Leases!TableSpec
=============================================================================

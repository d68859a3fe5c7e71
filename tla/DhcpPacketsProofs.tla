-------------------------- MODULE DhcpPacketsProofs --------------------------
(***************************************************************************)
(* Proofs about DhcpPackets: the search of find_dhcp_option is defined and *)
(* sound on every array of bytes; options laid out one behind the other    *)
(* are read back whatever the receiver's buffer held; every packet of      *)
(* client and server is laid out so.  The inductions are over sets of      *)
(* numbers.                                                                *)
(***************************************************************************)
EXTENDS DhcpPackets, DhcpClientProofs, WellFoundedInduction

-----------------------------------------------------------------------------
(* Induction over the naturals, from their well-foundedness. *)
Less == {ss \in Nat \X Nat : ss[1] < ss[2]}

LEMMA LessWellFounded == IsWellFoundedOn(Less, Nat)
BY NatLessThanWellFounded DEF OpToRel, Less

LEMMA Least ==
    ASSUME NEW T \in SUBSET Nat, T # {}
    PROVE  \E x \in T : \A y \in T : x <= y
<1>1. \E x \in T : \A y \in T : ~ (<<y, x>> \in Less)
  BY LessWellFounded, WFMin
<1>2. \A x, y \in Nat : <<y, x>> \in Less <=> y < x
  BY DEF Less
<1>3. PICK x \in T : \A y \in T : ~ (<<y, x>> \in Less)
  BY <1>1
<1>4. \A y \in T : ~ (y < x)
  BY <1>2, <1>3
<1>5. \A y \in T : x <= y
  BY <1>4
<1> QED BY <1>5

LEMMA Induct ==
    ASSUME NEW T \in SUBSET Nat, 0 \in T, \A n \in T : n + 1 \in T
    PROVE  T = Nat
<1> SUFFICES ASSUME Nat \ T # {} PROVE FALSE
  OBVIOUS
<1>1. PICK x \in Nat \ T : \A y \in Nat \ T : x <= y
  BY Least
<1>2. x - 1 \in T
  BY <1>1
<1> QED BY <1>1, <1>2

-----------------------------------------------------------------------------
(* The search of an array: its recursion, and a function that satisfies it. *)
Options == [0..(Size - 1) -> Byte]
Places == 0..(Size + 256)
Forth(options, i) == i + 2 + (IF i + 1 < Size THEN options[i + 1] ELSE 0)
Look(options, code, w, i) ==
    IF i >= Size \/ options[i] = 255 THEN Null
    ELSE IF options[i] = code THEN i + 2 ELSE w[Forth(options, i)]
Walk(options, code) == CHOOSE w : w = [i \in Places |-> Look(options, code, w, i)]

LEMMA SearchIsWalk ==
    ASSUME NEW options, NEW code
    PROVE  find_dhcp_option(options, code) = Walk(options, code)[0]
BY DEF find_dhcp_option, Walk, Look, Forth, Places

LEMMA ForthGoesOn ==
    ASSUME NEW options \in Options, NEW i \in Places, ~ (i >= Size)
    PROVE  Forth(options, i) \in Places /\ Forth(options, i) > i
<1>1. i \in Nat /\ i <= 311
  BY DEF Places, Size
<1>2. ASSUME i + 1 < Size PROVE options[i + 1] \in 0..255
  <2>1. i + 1 \in 0..(Size - 1)
    BY <1>1, <1>2 DEF Size
  <2> QED BY <2>1 DEF Options, Byte
<1>3. CASE i + 1 < Size
  <2>1. Forth(options, i) = i + 2 + options[i + 1]
    BY <1>3 DEF Forth
  <2>2. PICK length \in 0..255 : options[i + 1] = length
    BY <1>2, <1>3
  <2>3. Forth(options, i) = i + 2 + length
    BY <2>1, <2>2
  <2> HIDE DEF Forth
  <2> QED BY <1>1, <2>3 DEF Places, Size
<1>4. CASE ~ (i + 1 < Size)
  <2>1. Forth(options, i) = i + 2
    BY <1>4, <1>1 DEF Forth
  <2> QED BY <1>1, <2>1 DEF Places, Size
<1> QED BY <1>3, <1>4

(* Looked up from the end of the array on, each place is right once those      *)
(* behind it are: w is right at the last n places.                             *)
RightFrom(options, code, w, n) ==
    \A i \in Places : i + n >= Size + 257 => w[i] = Look(options, code, w, i)

LEMMA PlacesAre == Size = 312 /\ Places = 0..568
BY DEF Size, Places

LEMMA LookInt ==
    ASSUME NEW options \in Options, NEW code, NEW w \in [Places -> Int], NEW i \in Places
    PROVE  Look(options, code, w, i) \in Int
<1>1. CASE i >= Size \/ options[i] = 255
  BY <1>1 DEF Look, Null
<1>2. CASE ~ (i >= Size \/ options[i] = 255) /\ options[i] = code
  <2>1. Look(options, code, w, i) = i + 2
    BY <1>2 DEF Look
  <2>2. i \in Int
    BY PlacesAre
  <2> QED BY <2>1, <2>2
<1>3. CASE ~ (i >= Size \/ options[i] = 255) /\ options[i] # code
  <2>1. Forth(options, i) \in Places
    BY <1>3, ForthGoesOn
  <2>2. Look(options, code, w, i) = w[Forth(options, i)]
    BY <1>3 DEF Look
  <2> QED BY <2>1, <2>2
<1> QED BY <1>1, <1>2, <1>3

(* The place before the last n and the places from it on, in numbers. *)
LEMMA PlaceBefore ==
    ASSUME NEW n \in Nat
    PROVE  /\ 568 - n \in Int
           /\ 568 - n \notin Places => \A i \in Places : i + n >= Size + 257
           /\ \A i \in Places : i + (n + 1) >= Size + 257 =>
                  i >= 568 - n /\ (i # 568 - n => i + n >= Size + 257)
BY PlacesAre

LEMMA WalkGoesOn ==
    ASSUME NEW options \in Options, NEW code, NEW n \in Nat,
           NEW w \in [Places -> Int], RightFrom(options, code, w, n)
    PROVE  \E u \in [Places -> Int] : RightFrom(options, code, u, n + 1)
<1>1. PICK j \in Int : j = 568 - n
  BY PlaceBefore
<1>2. CASE j \notin Places
  <2>1. \A i \in Places : i + n >= Size + 257
    BY <1>1, <1>2, PlaceBefore
  <2>2. RightFrom(options, code, w, n + 1)
    BY <2>1, Zenon DEF RightFrom
  <2> QED BY <2>2
<1>3. CASE j \in Places
  <2>1. PICK v \in [Places -> Int] : v = [w EXCEPT ![j] = Look(options, code, w, j)]
    BY <1>3, LookInt
  <2>2. v[j] = Look(options, code, w, j) /\ \A i \in Places : i # j => v[i] = w[i]
    BY <1>3, <2>1
  <2>3. ASSUME NEW i \in Places, i >= j
        PROVE  Look(options, code, v, i) = Look(options, code, w, i)
    <3>1. CASE ~ (i >= Size)
      <4>1. Forth(options, i) \in Places /\ Forth(options, i) > i
        BY <3>1, ForthGoesOn
      <4>2. PICK k \in Places : k = Forth(options, i)
        BY <4>1
      <4>3. k # j
        <5>1. k \in Int /\ i \in Int /\ k > i
          BY <4>1, <4>2, PlacesAre
        <5> QED BY <5>1, <2>3
      <4>4. v[Forth(options, i)] = w[Forth(options, i)]
        BY <4>2, <4>3, <2>2
      <4> QED BY <4>4, Zenon DEF Look
    <3>2. CASE i >= Size
      BY <3>2, Zenon DEF Look
    <3> QED BY <3>1, <3>2
  <2>4. ASSUME NEW i \in Places, i + (n + 1) >= Size + 257
        PROVE  v[i] = Look(options, code, v, i)
    <3>1. i >= j /\ (i # j => i + n >= Size + 257)
      BY <2>4, <1>1, PlaceBefore
    <3>2. Look(options, code, v, i) = Look(options, code, w, i)
      BY <3>1, <2>3, Zenon
    <3>3. CASE i = j
      BY <3>2, <3>3, <2>2
    <3>4. CASE i # j
      <4>1. w[i] = Look(options, code, w, i)
        BY <3>1, <3>4, Zenon DEF RightFrom
      <4> QED BY <4>1, <3>2, <3>4, <2>2
    <3> QED BY <3>3, <3>4
  <2> QED BY <2>4, Zenon DEF RightFrom
<1> QED BY <1>2, <1>3

LEMMA WalkExists ==
    ASSUME NEW options \in Options, NEW code
    PROVE  \E w : w = [i \in Places |-> Look(options, code, w, i)]
<1> DEFINE T == {n \in Nat : \E w \in [Places -> Int] : RightFrom(options, code, w, n)}
<1>1. 0 \in T
  <2>1. \A i \in Places : ~ (i + 0 >= Size + 257)
    BY PlacesAre
  <2>2. RightFrom(options, code, [i \in Places |-> 0], 0)
    BY <2>1, Zenon DEF RightFrom
  <2> QED BY <2>2
<1>2. ASSUME NEW n \in T PROVE n + 1 \in T
  BY <1>2, WalkGoesOn
<1>3. T \in SUBSET Nat
  OBVIOUS
<1>4. \A n \in T : \E w \in [Places -> Int] : RightFrom(options, code, w, n)
  OBVIOUS
<1> HIDE DEF T
<1>5. 569 \in T
  <2>1. T = Nat
    BY <1>1, <1>2, <1>3, Induct
  <2> QED BY <2>1
<1>6. PICK w \in [Places -> Int] : RightFrom(options, code, w, 569)
  BY <1>4, <1>5
<1>7. \A i \in Places : i + 569 >= Size + 257
  BY PlacesAre
<1>8. \A i \in Places : w[i] = Look(options, code, w, i)
  BY <1>6, <1>7 DEF RightFrom
<1>9. w = [i \in Places |-> Look(options, code, w, i)]
  BY <1>8
<1> QED BY <1>9

LEMMA WalkStep ==
    ASSUME NEW options \in Options, NEW code, NEW i \in Places
    PROVE  Walk(options, code)[i] = Look(options, code, Walk(options, code), i)
<1>1. Walk(options, code) = [k \in Places |-> Look(options, code, Walk(options, code), k)]
  BY WalkExists DEF Walk
<1> QED BY <1>1

(* On any array of bytes the search ends, and what it finds stands behind a     *)
(* byte of the array that is the code it was asked for (find_dhcp_option).      *)
THEOREM SearchSound ==
    ASSUME NEW options \in Options, NEW code
    PROVE  LET at == find_dhcp_option(options, code)
           IN at = Null \/ (at - 2 \in 0..(Size - 1) /\ options[at - 2] = code)
<1> DEFINE W == Walk(options, code)
           Sound(at) == at = Null \/ (at - 2 \in 0..(Size - 1) /\ options[at - 2] = code)
           T == {n \in Nat : \A i \in Places : i + n >= Size + 257 => Sound(W[i])}
<1>1. 0 \in T
  <2>1. \A i \in Places : ~ (i + 0 >= Size + 257)
    BY PlacesAre
  <2> HIDE DEF Sound, W
  <2> QED BY <2>1
<1>2. ASSUME NEW n \in T PROVE n + 1 \in T
  <2>0. n \in Nat /\ \A i \in Places : i + n >= Size + 257 => Sound(W[i])
    BY <1>2
  <2> HIDE DEF T, Sound, W
  <2> SUFFICES ASSUME NEW i \in Places, i + (n + 1) >= Size + 257 PROVE Sound(W[i])
    BY <2>0 DEF T
  <2>1. W[i] = Look(options, code, W, i)
    BY WalkStep DEF W
  <2>2. CASE i >= Size \/ options[i] = 255
    BY <2>1, <2>2 DEF Look, Sound
  <2>3. CASE ~ (i >= Size \/ options[i] = 255) /\ options[i] = code
    <3>1. W[i] = i + 2
      BY <2>1, <2>3 DEF Look
    <3>2. i \in 0..(Size - 1)
      BY <2>3 DEF Places, Size
    <3>3. i + 2 - 2 = i
      BY <3>2
    <3> QED BY <3>1, <3>2, <3>3, <2>3 DEF Sound
  <2>4. CASE ~ (i >= Size \/ options[i] = 255) /\ options[i] # code
    <3>1. W[i] = W[Forth(options, i)]
      BY <2>1, <2>4 DEF Look
    <3>2. Forth(options, i) \in Places /\ Forth(options, i) > i
      BY <2>4, ForthGoesOn
    <3> PICK k \in Places : k = Forth(options, i) /\ k > i
      BY <3>2
    <3>3. i \in Nat /\ k \in Nat /\ n \in Nat /\ Size + 257 \in Nat
      BY PlacesAre, <2>0
    <3>4. k + n >= i + (n + 1)
      BY <3>3
    <3>5. k + n >= Size + 257
      BY <3>3, <3>4
    <3> QED BY <3>1, <3>5, <2>0
  <2> QED BY <2>2, <2>3, <2>4
<1> HIDE DEF T
<1>3. Size + 257 \in T
  <2>1. T \subseteq Nat
    BY DEF T
  <2>2. T = Nat
    BY <2>1, <1>1, <1>2, Induct
  <2> QED BY <2>2 DEF Size
<1>4. Sound(W[0])
  <2>1. \A i \in Places : i + (Size + 257) >= Size + 257 => Sound(W[i])
    BY <1>3 DEF T
  <2>2. 0 \in Places /\ 0 + (Size + 257) >= Size + 257
    BY DEF Places, Size
  <2> QED BY <2>1, <2>2
<1> QED BY <1>4, SearchIsWalk, SMTT(30)

-----------------------------------------------------------------------------
(* A packet whose options stand one behind the other from 0 on, with the 255    *)
(* behind the last and within what is sent.                                     *)
Code == 0..254
Field == [at : Nat, code : Code, value : Seq(Byte)]
Behind(o) == o.at + 2 + Len(o.value)
Last(p) == Len(p.fields)
InRow(p) ==
    /\ p.fields \in Seq(Field) /\ Last(p) \in Nat \ {0}
    /\ \A f \in 1..Last(p) : Len(p.fields[f].value) \in Byte
    /\ p.fields[1].at = 0
    /\ \A f \in 1..Last(p) : f + 1 \in 1..Last(p) => p.fields[f + 1].at = Behind(p.fields[f])
    /\ p.end = Behind(p.fields[Last(p)])
    /\ p.sent \in Nat /\ p.end < p.sent /\ p.sent <= Size

LEMMA RowDomain ==
    ASSUME NEW p, InRow(p)
    PROVE  DOMAIN p.fields = 1..Last(p) /\ Last(p) \in Nat \ {0} /\ p.fields \in Seq(Field)
<1>1. p.fields \in Seq(Field) /\ Last(p) \in Nat \ {0}
  BY Zenon DEF InRow
<1>2. DOMAIN p.fields = 1..Len(p.fields)
  BY <1>1
<1> QED BY <1>1, <1>2 DEF Last

LEMMA RowIsField ==
    ASSUME NEW p, InRow(p), NEW f \in 1..Last(p)
    PROVE  p.fields[f] \in Field
BY RowDomain DEF Last

LEMMA RowValue ==
    ASSUME NEW p, InRow(p), NEW f \in 1..Last(p)
    PROVE  p.fields[f].value \in Seq(Byte)
BY RowIsField DEF Field

LEMMA RowField ==
    ASSUME NEW p, InRow(p), NEW f \in 1..Last(p)
    PROVE  /\ p.fields[f].at \in Nat /\ p.fields[f].code \in Code
           /\ Len(p.fields[f].value) \in Byte /\ Len(p.fields[f].value) \in Nat
<1>1. p.fields[f].at \in Nat /\ p.fields[f].code \in Code
  BY RowIsField DEF Field
<1>2. Len(p.fields[f].value) \in Byte
  BY Zenon DEF InRow
<1>3. Byte \subseteq Nat
  BY DEF Byte
<1> QED BY <1>1, <1>2, <1>3, Zenon

LEMMA RowBehind ==
    ASSUME NEW p, InRow(p), NEW f \in 1..Last(p)
    PROVE  /\ p.fields[f].at \in Nat /\ Behind(p.fields[f]) \in Nat
           /\ Behind(p.fields[f]) >= p.fields[f].at + 2
<1>1. PICK n \in Nat, m \in Nat : p.fields[f].at = n /\ Len(p.fields[f].value) = m
  <2>1. p.fields[f].at \in Nat /\ Len(p.fields[f].value) \in Nat
    BY RowField, Zenon
  <2> QED BY <2>1, Zenon
<1>2. Behind(p.fields[f]) = n + 2 + m
  BY <1>1, Zenon DEF Behind
<1>3. n + 2 + m \in Nat /\ n + 2 + m >= n + 2
  OBVIOUS
<1> QED BY <1>1, <1>2, <1>3, Zenon

(* What stands earlier in the row lies wholly before what stands later. *)
LEMMA RowOrder ==
    ASSUME NEW p, InRow(p), NEW f \in 1..Last(p), NEW g \in 1..Last(p), f < g
    PROVE  Behind(p.fields[f]) <= p.fields[g].at
<1>1. PICK l \in Nat : Last(p) = l
  BY RowDomain
<1> DEFINE T == {d \in Nat : \A e, h \in 1..l :
                    h = e + d + 1 => Behind(p.fields[e]) <= p.fields[h].at}
<1>2. ASSUME NEW e \in 1..l, NEW h \in 1..l, h = e + 1
      PROVE  p.fields[h].at = Behind(p.fields[e])
  BY <1>1, <1>2, Zenon DEF InRow
<1>3. ASSUME NEW e \in 1..l
      PROVE  /\ p.fields[e].at \in Nat /\ Behind(p.fields[e]) \in Nat
             /\ Behind(p.fields[e]) >= p.fields[e].at + 2
  BY <1>1, RowBehind
<1>4. 0 \in T
  <2> SUFFICES ASSUME NEW e \in 1..l, NEW h \in 1..l, h = e + 0 + 1
               PROVE  Behind(p.fields[e]) <= p.fields[h].at
    OBVIOUS
  <2>1. h = e + 1
    OBVIOUS
  <2> QED BY <2>1, <1>2, <1>3
<1>5. ASSUME NEW d \in T PROVE d + 1 \in T
  <2>1. d \in Nat
    OBVIOUS
  <2>2. \A e, h \in 1..l : h = e + d + 1 => Behind(p.fields[e]) <= p.fields[h].at
    BY <1>5
  <2>3. ASSUME NEW e \in 1..l, NEW h \in 1..l, h = e + (d + 1) + 1
        PROVE  Behind(p.fields[e]) <= p.fields[h].at
    <3> HIDE DEF T
    <3>1. PICK k \in 1..l : k = e + d + 1 /\ h = k + 1
      BY <2>1, <2>3
    <3>2. Behind(p.fields[e]) <= p.fields[k].at
      BY <3>1, <2>2
    <3>3. p.fields[h].at = Behind(p.fields[k])
      BY <3>1, <1>2
    <3>4. /\ p.fields[k].at \in Nat /\ Behind(p.fields[k]) \in Nat
          /\ Behind(p.fields[k]) >= p.fields[k].at + 2 /\ Behind(p.fields[e]) \in Nat
      BY <1>3
    <3> QED BY <3>2, <3>3, <3>4
  <2>4. d + 1 \in Nat
    BY <2>1
  <2> HIDE DEF T
  <2> QED BY <2>3, <2>4 DEF T
<1>6. T \subseteq Nat
  OBVIOUS
<1>7. \A d \in T : \A e, h \in 1..l :
          h = e + d + 1 => Behind(p.fields[e]) <= p.fields[h].at
  OBVIOUS
<1> HIDE DEF T
<1>8. f \in 1..l /\ g \in 1..l
  BY <1>1
<1>9. PICK d \in Nat : g = f + d + 1
  BY <1>8
<1>10. d \in T
  BY <1>4, <1>5, <1>6, Induct
<1> QED BY <1>7, <1>8, <1>9, <1>10, Zenon

LEMMA RowEnd ==
    ASSUME NEW p, InRow(p), NEW f \in 1..Last(p)
    PROVE  /\ Behind(p.fields[f]) <= p.end /\ p.end \in Nat
           /\ p.end < p.sent /\ p.sent \in Nat /\ p.sent <= Size
<1>1. p.end = Behind(p.fields[Last(p)]) /\ p.end < p.sent /\ p.sent \in Nat /\ p.sent <= Size
  BY Zenon DEF InRow
<1>2. PICK l \in Nat \ {0} : Last(p) = l
  BY RowDomain
<1>3. l \in 1..Last(p) /\ (f = l \/ f < l) /\ p.end = Behind(p.fields[l])
  BY <1>1, <1>2
<1>4. /\ Behind(p.fields[l]) \in Nat /\ Behind(p.fields[f]) \in Nat
      /\ p.fields[l].at \in Nat /\ Behind(p.fields[l]) >= p.fields[l].at + 2
  BY <1>3, RowBehind
<1>5. Behind(p.fields[f]) <= Behind(p.fields[l])
  <2>1. CASE f = l
    BY <1>4, <2>1
  <2>2. CASE f < l
    <3>1. Behind(p.fields[f]) <= p.fields[l].at
      BY <1>3, <2>2, RowOrder
    <3> QED BY <1>4, <3>1
  <2> QED BY <1>3, <2>1, <2>2
<1> QED BY <1>1, <1>3, <1>4, <1>5, Zenon

(* A byte an option covers is what that option writes there. *)
LEMMA CoversBounds ==
    ASSUME NEW o, o.at \in Nat, Len(o.value) \in Nat
    PROVE  /\ \A i \in Covers(o) : i \in Nat /\ o.at <= i /\ i < Behind(o)
           /\ o.at \in Covers(o) /\ o.at + 1 \in Covers(o)
           /\ \A k \in 1..Len(o.value) : o.at + 2 + k - 1 \in Covers(o)
           /\ \A i \in Covers(o) : i # o.at /\ i # o.at + 1 => i - o.at - 1 \in 1..Len(o.value)
<1>1. PICK n \in Nat, m \in Nat : o.at = n /\ Len(o.value) = m
  OBVIOUS
<1>2. Covers(o) = n..(n + 1 + m) /\ Behind(o) = n + 2 + m
  BY <1>1 DEF Covers, Behind
<1> QED BY <1>1, <1>2

LEMMA RowByte ==
    ASSUME NEW p, InRow(p), NEW f \in 1..Last(p), NEW i \in Covers(p.fields[f])
    PROVE  /\ i \in 0..(Size - 1) /\ i < p.sent
           /\ Layout(p.fields, p.end)[i] = ByteOf(p.fields[f], i)
<1>1. p.fields[f].at \in Nat /\ Len(p.fields[f].value) \in Nat /\ DOMAIN p.fields = 1..Last(p)
  BY RowField, RowDomain, Zenon
<1>2. i \in Nat /\ p.fields[f].at <= i /\ i < Behind(p.fields[f])
  BY <1>1, CoversBounds
<1>3. i \in 0..(Size - 1) /\ i < p.sent /\ i # p.end
  <2>1. Behind(p.fields[f]) \in Nat
    BY RowBehind
  <2>2. Behind(p.fields[f]) <= p.end /\ p.end < p.sent /\ p.sent <= 312
        /\ p.end \in Nat /\ p.sent \in Nat
    BY RowEnd DEF Size
  <2> HIDE DEF Behind
  <2> QED BY <1>2, <2>1, <2>2 DEF Size
<1>4. ASSUME NEW g \in 1..Last(p), i \in Covers(p.fields[g]) PROVE g = f
  <2>1. p.fields[g].at \in Nat /\ Len(p.fields[g].value) \in Nat
    BY RowField, Zenon
  <2>2. p.fields[g].at <= i /\ i < Behind(p.fields[g])
    BY <1>4, <2>1, CoversBounds
  <2>3. Behind(p.fields[f]) \in Nat /\ Behind(p.fields[g]) \in Nat
    BY RowBehind
  <2>4. ~ (f < g)
    BY <2>1, <2>2, <2>3, <1>2, RowOrder
  <2>5. ~ (g < f)
    BY <1>1, <2>2, <2>3, <1>2, RowOrder
  <2> QED BY <2>4, <2>5, SMTT(30)
<1>5. {g \in DOMAIN p.fields : i \in Covers(p.fields[g])} = {f}
  BY <1>1, <1>4
<1>6. Max({f}) = f
  BY <1>1 DEF Max
<1>7. Layout(p.fields, p.end)[i] =
          LET writers == {g \in DOMAIN p.fields : i \in Covers(p.fields[g])}
          IN IF i = p.end THEN 255
             ELSE IF writers = {} THEN 0 ELSE ByteOf(p.fields[Max(writers)], i)
  BY <1>3 DEF Layout
<1> QED BY <1>3, <1>5, <1>6, <1>7

(* What the receiver finds of an option, and of the end. *)
Stands(options, o) ==
    /\ options[o.at] = o.code /\ options[o.at + 1] = Len(o.value)
    /\ \A k \in 1..Len(o.value) : options[o.at + 2 + k - 1] = o.value[k]

LEMMA RowArrived ==
    ASSUME NEW p, InRow(p), NEW before, NEW f \in 1..Last(p)
    PROVE  Stands(Arrived(p, before), p.fields[f]) /\ Arrived(p, before)[p.end] = 255
<1> DEFINE o == p.fields[f]
<1>1. o.at \in Nat /\ Len(o.value) \in Nat
  BY RowField, Zenon
<1>2. ASSUME NEW i \in Covers(o) PROVE Arrived(p, before)[i] = ByteOf(o, i)
  BY RowByte DEF Arrived
<1>3. Arrived(p, before)[o.at] = o.code
  <2>1. o.at \in Covers(o)
    BY <1>1 DEF Covers
  <2> QED BY <2>1, <1>2 DEF ByteOf
<1>4. Arrived(p, before)[o.at + 1] = Len(o.value)
  <2>1. o.at + 1 \in Covers(o) /\ o.at + 1 # o.at
    BY <1>1, CoversBounds
  <2> QED BY <2>1, <1>2 DEF ByteOf
<1>5. ASSUME NEW k \in 1..Len(o.value) PROVE Arrived(p, before)[o.at + 2 + k - 1] = o.value[k]
  <2>1. o.at + 2 + k - 1 \in Covers(o)
    BY <1>1, CoversBounds
  <2>2. PICK n \in Nat : o.at = n
    BY <1>1
  <2>3. k \in Nat /\ k >= 1
    BY <1>1
  <2>4. /\ n + 2 + k - 1 # n /\ n + 2 + k - 1 # n + 1 /\ (n + 2 + k - 1) - n - 1 = k
    BY <2>2, <2>3
  <2>5. ByteOf(o, o.at + 2 + k - 1) = o.value[k]
    BY <2>2, <2>4 DEF ByteOf
  <2> QED BY <2>1, <2>5, <1>2
<1>6. Arrived(p, before)[p.end] = 255
  <2>1. p.end \in Nat /\ p.sent \in Nat /\ p.end < p.sent /\ p.sent <= 312
    BY RowEnd, Zenon DEF Size
  <2>2. p.end \in 0..(Size - 1)
    BY <2>1, PlacesAre
  <2> QED BY <2>1, <2>2 DEF Arrived, Layout
<1> QED BY <1>3, <1>4, <1>5, <1>6, SMTT(30) DEF Stands

LEMMA CodeIsByte == Code \subseteq Byte /\ \A c \in Code : c # 255
BY DEF Byte, Code

LEMMA ElementIsByte ==
    ASSUME NEW value \in Seq(Byte), NEW k \in 1..Len(value)
    PROVE  value[k] \in Byte
OBVIOUS

LEMMA ByteOfIsByte ==
    ASSUME NEW o, o.at \in Nat, o.code \in Code, o.value \in Seq(Byte),
           Len(o.value) \in Byte, Len(o.value) \in Nat, NEW i \in Covers(o)
    PROVE  ByteOf(o, i) \in Byte
<1>1. CASE i = o.at
  <2>1. ByteOf(o, i) = o.code
    BY <1>1, Zenon DEF ByteOf
  <2>2. o.code \in Byte
    BY CodeIsByte, Zenon
  <2> QED BY <2>1, <2>2, Zenon
<1>2. CASE i # o.at /\ i = o.at + 1
  <2>1. ByteOf(o, i) = Len(o.value)
    BY <1>2, Zenon DEF ByteOf
  <2> QED BY <2>1, Zenon
<1>3. CASE i # o.at /\ i # o.at + 1
  <2>1. ByteOf(o, i) = o.value[i - o.at - 1]
    BY <1>3, Zenon DEF ByteOf
  <2>2. i - o.at - 1 \in 1..Len(o.value)
    BY <1>3, CoversBounds, Zenon
  <2> QED BY <2>1, <2>2, ElementIsByte, Zenon
<1> QED BY <1>1, <1>2, <1>3, Zenon

LEMMA RowBytes ==
    ASSUME NEW p, InRow(p), NEW before \in Buffer
    PROVE  Arrived(p, before) \in Options
<1> SUFFICES ASSUME NEW i \in 0..(Size - 1) PROVE Arrived(p, before)[i] \in Byte
  BY DEF Arrived, Options
<1> DEFINE writers == {g \in DOMAIN p.fields : i \in Covers(p.fields[g])}
<1>1. CASE i < p.sent /\ writers # {}
  <2>1. PICK f \in 1..Last(p) : i \in Covers(p.fields[f])
    BY <1>1, RowDomain, Zenon
  <2>2. Arrived(p, before)[i] = ByteOf(p.fields[f], i)
    BY <1>1, <2>1, RowByte DEF Arrived
  <2>3. ByteOf(p.fields[f], i) \in Byte
    <3> DEFINE o == p.fields[f]
    <3>1. /\ o.at \in Nat /\ o.code \in Code
          /\ Len(o.value) \in Byte /\ Len(o.value) \in Nat
      BY RowField, Zenon
    <3>2. o.value \in Seq(Byte)
      BY RowValue, Zenon
    <3> HIDE DEF o
    <3>3. i \in Covers(o)
      BY <2>1 DEF o
    <3>4. ByteOf(o, i) \in Byte
      BY <3>1, <3>2, <3>3, ByteOfIsByte, Zenon
    <3> QED BY <3>4 DEF o
  <2> QED BY <2>2, <2>3, Zenon
<1>2. CASE i < p.sent /\ writers = {}
  <2>1. Layout(p.fields, p.end)[i] = IF i = p.end THEN 255 ELSE 0
    BY <1>2 DEF Layout
  <2>2. Arrived(p, before)[i] = Layout(p.fields, p.end)[i]
    BY <1>2 DEF Arrived
  <2>3. 255 \in Byte /\ 0 \in Byte
    BY DEF Byte
  <2> QED BY <2>1, <2>2, <2>3, Zenon
<1>3. CASE ~ (i < p.sent)
  <2>1. Arrived(p, before)[i] = before[i]
    BY <1>3 DEF Arrived
  <2>2. before[i] \in Byte
    BY OptionsAssumption
  <2> QED BY <2>1, <2>2, Zenon
<1> QED BY <1>1, <1>2, <1>3, Zenon

(* The search comes to an option when none before it has the code, and goes on  *)
(* behind it when its code is another.                                          *)
LEMMA RowNext ==
    ASSUME NEW p, InRow(p), NEW before \in Buffer, NEW code, NEW f \in 1..Last(p)
    PROVE  LET W == Walk(Arrived(p, before), code) o == p.fields[f]
           IN W[o.at] = IF o.code = code THEN o.at + 2 ELSE W[Behind(o)]
<1> DEFINE options == Arrived(p, before)
           o == p.fields[f]
<1>1. PICK n \in Nat, m \in Nat : o.at = n /\ Len(o.value) = m
  <2>1. o.at \in Nat /\ Len(o.value) \in Nat
    BY RowField, Zenon
  <2> QED BY <2>1, Zenon
<1>2. Behind(o) = n + 2 + m /\ n + 2 + m < Size
  <2>1. Behind(o) = n + 2 + m
    BY <1>1 DEF Behind
  <2>2. Behind(o) <= p.end /\ p.end < p.sent /\ p.sent <= Size /\ p.end \in Nat /\ p.sent \in Nat
    BY RowEnd
  <2> QED BY <2>1, <2>2 DEF Size
<1>3. o.at \in Places /\ ~ (o.at >= Size)
  BY <1>1, <1>2 DEF Places, Size
<1>4. options[o.at] = o.code /\ options[o.at + 1] = m
  <2>1. Stands(options, o)
    BY RowArrived
  <2> QED BY <2>1, <1>1 DEF Stands
<1>5. o.code # 255
  <2>1. o.code \in Code
    BY RowField, Zenon
  <2> QED BY <2>1, CodeIsByte, Zenon
<1>6. Forth(options, o.at) = Behind(o)
  <2>1. o.at + 1 < Size
    BY <1>1, <1>2 DEF Size
  <2> QED BY <2>1, <1>1, <1>2, <1>4 DEF Forth
<1>7. Walk(options, code)[o.at] = Look(options, code, Walk(options, code), o.at)
  BY <1>3, RowBytes, WalkStep
<1> QED BY <1>3, <1>4, <1>5, <1>6, <1>7 DEF Look

LEMMA RowReached ==
    ASSUME NEW p, InRow(p), NEW before \in Buffer, NEW code, NEW f \in 1..Last(p),
           \A g \in 1..Last(p) : g < f => p.fields[g].code # code
    PROVE  find_dhcp_option(Arrived(p, before), code)
                = Walk(Arrived(p, before), code)[p.fields[f].at]
<1> DEFINE W == Walk(Arrived(p, before), code)
<1>1. PICK l \in Nat : Last(p) = l
  BY RowDomain
<1> DEFINE T == {d \in Nat : \A e \in 1..l : e = d + 1 /\ e <= f => W[0] = W[p.fields[e].at]}
<1>2. f \in 1..l
  BY <1>1
<1>3. ASSUME NEW e \in 1..l, NEW h \in 1..l, h = e + 1, h <= f
      PROVE  W[p.fields[e].at] = W[p.fields[h].at]
  <2>1. e < f
    BY <1>2, <1>3
  <2>2. p.fields[e].code # code
    BY <1>1, <2>1
  <2>3. W[p.fields[e].at] = W[Behind(p.fields[e])]
    <3>1. W[p.fields[e].at] = IF p.fields[e].code = code THEN p.fields[e].at + 2
                              ELSE W[Behind(p.fields[e])]
      BY <1>1, RowNext
    <3> QED BY <2>2, <3>1, Zenon
  <2>4. p.fields[h].at = Behind(p.fields[e])
    BY <1>1, <1>3, Zenon DEF InRow
  <2> QED BY <2>3, <2>4, Zenon
<1>4. W[0] = W[p.fields[1].at]
  BY Zenon DEF InRow
<1> HIDE DEF W
<1>5. 0 \in T
  BY <1>4
<1>6. ASSUME NEW d \in T PROVE d + 1 \in T
  <2>1. d \in Nat /\ \A e \in 1..l : e = d + 1 /\ e <= f => W[0] = W[p.fields[e].at]
    OBVIOUS
  <2> HIDE DEF T
  <2>2. ASSUME NEW h \in 1..l, h = (d + 1) + 1, h <= f PROVE W[0] = W[p.fields[h].at]
    <3>1. PICK e \in 1..l : e = d + 1 /\ h = e + 1 /\ e <= f
      BY <1>2, <2>1, <2>2
    <3> QED BY <3>1, <2>1, <2>2, <1>3
  <2> QED BY <2>1, <2>2 DEF T
<1>7. T \subseteq Nat
  OBVIOUS
<1>8. \A d \in T : \A e \in 1..l : e = d + 1 /\ e <= f => W[0] = W[p.fields[e].at]
  OBVIOUS
<1> HIDE DEF T
<1>9. PICK d \in Nat : f = d + 1 /\ f <= f
  BY <1>2
<1>10. d \in T
  BY <1>5, <1>6, <1>7, Induct
<1>11. W[0] = W[p.fields[f].at]
  BY <1>2, <1>8, <1>9, <1>10, Zenon
<1> QED BY <1>11, SearchIsWalk, Zenon DEF W

LEMMA RowFinds ==
    ASSUME NEW p, InRow(p), NEW before \in Buffer, NEW code, NEW f \in 1..Last(p),
           p.fields[f].code = code,
           \A g \in 1..Last(p) : g < f => p.fields[g].code # code
    PROVE  find_dhcp_option(Arrived(p, before), code) = p.fields[f].at + 2
BY RowReached, RowNext

LEMMA RowFindsNone ==
    ASSUME NEW p, InRow(p), NEW before \in Buffer, NEW code,
           \A g \in 1..Last(p) : p.fields[g].code # code
    PROVE  find_dhcp_option(Arrived(p, before), code) = Null
<1> DEFINE l == Last(p)
           W == Walk(Arrived(p, before), code)
<1>1. l \in 1..Last(p) /\ p.end = Behind(p.fields[l])
  <2>1. p.end = Behind(p.fields[l])
    BY Zenon DEF InRow
  <2>2. l \in 1..Last(p)
    BY RowDomain
  <2> QED BY <2>1, <2>2
<1>2. find_dhcp_option(Arrived(p, before), code) = W[p.fields[l].at]
  BY <1>1, RowReached
<1>3. W[p.fields[l].at] = W[p.end]
  BY <1>1, RowNext
<1>4. p.end \in Places
  <2>1. p.end \in Nat /\ p.end < p.sent /\ p.sent <= Size /\ p.sent \in Nat
    BY <1>1, RowEnd
  <2>2. PICK e \in Nat : p.end = e /\ e < 312
    BY <2>1 DEF Size
  <2> QED BY <2>2 DEF Places, Size
<1>5. Arrived(p, before)[p.end] = 255
  BY <1>1, RowArrived
<1>6. W[p.end] = Look(Arrived(p, before), code, W, p.end)
  BY <1>4, RowBytes, WalkStep
<1>7. W[p.end] = Null
  BY <1>5, <1>6 DEF Look
<1> QED BY <1>2, <1>3, <1>7

(* Options one behind the other are read back as they were laid out, whatever   *)
(* their codes, lengths and values and whatever was in the buffer before.       *)
THEOREM RowReadsBack ==
    ASSUME NEW p, InRow(p)
    PROVE  ReadsBack(p)
<1> SUFFICES ASSUME NEW before \in Buffer, NEW code \in 0..254
             PROVE  LET options == Arrived(p, before)
                        at == find_dhcp_option(options, code)
                        named == {f \in DOMAIN p.fields : p.fields[f].code = code}
                        IsAt(f) == \A k \in DOMAIN p.fields[f].value :
                                        options[at + k - 1] = p.fields[f].value[k]
                    IN IF named = {} THEN at = Null ELSE at # Null /\ \E f \in named : IsAt(f)
  BY ZenonT(30) DEF ReadsBack
<1> DEFINE options == Arrived(p, before)
           at == find_dhcp_option(options, code)
           named == {f \in DOMAIN p.fields : p.fields[f].code = code}
<1>1. DOMAIN p.fields = 1..Last(p)
  BY RowDomain
<1>2. CASE named = {}
  <2>1. \A g \in 1..Last(p) : p.fields[g].code # code
    BY <1>1, <1>2
  <2> QED BY <1>2, <2>1, RowFindsNone
<1>3. CASE named # {}
  <2>1. named \in SUBSET Nat
    BY <1>1
  <2>2. PICK f \in named : \A g \in named : f <= g
    BY <1>3, <2>1, Least
  <2>3. f \in 1..Last(p) /\ p.fields[f].code = code
    BY <1>1, <2>2
  <2>4. \A g \in 1..Last(p) : g < f => p.fields[g].code # code
    BY <1>1, <2>2
  <2>5. at = p.fields[f].at + 2
    BY <2>3, <2>4, RowFinds
  <2>6. p.fields[f].at \in Nat /\ DOMAIN p.fields[f].value = 1..Len(p.fields[f].value)
    <3>1. p.fields[f].value \in Seq(Byte)
      BY <2>3, RowValue, Zenon
    <3>2. DOMAIN p.fields[f].value = 1..Len(p.fields[f].value)
      BY <3>1
    <3> QED BY <2>3, <3>2, RowField, Zenon
  <2>7. at # Null
    BY <2>5, <2>6 DEF Null
  <2>8. \A k \in DOMAIN p.fields[f].value : options[at + k - 1] = p.fields[f].value[k]
    <3>1. Stands(options, p.fields[f])
      BY <2>3, RowArrived
    <3> HIDE DEF at, named, options
    <3> QED BY <3>1, <2>5, <2>6 DEF Stands
  <2> HIDE DEF at, named, options
  <2>9. at # Null /\ \E e \in named : \A k \in DOMAIN p.fields[e].value :
                        options[at + k - 1] = p.fields[e].value[k]
    BY <2>2, <2>7, <2>8
  <2> QED BY <1>3, <2>9 DEF at, named, options
<1> QED BY <1>2, <1>3, SMTT(30)

-----------------------------------------------------------------------------
(* Every packet of client and server is such a row. *)
LEMMA WordBytes ==
    ASSUME NEW word \in Words
    PROVE  word \in Seq(Byte) /\ Len(word) = 4 /\ Turned(word) \in Words
<1>1. word = [i \in 1..4 |-> word[i]] /\ \A i \in 1..4 : word[i] \in Byte
  BY DEF Words
<1>2. [i \in 1..4 |-> word[i]] \in Seq(Byte) /\ Len([i \in 1..4 |-> word[i]]) = 4
  BY <1>1
<1>3. Turned(word) \in Words
  BY DEF Words, Turned
<1> QED BY <1>1, <1>2, <1>3

LEMMA LettersBytes ==
    ASSUME NEW n \in Nat
    PROVE  Letters(n) \in Seq(Byte) /\ Len(Letters(n)) = n
BY DEF Letters, Byte

LEMMA BroadcastIsByte ==
    ASSUME NEW n \in Byte, NEW mask \in Byte
    PROVE  BroadcastByte(n, mask) \in Byte
<1> DEFINE bit(weight) == IF Bit(mask, weight) = 1 THEN weight * Bit(n, weight) ELSE weight
<1>1. ASSUME NEW w \in {1, 2, 4, 8, 16, 32, 64, 128} PROVE bit(w) \in 0..w
  <2>1. Bit(n, w) \in 0..1
    BY DEF Bit, Byte
  <2>2. Bit(n, w) = 0 \/ Bit(n, w) = 1
    BY <2>1
  <2>3. w * 0 = 0 /\ w * 1 = w
    OBVIOUS
  <2>4. bit(w) = 0 \/ bit(w) = w
    BY <2>2, <2>3
  <2> QED BY <2>4
<1>2. /\ bit(1) \in 0..1 /\ bit(2) \in 0..2 /\ bit(4) \in 0..4 /\ bit(8) \in 0..8
      /\ bit(16) \in 0..16 /\ bit(32) \in 0..32 /\ bit(64) \in 0..64 /\ bit(128) \in 0..128
  BY <1>1
<1>3. BroadcastByte(n, mask)
        = bit(1) + bit(2) + bit(4) + bit(8) + bit(16) + bit(32) + bit(64) + bit(128)
  BY DEF BroadcastByte
<1> HIDE DEF bit
<1>4. PICK b1 \in 0..1 : bit(1) = b1
  BY <1>2
<1>5. PICK b2 \in 0..2 : bit(2) = b2
  BY <1>2
<1>6. PICK b4 \in 0..4 : bit(4) = b4
  BY <1>2
<1>7. PICK b8 \in 0..8 : bit(8) = b8
  BY <1>2
<1>8. PICK b16 \in 0..16 : bit(16) = b16
  BY <1>2
<1>9. PICK b32 \in 0..32 : bit(32) = b32
  BY <1>2
<1>10. PICK b64 \in 0..64 : bit(64) = b64
  BY <1>2
<1>11. PICK b128 \in 0..128 : bit(128) = b128
  BY <1>2
<1>12. BroadcastByte(n, mask) = b1 + b2 + b4 + b8 + b16 + b32 + b64 + b128
  BY <1>3, <1>4, <1>5, <1>6, <1>7, <1>8, <1>9, <1>10, <1>11
<1>13. b1 + b2 + b4 + b8 + b16 + b32 + b64 + b128 \in 0..255
  OBVIOUS
<1> QED BY <1>12, <1>13 DEF Byte

LEMMA BroadcastBytes ==
    ASSUME NEW ip \in Words
    PROVE  broadcast_addr(ip) \in Words
<1>1. Turned(ip) \in Words /\ subnet_mask \in Words
  BY WordBytes, OptionsAssumption
<1>2. \A i \in 1..4 : Turned(ip)[i] \in Byte /\ subnet_mask[i] \in Byte
  BY <1>1 DEF Words
<1> QED BY <1>2, BroadcastIsByte DEF broadcast_addr, Words

(* Option o begins at byte at and its value has length bytes. *)
Fits(o, at, length) == o \in Field /\ o.at = at /\ Len(o.value) = length

LEMMA ShortLengths == {1, 3, 4, 10, 11} \subseteq Byte
BY DEF Byte

LEMMA AnswerInRow ==
    ASSUME NEW type \in {OFFER, ACK}, NEW ip \in Words
    PROVE  InRow(Answer(type, ip))
<1> DEFINE list == <<1, 3, 6, 12, 15, 28, 42, 51, 54, 119>>
           ntp == <<192, 168, 1, 2>>
           broadcast == broadcast_addr(ip)
           lease == Word(default_lease_time)
           o1 == Option(0, 53, <<type>>)
           o2 == Option(3, 54, Turned(server_ip))
           o3 == Option(9, 51, Turned(lease))
           o4 == Option(15, 1, Turned(subnet_mask))
           o5 == Option(21, 3, Turned(gateway_ip))
           o6 == Option(27, 6, Turned(dns_server_ip))
           o7 == Option(33, 12, Letters(10))
           o8 == Option(45, 15, Letters(11))
           o9 == Option(58, 55, list)
           o10 == Option(70, 28, Turned(broadcast))
           o11 == Option(76, 42, ntp)
           p == Answer(type, ip)
<1>1. /\ p.fields = <<o1, o2, o3, o4, o5, o6, o7, o8, o9, o10, o11>>
      /\ p.end = 82 /\ p.sent = Size
  BY DEF Answer, AnswerFields, Pack
<1>2. <<type>> \in Seq(Byte) /\ Len(<<type>>) = 1
  BY DEF OFFER, ACK, Byte
<1>3. list \in Seq(Byte) /\ Len(list) = 10
  BY DEF Byte
<1>4. ntp \in Seq(Byte) /\ Len(ntp) = 4
  BY DEF Byte
<1>5. /\ server_ip \in Words /\ lease \in Words /\ subnet_mask \in Words
      /\ gateway_ip \in Words /\ dns_server_ip \in Words /\ broadcast \in Words
  BY OptionsAssumption, BroadcastBytes
<1> HIDE DEF list, ntp, broadcast, lease, p
<1>6. ASSUME NEW word \in Words PROVE Turned(word) \in Seq(Byte) /\ Len(Turned(word)) = 4
  BY WordBytes
<1>7. Fits(o1, 0, 1)
  BY <1>2 DEF Fits, Field, Code, Option
<1>8. Fits(o2, 3, 4) /\ Fits(o3, 9, 4) /\ Fits(o4, 15, 4)
  BY <1>5, <1>6 DEF Fits, Field, Code, Option
<1>9. Fits(o5, 21, 4) /\ Fits(o6, 27, 4) /\ Fits(o10, 70, 4)
  BY <1>5, <1>6 DEF Fits, Field, Code, Option
<1>10. Fits(o7, 33, 10) /\ Fits(o8, 45, 11)
  <2>1. /\ Letters(10) \in Seq(Byte) /\ Len(Letters(10)) = 10
        /\ Letters(11) \in Seq(Byte) /\ Len(Letters(11)) = 11
    BY DEF Letters, Byte
  <2> QED BY <2>1 DEF Fits, Field, Code, Option
<1>11. Fits(o9, 58, 10) /\ Fits(o11, 76, 4)
  BY <1>3, <1>4 DEF Fits, Field, Code, Option
<1> HIDE DEF o1, o2, o3, o4, o5, o6, o7, o8, o9, o10, o11
<1>12. /\ o1 \in Field /\ o2 \in Field /\ o3 \in Field /\ o4 \in Field /\ o5 \in Field
       /\ o6 \in Field /\ o7 \in Field /\ o8 \in Field /\ o9 \in Field /\ o10 \in Field
       /\ o11 \in Field
  BY <1>7, <1>8, <1>9, <1>10, <1>11 DEF Fits
<1>13. p.fields \in Seq(Field) /\ Last(p) = 11
  BY <1>1, <1>12 DEF Last
<1>14. /\ p.fields[1] = o1 /\ p.fields[2] = o2 /\ p.fields[3] = o3 /\ p.fields[4] = o4
       /\ p.fields[5] = o5 /\ p.fields[6] = o6 /\ p.fields[7] = o7 /\ p.fields[8] = o8
       /\ p.fields[9] = o9 /\ p.fields[10] = o10 /\ p.fields[11] = o11
  BY <1>1
<1>15. /\ o1.at = 0 /\ o2.at = 3 /\ o3.at = 9 /\ o4.at = 15 /\ o5.at = 21 /\ o6.at = 27
       /\ o7.at = 33 /\ o8.at = 45 /\ o9.at = 58 /\ o10.at = 70 /\ o11.at = 76
       /\ Len(o1.value) = 1 /\ Len(o2.value) = 4 /\ Len(o3.value) = 4 /\ Len(o4.value) = 4
       /\ Len(o5.value) = 4 /\ Len(o6.value) = 4 /\ Len(o7.value) = 10 /\ Len(o8.value) = 11
       /\ Len(o9.value) = 10 /\ Len(o10.value) = 4 /\ Len(o11.value) = 4
  BY <1>7, <1>8, <1>9, <1>10, <1>11 DEF Fits
<1>16. /\ Behind(o1) = 3 /\ Behind(o2) = 9 /\ Behind(o3) = 15 /\ Behind(o4) = 21
       /\ Behind(o5) = 27 /\ Behind(o6) = 33 /\ Behind(o7) = 45 /\ Behind(o8) = 58
       /\ Behind(o9) = 70 /\ Behind(o10) = 76 /\ Behind(o11) = 82
  BY <1>15, SMTT(30) DEF Behind
<1>17. ASSUME NEW f \in 1..11 PROVE Len(p.fields[f].value) \in Byte
  <2>1. \/ f = 1 \/ f = 2 \/ f = 3 \/ f = 4 \/ f = 5 \/ f = 6 \/ f = 7 \/ f = 8
        \/ f = 9 \/ f = 10 \/ f = 11
    OBVIOUS
  <2>2. Len(p.fields[f].value) \in {1, 3, 4, 10, 11}
    BY <2>1, <1>14, <1>15
  <2> QED BY <2>2, ShortLengths, Zenon
<1>18. ASSUME NEW f \in 1..11, f + 1 \in 1..11 PROVE p.fields[f + 1].at = Behind(p.fields[f])
  <2>1. f = 1 \/ f = 2 \/ f = 3 \/ f = 4 \/ f = 5 \/ f = 6 \/ f = 7 \/ f = 8 \/ f = 9 \/ f = 10
    BY <1>18
  <2> QED BY <2>1, <1>14, <1>15, <1>16
<1>19. p.fields[1].at = 0 /\ p.end = Behind(p.fields[Last(p)])
  BY <1>1, <1>13, <1>14, <1>15, <1>16
<1>20. p.sent \in Nat /\ p.end < p.sent /\ p.sent <= Size
  BY <1>1 DEF Size
<1>21. 1..Last(p) = 1..11 /\ Last(p) \in Nat \ {0}
  BY <1>13
<1>22. \A f \in 1..Last(p) : Len(p.fields[f].value) \in Byte
  BY <1>17, <1>21, Zenon
<1>23. ASSUME NEW f \in 1..Last(p), f + 1 \in 1..Last(p)
       PROVE  p.fields[f + 1].at = Behind(p.fields[f])
  <2>1. f \in 1..11 /\ f + 1 \in 1..11
    BY <1>21, <1>23
  <2> QED BY <2>1, <1>18
<1>24. InRow(p)
  BY <1>13, <1>19, <1>20, <1>21, <1>22, <1>23, Zenon DEF InRow
<1> QED BY <1>24 DEF p

(* The short packets: the same, with two to four options. *)
LEMMA NakInRow == InRow(Pack(NakFields, 9, 10))
<1> DEFINE o1 == Option(0, 53, <<NAK>>)
           o2 == Option(3, 54, server_ip)
           p == Pack(NakFields, 9, 10)
<1>1. p.fields = <<o1, o2>> /\ p.end = 9 /\ p.sent = 10
  BY DEF NakFields, Pack
<1>2. /\ <<NAK>> \in Seq(Byte) /\ Len(<<NAK>>) = 1
      /\ server_ip \in Seq(Byte) /\ Len(server_ip) = 4
  BY OptionsAssumption, WordBytes DEF NAK, Byte
<1> HIDE DEF p
<1>3. Fits(o1, 0, 1) /\ Fits(o2, 3, 4)
  BY <1>2 DEF Fits, Field, Code, Option
<1> HIDE DEF o1, o2
<1>4. o1 \in Field /\ o2 \in Field
  BY <1>3 DEF Fits
<1>5. p.fields \in Seq(Field) /\ Last(p) = 2 /\ p.fields[1] = o1 /\ p.fields[2] = o2
  BY <1>1, <1>4 DEF Last
<1>6. /\ o1.at = 0 /\ o2.at = 3 /\ Len(o1.value) = 1 /\ Len(o2.value) = 4
      /\ Behind(o1) = 3 /\ Behind(o2) = 9
  BY <1>3 DEF Fits, Behind
<1>7. 1..Last(p) = {1, 2} /\ Last(p) \in Nat \ {0}
  BY <1>5, SMTT(30)
<1>8. ASSUME NEW f \in 1..Last(p) PROVE Len(p.fields[f].value) \in Byte
  <2>1. f = 1 \/ f = 2
    BY <1>7
  <2>2. Len(p.fields[f].value) \in {1, 3, 4, 10, 11}
    BY <2>1, <1>5, <1>6
  <2> QED BY <2>2, ShortLengths, Zenon
<1>9. ASSUME NEW f \in 1..Last(p), f + 1 \in 1..Last(p)
      PROVE  p.fields[f + 1].at = Behind(p.fields[f])
  <2>1. f = 1
    BY <1>7, <1>9
  <2> QED BY <2>1, <1>5, <1>6
<1>10. /\ p.fields[1].at = 0 /\ p.end = Behind(p.fields[Last(p)])
       /\ p.sent \in Nat /\ p.end < p.sent /\ p.sent <= Size
  BY <1>1, <1>5, <1>6 DEF Size
<1>11. InRow(p)
  BY <1>5, <1>7, <1>8, <1>9, <1>10, Zenon DEF InRow
<1> QED BY <1>11 DEF p

LEMMA DiscoverInRow == InRow(Pack(DiscoverFields, 8, 9))
<1> DEFINE o1 == Option(0, 53, <<DISCOVER>>)
           o2 == Option(3, 55, <<1, 3, 6>>)
           p == Pack(DiscoverFields, 8, 9)
<1>1. p.fields = <<o1, o2>> /\ p.end = 8 /\ p.sent = 9
  BY DEF DiscoverFields, Pack
<1>2. /\ <<DISCOVER>> \in Seq(Byte) /\ Len(<<DISCOVER>>) = 1
      /\ <<1, 3, 6>> \in Seq(Byte) /\ Len(<<1, 3, 6>>) = 3
  BY DEF DISCOVER, Byte
<1> HIDE DEF p
<1>3. Fits(o1, 0, 1) /\ Fits(o2, 3, 3)
  BY <1>2 DEF Fits, Field, Code, Option
<1> HIDE DEF o1, o2
<1>4. o1 \in Field /\ o2 \in Field
  BY <1>3 DEF Fits
<1>5. /\ p.fields \in Seq(Field) /\ Last(p) = 2
      /\ p.fields[1] = o1 /\ p.fields[2] = o2
  BY <1>1, <1>4 DEF Last
<1>6. /\ o1.at = 0 /\ o2.at = 3
      /\ Len(o1.value) = 1 /\ Len(o2.value) = 3
      /\ Behind(o1) = 3 /\ Behind(o2) = 8
  BY <1>3 DEF Fits, Behind
<1>7. 1..Last(p) = {1, 2} /\ Last(p) \in Nat \ {0}
  BY <1>5, SMTT(30)
<1>8. ASSUME NEW f \in 1..Last(p) PROVE Len(p.fields[f].value) \in Byte
  <2>1. f = 1 \/ f = 2
    BY <1>7
  <2>2. Len(p.fields[f].value) \in {1, 3, 4, 10, 11}
    BY <2>1, <1>5, <1>6
  <2> QED BY <2>2, ShortLengths, Zenon
<1>9. ASSUME NEW f \in 1..Last(p), f + 1 \in 1..Last(p)
      PROVE  p.fields[f + 1].at = Behind(p.fields[f])
  <2>1. f = 1
    BY <1>7, <1>9
  <2> QED BY <2>1, <1>5, <1>6
<1>10. /\ p.fields[1].at = 0 /\ p.end = Behind(p.fields[Last(p)])
       /\ p.sent \in Nat /\ p.end < p.sent /\ p.sent <= Size
  BY <1>1, <1>5, <1>6 DEF Size
<1>11. InRow(p)
  BY <1>5, <1>7, <1>8, <1>9, <1>10, Zenon DEF InRow
<1> QED BY <1>11 DEF p

LEMMA RequestInRow ==
    ASSUME NEW ip \in Words, NEW to \in Words
    PROVE  InRow(Pack(RequestFields(ip, to), 20, 21))
<1> DEFINE o1 == Option(0, 53, <<REQUEST>>)
           o2 == Option(3, 50, ip)
           o3 == Option(9, 54, to)
           o4 == Option(15, 55, <<1, 3, 6>>)
           p == Pack(RequestFields(ip, to), 20, 21)
<1>1. p.fields = <<o1, o2, o3, o4>> /\ p.end = 20 /\ p.sent = 21
  BY DEF RequestFields, Pack
<1>2. /\ <<REQUEST>> \in Seq(Byte) /\ Len(<<REQUEST>>) = 1
      /\ ip \in Seq(Byte) /\ Len(ip) = 4
      /\ to \in Seq(Byte) /\ Len(to) = 4
      /\ <<1, 3, 6>> \in Seq(Byte) /\ Len(<<1, 3, 6>>) = 3
  BY WordBytes DEF REQUEST, Byte
<1> HIDE DEF p
<1>3. Fits(o1, 0, 1) /\ Fits(o2, 3, 4) /\ Fits(o3, 9, 4) /\ Fits(o4, 15, 3)
  BY <1>2 DEF Fits, Field, Code, Option
<1> HIDE DEF o1, o2, o3, o4
<1>4. o1 \in Field /\ o2 \in Field /\ o3 \in Field /\ o4 \in Field
  BY <1>3 DEF Fits
<1>5. /\ p.fields \in Seq(Field) /\ Last(p) = 4
      /\ p.fields[1] = o1 /\ p.fields[2] = o2 /\ p.fields[3] = o3 /\ p.fields[4] = o4
  BY <1>1, <1>4 DEF Last
<1>6. /\ o1.at = 0 /\ o2.at = 3 /\ o3.at = 9 /\ o4.at = 15
      /\ Len(o1.value) = 1 /\ Len(o2.value) = 4 /\ Len(o3.value) = 4 /\ Len(o4.value) = 3
      /\ Behind(o1) = 3 /\ Behind(o2) = 9 /\ Behind(o3) = 15 /\ Behind(o4) = 20
  BY <1>3 DEF Fits, Behind
<1>7. 1..Last(p) = {1, 2, 3, 4} /\ Last(p) \in Nat \ {0}
  BY <1>5, SMTT(30)
<1>8. ASSUME NEW f \in 1..Last(p) PROVE Len(p.fields[f].value) \in Byte
  <2>1. f = 1 \/ f = 2 \/ f = 3 \/ f = 4
    BY <1>7
  <2>2. Len(p.fields[f].value) \in {1, 3, 4, 10, 11}
    BY <2>1, <1>5, <1>6
  <2> QED BY <2>2, ShortLengths, Zenon
<1>9. ASSUME NEW f \in 1..Last(p), f + 1 \in 1..Last(p)
      PROVE  p.fields[f + 1].at = Behind(p.fields[f])
  <2>1. f = 1 \/ f = 2 \/ f = 3
    BY <1>7, <1>9
  <2> QED BY <2>1, <1>5, <1>6
<1>10. /\ p.fields[1].at = 0 /\ p.end = Behind(p.fields[Last(p)])
       /\ p.sent \in Nat /\ p.end < p.sent /\ p.sent <= Size
  BY <1>1, <1>5, <1>6, SMTT(30) DEF Size
<1>11. InRow(p)
  BY <1>5, <1>7, <1>8, <1>9, <1>10, Zenon DEF InRow
<1> QED BY <1>11 DEF p

LEMMA DeclineInRow ==
    ASSUME NEW ip \in Words, NEW to \in Words
    PROVE  InRow(Pack(DeclineFields(ip, to), 15, 16))
<1> DEFINE o1 == Option(0, 53, <<DECLINE>>)
           o2 == Option(3, 50, ip)
           o3 == Option(9, 54, to)
           p == Pack(DeclineFields(ip, to), 15, 16)
<1>1. p.fields = <<o1, o2, o3>> /\ p.end = 15 /\ p.sent = 16
  BY DEF DeclineFields, Pack
<1>2. /\ <<DECLINE>> \in Seq(Byte) /\ Len(<<DECLINE>>) = 1
      /\ ip \in Seq(Byte) /\ Len(ip) = 4
      /\ to \in Seq(Byte) /\ Len(to) = 4
  BY WordBytes DEF DECLINE, Byte
<1> HIDE DEF p
<1>3. Fits(o1, 0, 1) /\ Fits(o2, 3, 4) /\ Fits(o3, 9, 4)
  BY <1>2 DEF Fits, Field, Code, Option
<1> HIDE DEF o1, o2, o3
<1>4. o1 \in Field /\ o2 \in Field /\ o3 \in Field
  BY <1>3 DEF Fits
<1>5. /\ p.fields \in Seq(Field) /\ Last(p) = 3
      /\ p.fields[1] = o1 /\ p.fields[2] = o2 /\ p.fields[3] = o3
  BY <1>1, <1>4 DEF Last
<1>6. /\ o1.at = 0 /\ o2.at = 3 /\ o3.at = 9
      /\ Len(o1.value) = 1 /\ Len(o2.value) = 4 /\ Len(o3.value) = 4
      /\ Behind(o1) = 3 /\ Behind(o2) = 9 /\ Behind(o3) = 15
  BY <1>3 DEF Fits, Behind
<1>7. 1..Last(p) = {1, 2, 3} /\ Last(p) \in Nat \ {0}
  BY <1>5, SMTT(30)
<1>8. ASSUME NEW f \in 1..Last(p) PROVE Len(p.fields[f].value) \in Byte
  <2>1. f = 1 \/ f = 2 \/ f = 3
    BY <1>7
  <2>2. Len(p.fields[f].value) \in {1, 3, 4, 10, 11}
    BY <2>1, <1>5, <1>6
  <2> QED BY <2>2, ShortLengths, Zenon
<1>9. ASSUME NEW f \in 1..Last(p), f + 1 \in 1..Last(p)
      PROVE  p.fields[f + 1].at = Behind(p.fields[f])
  <2>1. f = 1 \/ f = 2
    BY <1>7, <1>9
  <2> QED BY <2>1, <1>5, <1>6
<1>10. /\ p.fields[1].at = 0 /\ p.end = Behind(p.fields[Last(p)])
       /\ p.sent \in Nat /\ p.end < p.sent /\ p.sent <= Size
  BY <1>1, <1>5, <1>6, SMTT(30) DEF Size
<1>11. InRow(p)
  BY <1>5, <1>7, <1>8, <1>9, <1>10, Zenon DEF InRow
<1> QED BY <1>11 DEF p

LEMMA ReleaseInRow == InRow(Pack(ReleaseFields, 3, 4))
<1> DEFINE o1 == Option(0, 53, <<RELEASE>>)
           p == Pack(ReleaseFields, 3, 4)
<1>1. p.fields = <<o1>> /\ p.end = 3 /\ p.sent = 4
  BY DEF ReleaseFields, Pack
<1>2. <<RELEASE>> \in Seq(Byte) /\ Len(<<RELEASE>>) = 1
  BY DEF RELEASE, Byte
<1> HIDE DEF p
<1>3. Fits(o1, 0, 1)
  BY <1>2 DEF Fits, Field, Code, Option
<1> HIDE DEF o1
<1>4. o1 \in Field
  BY <1>3 DEF Fits
<1>5. /\ p.fields \in Seq(Field) /\ Last(p) = 1
      /\ p.fields[1] = o1
  BY <1>1, <1>4 DEF Last
<1>6. /\ o1.at = 0
      /\ Len(o1.value) = 1
      /\ Behind(o1) = 3
  BY <1>3 DEF Fits, Behind
<1>7. 1..Last(p) = {1} /\ Last(p) \in Nat \ {0}
  BY <1>5, SMTT(30)
<1>8. ASSUME NEW f \in 1..Last(p) PROVE Len(p.fields[f].value) \in Byte
  <2>1. f = 1
    BY <1>7
  <2>2. Len(p.fields[f].value) \in {1, 3, 4, 10, 11}
    BY <2>1, <1>5, <1>6
  <2> QED BY <2>2, ShortLengths, Zenon
<1>9. ASSUME NEW f \in 1..Last(p), f + 1 \in 1..Last(p)
      PROVE  p.fields[f + 1].at = Behind(p.fields[f])
  BY <1>7, <1>9
<1>10. /\ p.fields[1].at = 0 /\ p.end = Behind(p.fields[Last(p)])
       /\ p.sent \in Nat /\ p.end < p.sent /\ p.sent <= Size
  BY <1>1, <1>5, <1>6 DEF Size
<1>11. InRow(p)
  BY <1>5, <1>7, <1>8, <1>9, <1>10 DEF InRow
<1> QED BY <1>11 DEF p

-----------------------------------------------------------------------------
(* The packets of the program are read back whatever was in the buffer before:  *)
(* for all addresses, leases and masks the server is given.                     *)
LEMMA ClientPacketReadsBack ==
    ASSUME NEW type \in {"DISCOVER", "REQUEST", "DECLINE", "RELEASE"},
           NEW ip \in Words, NEW to \in Words
    PROVE  ReadsBack(ClientPacket(type, ip, to))
<1>1. CASE type = "DISCOVER"
  <2>1. ClientPacket(type, ip, to) = Pack(DiscoverFields, 8, 9)
    BY <1>1 DEF ClientPacket
  <2> QED BY <2>1, DiscoverInRow, RowReadsBack
<1>2. CASE type = "REQUEST"
  <2>1. ClientPacket(type, ip, to) = Pack(RequestFields(ip, to), 20, 21)
    BY <1>2 DEF ClientPacket
  <2> QED BY <2>1, RequestInRow, RowReadsBack
<1>3. CASE type = "DECLINE"
  <2>1. ClientPacket(type, ip, to) = Pack(DeclineFields(ip, to), 15, 16)
    BY <1>3 DEF ClientPacket
  <2> QED BY <2>1, DeclineInRow, RowReadsBack
<1>4. CASE type = "RELEASE"
  <2>1. ClientPacket(type, ip, to) = Pack(ReleaseFields, 3, 4)
    BY <1>4 DEF ClientPacket
  <2> QED BY <2>1, ReleaseInRow, RowReadsBack
<1> QED BY <1>1, <1>2, <1>3, <1>4

LEMMA ServerPacketReadsBack ==
    ASSUME NEW ip \in Words, NEW p \in ServerPackets(ip)
    PROVE  ReadsBack(p)
<1>1. \/ p = Answer(OFFER, ip) \/ p = Answer(ACK, ip) \/ p = Pack(NakFields, 9, 10)
  BY DEF ServerPackets
<1> QED BY <1>1, AnswerInRow, NakInRow, RowReadsBack

(* Every packet a client has under way and every answer it waits for reads back *)
(* as it was laid out, for any configuration, addresses and buffers             *)
(* (find_dhcp_option on what send_dhcp_options and the client's packets write). *)
THEOREM PacketsAlwaysReadBack == ClientSpec => []PacketsReadBack
<1>1. ClientTypeOK => PacketsReadBack
  <2> SUFFICES ASSUME ClientTypeOK PROVE PacketsReadBack
    OBVIOUS
  <2>1. \A ip \in Ip \cup {NoIp} : wire[ip] \in Words
    BY PacketsAssumption
  <2>2. ASSUME NEW m \in toServer PROVE OfClient[m.type][m.ip]
    <3>1. m.type \in {"DISCOVER", "REQUEST", "DECLINE", "RELEASE"} /\ m.ip \in Ip \cup {NoIp}
      BY DEF ClientTypeOK, Packet
    <3>2. \A to \in Identifier : ReadsBack(ClientPacket(m.type, wire[m.ip], to))
      BY <3>1, <2>1, ClientPacketReadsBack, PacketsAssumption
    <3> QED BY <3>1, <3>2 DEF OfClient
  <2>3. ASSUME NEW ip \in Ip PROVE OfServer[ip]
    BY <2>1, ServerPacketReadsBack DEF OfServer
  <2> QED BY <2>2, <2>3 DEF PacketsReadBack
<1> QED BY <1>1, TypeCorrect, PTL

-----------------------------------------------------------------------------
(* What handle_dhcp_ack reads of an ACK. *)
LEMMA RowAddress ==
    ASSUME NEW p, InRow(p), NEW before \in Buffer, NEW code, NEW f \in 1..Last(p),
           p.fields[f].code = code, p.fields[f].value \in Words,
           \A g \in 1..Last(p) : g < f => p.fields[g].code # code
    PROVE  /\ find_dhcp_option(Arrived(p, before), code) # Null
           /\ Read4(Arrived(p, before), find_dhcp_option(Arrived(p, before), code))
                = p.fields[f].value
<1> DEFINE options == Arrived(p, before)
           at == find_dhcp_option(options, code)
           value == p.fields[f].value
<1>1. at = p.fields[f].at + 2 /\ p.fields[f].at \in Nat
  <2>1. at = p.fields[f].at + 2
    BY RowFinds, SMTT(30)
  <2>2. p.fields[f].at \in Nat
    BY RowField
  <2> QED BY <2>1, <2>2
<1>2. Stands(options, p.fields[f])
  BY RowArrived
<1>3. Len(value) = 4 /\ value = [k \in 1..4 |-> value[k]]
  BY WordBytes DEF Words
<1> HIDE DEF options, at, value
<1>4. \A k \in 1..4 : options[at + k - 1] = value[k]
  BY <1>1, <1>2, <1>3 DEF Stands, value
<1>5. Read4(options, at) = value
  BY <1>3, <1>4 DEF Read4
<1>6. at # Null
  BY <1>1 DEF Null
<1> QED BY <1>5, <1>6 DEF options, at, value

LEMMA TurnedTwice ==
    ASSUME NEW word \in Words
    PROVE  Turned(Turned(word)) = word
BY DEF Turned, Words

LEMMA NumberOfWord ==
    ASSUME NEW n \in Nat
    PROVE  Number(Word(n)) = n
BY SMTT(60) DEF Number, Word

(* An ACK of the server brings the client the lease the server was given, and   *)
(* its mask, gateway and name server with their bytes in the opposite order     *)
(* (handle_dhcp_ack turns only the lease back), whatever was in its buffer.     *)
THEOREM AckRead ==
    ASSUME NEW ip \in Words, NEW before \in Buffer
    PROVE  LET options == Arrived(Answer(ACK, ip), before)
           IN /\ LeaseRead(options) = default_lease_time
              /\ InfoRead(options) = [mask |-> Turned(subnet_mask), router |-> Turned(gateway_ip),
                                      dns |-> Turned(dns_server_ip)]
<1> DEFINE p == Answer(ACK, ip)
           options == Arrived(p, before)
<1>1. InRow(p)
  BY AnswerInRow
<1>2. /\ p.fields[1].code = 53 /\ p.fields[2].code = 54 /\ p.fields[3].code = 51
      /\ p.fields[4].code = 1 /\ p.fields[5].code = 3 /\ p.fields[6].code = 6
      /\ p.fields[3].value = Turned(Word(default_lease_time))
      /\ p.fields[4].value = Turned(subnet_mask) /\ p.fields[5].value = Turned(gateway_ip)
      /\ p.fields[6].value = Turned(dns_server_ip) /\ Last(p) = 11
  BY DEF Answer, AnswerFields, Pack, Option, Last
<1>3. /\ Word(default_lease_time) \in Words /\ default_lease_time \in Nat
      /\ subnet_mask \in Words /\ gateway_ip \in Words /\ dns_server_ip \in Words
  BY OptionsAssumption
<1>4. /\ p.fields[3].value \in Words /\ p.fields[4].value \in Words
      /\ p.fields[5].value \in Words /\ p.fields[6].value \in Words
  BY <1>2, <1>3, WordBytes
<1> HIDE DEF p, options
<1>5. /\ \A g \in 1..Last(p) : g < 3 => p.fields[g].code # 51
      /\ \A g \in 1..Last(p) : g < 4 => p.fields[g].code # 1
      /\ \A g \in 1..Last(p) : g < 5 => p.fields[g].code # 3
      /\ \A g \in 1..Last(p) : g < 6 => p.fields[g].code # 6
  BY <1>2
<1>6. 3 \in 1..Last(p) /\ 4 \in 1..Last(p) /\ 5 \in 1..Last(p) /\ 6 \in 1..Last(p)
  BY <1>2
<1>7. LeaseRead(options) = Number(Turned(p.fields[3].value))
  BY <1>1, <1>2, <1>4, <1>5, <1>6, RowAddress DEF LeaseRead, options
<1>8. Address(options, 1) = p.fields[4].value
  BY <1>1, <1>2, <1>4, <1>5, <1>6, RowAddress DEF Address, options
<1>9. Address(options, 3) = p.fields[5].value
  BY <1>1, <1>2, <1>4, <1>5, <1>6, RowAddress DEF Address, options
<1>10. Address(options, 6) = p.fields[6].value
  BY <1>1, <1>2, <1>4, <1>5, <1>6, RowAddress DEF Address, options
<1>11. LeaseRead(options) = default_lease_time
  BY <1>2, <1>3, <1>7, TurnedTwice, NumberOfWord
<1> QED BY <1>2, <1>8, <1>9, <1>10, <1>11 DEF InfoRead, options, p
=============================================================================

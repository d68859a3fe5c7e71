--------------------------- MODULE DhcpRelayProofs ---------------------------
(***************************************************************************)
(* The relay, for every number of clients and transaction numbers and      *)
(* every size of its table: each transaction is kept once and in its       *)
(* bucket, packets reach only clients that used their number, and without  *)
(* repetition requests and replies are told apart.                         *)
(***************************************************************************)
EXTENDS DhcpRelay, SequenceTheorems, TLAPS

LEMMA HashInBucket == \A x \in Xid : hash_xid(x) \in Bucket
BY RelayAssumption DEF hash_xid, Bucket

(* A transaction put in front of a chain. *)
LEMMA InFront ==
    ASSUME NEW S, NEW r \in S, NEW s \in Seq(S)
    PROVE  /\ <<r>> \o s \in Seq(S)
           /\ Len(<<r>> \o s) = Len(s) + 1
           /\ \A k \in 1..(Len(s) + 1) : (<<r>> \o s)[k] = IF k = 1 THEN r ELSE s[k - 1]
OBVIOUS

(* A chain without its i-th transaction. *)
LEMMA WithoutFacts ==
    ASSUME NEW S, NEW s \in Seq(S), NEW i \in DOMAIN s
    PROVE  /\ Without(s, i) \in Seq(S)
           /\ Len(Without(s, i)) = Len(s) - 1
           /\ \A k \in 1..(Len(s) - 1) : Without(s, i)[k] = IF k < i THEN s[k] ELSE s[k + 1]
  <1> DEFINE before == SubSeq(s, 1, i - 1)
             after == SubSeq(s, i + 1, Len(s))
  <1>1. i \in 1..Len(s) /\ Len(s) \in Nat
    OBVIOUS
  <1>2. /\ before \in Seq(S) /\ Len(before) = i - 1
        /\ \A k \in 1..(i - 1) : before[k] = s[k]
    BY <1>1
  <1>3. /\ after \in Seq(S) /\ Len(after) = Len(s) - i
        /\ \A k \in 1..(Len(s) - i) : after[k] = s[k + i]
    BY <1>1
  <1>4. Without(s, i) = before \o after
    BY DEF Without
  <1> HIDE DEF before, after
  <1>5. Without(s, i) \in Seq(S) /\ Len(Without(s, i)) = Len(s) - 1
    BY <1>1, <1>2, <1>3, <1>4
  <1>6. ASSUME NEW k \in 1..(Len(s) - 1)
        PROVE  Without(s, i)[k] = IF k < i THEN s[k] ELSE s[k + 1]
    <2>1. CASE k < i
      <3>1. k \in 1..(i - 1)
        BY <1>1, <2>1
      <3> QED BY <1>2, <1>3, <1>4, <2>1, <3>1
    <2>2. CASE ~(k < i)
      <3>1. /\ k \in Int /\ i \in Int /\ Len(s) \in Int
            /\ 1 <= i /\ i <= k /\ k <= Len(s) - 1
        BY <1>1, <2>2
      <3> DEFINE m == k - (i - 1)
      <3>2. m \in 1..(Len(s) - i) /\ k = m + (i - 1) /\ m + i = k + 1
        BY <3>1
      <3>3. k \in 1..(Len(before) + Len(after)) /\ k > Len(before)
        BY <1>2, <1>3, <3>1
      <3> HIDE DEF m
      <3>4. (before \o after)[k] = after[k - Len(before)]
        <4>1. (before \o after)[k] = IF k <= Len(before) THEN before[k] ELSE after[k - Len(before)]
          BY <1>2, <1>3, <3>3, ConcatProperties
        <4> QED BY <1>2, <3>1, <3>3, <4>1
      <3>5. k - Len(before) = m
        BY <1>2, <3>1, <3>2
      <3> QED BY <1>3, <1>4, <2>2, <3>2, <3>4, <3>5
    <2> QED BY <2>1, <2>2
  <1> QED BY <1>5, <1>6

-----------------------------------------------------------------------------
(* What the types say of a packet at the relay, and of the chain it belongs to. *)
LEMMA PacketFacts ==
    ASSUME TypeOK, NEW p \in toRelay
    PROVE  /\ p.xid \in Xid /\ p.from \in Address /\ p \in Packet
           /\ hash_xid(p.xid) \in Bucket
           /\ Chain(p.xid) \in Seq(Transaction)
           /\ \A k \in DOMAIN Chain(p.xid) : Chain(p.xid)[k] \in Transaction
BY HashInBucket DEF TypeOK, Packet, Chain

LEMMA SentToKeepsTypes ==
    ASSUME TypeOK, NEW p \in Packet, NEW a \in Address, SentTo(a, p)
    PROVE  toServer' \subseteq Packet /\ toClient' \in [Client -> SUBSET Packet]
BY DEF TypeOK, SentTo, Address

LEMMA RequestType ==
    ASSUME TypeOK, NEW p \in toRelay, RelayRequest(p)
    PROVE  TypeOK'
  <1>1. [xid |-> p.xid, client_addr |-> p.from] \in Transaction
    BY PacketFacts DEF Transaction
  <1>2. <<[xid |-> p.xid, client_addr |-> p.from]>> \o hash_table[hash_xid(p.xid)] \in Seq(Transaction)
    BY <1>1, PacketFacts, InFront DEF Chain
  <1>3. hash_table' \in [Bucket -> Seq(Transaction)]
    BY <1>2 DEF RelayRequest, insert_transaction, TypeOK
  <1>4. Server \in Address
    BY DEF Address
  <1>5. toServer' \subseteq Packet /\ toClient' \in [Client -> SUBSET Packet]
    BY <1>4, PacketFacts, SentToKeepsTypes DEF RelayRequest, TypeOK
  <1> QED BY <1>3, <1>5, PacketFacts DEF TypeOK, RelayRequest, Arrives

LEMMA ReplyType ==
    ASSUME TypeOK, NEW p \in toRelay, RelayReply(p)
    PROVE  TypeOK'
  <1> PICK i \in DOMAIN Chain(p.xid) :
         /\ First(p.xid, i)
         /\ \/ SentTo(Chain(p.xid)[i].client_addr, p) /\ remove_transaction(p.xid, i)
            \/ UNCHANGED <<hash_table, toServer, toClient>>
    BY DEF RelayReply
  <1>1. Chain(p.xid)[i].client_addr \in Address
    BY PacketFacts DEF Transaction
  <1>2. Without(hash_table[hash_xid(p.xid)], i) \in Seq(Transaction)
    BY PacketFacts, WithoutFacts DEF Chain
  <1>3. hash_table' \in [Bucket -> Seq(Transaction)]
    BY <1>2 DEF remove_transaction, TypeOK
  <1>4. toServer' \subseteq Packet /\ toClient' \in [Client -> SUBSET Packet]
    BY <1>1, PacketFacts, SentToKeepsTypes DEF TypeOK
  <1> QED BY <1>3, <1>4, PacketFacts DEF TypeOK, RelayReply, Arrives

(* Every step keeps the types. *)
LEMMA TypeStep == TypeOK /\ [Next]_vars => TypeOK'
  <1> SUFFICES ASSUME TypeOK, [Next]_vars PROVE TypeOK'
    OBVIOUS
  <1>1. ASSUME NEW p \in toRelay, RelayRequest(p) PROVE TypeOK'
    BY <1>1, RequestType
  <1>2. ASSUME NEW p \in toRelay, RelayReply(p) PROVE TypeOK'
    BY <1>2, ReplyType
  <1>3. ASSUME NEW p \in toRelay, Lost(p) PROVE TypeOK'
    BY <1>3 DEF Lost, TypeOK
  <1>4. ASSUME NEW p \in toServer, ServerTakes(p) PROVE TypeOK'
    <2>1. p.xid \in Xid
      BY DEF TypeOK, Packet
    <2>2. [xid |-> p.xid, op |-> "reply", from |-> Server] \in Packet
      BY <2>1 DEF Packet, Address
    <2> QED BY <1>4, <2>2 DEF ServerTakes, TypeOK
  <1>5. ASSUME NEW c \in Client, NEW x \in Xid, ClientSends(c, x) PROVE TypeOK'
    <2>1. [xid |-> x, op |-> "request", from |-> c] \in Packet
      BY DEF Packet, Address
    <2>2. sends' \in 0..MaxSends
      BY <1>5, RelayAssumption DEF ClientSends, TypeOK
    <2> QED BY <1>5, <2>1, <2>2 DEF ClientSends, TypeOK
  <1>6. ASSUME NEW c \in Client, NEW p \in toClient[c], ClientTakes(c, p) PROVE TypeOK'
    BY <1>6 DEF ClientTakes, TypeOK
  <1>7. CASE UNCHANGED vars
    BY <1>7 DEF vars, netVars, TypeOK
  <1> QED BY <1>1, <1>2, <1>3, <1>4, <1>5, <1>6, <1>7 DEF Next

LEMMA TypeInit == Init => TypeOK
BY RelayAssumption DEF Init, TypeOK, Bucket

(* The relay's variables keep their types (TypeOK), for every table size. *)
THEOREM TypeCorrect == Spec => []TypeOK
  <1> QED BY TypeInit, TypeStep, PTL DEF Spec

-----------------------------------------------------------------------------
(* What an insertion and a removal make of the table, transaction by transaction. *)
LEMMA Inserted ==
    ASSUME TypeOK, NEW p \in toRelay, insert_transaction(p.xid, p.from)
    PROVE  \A j \in Bucket :
             IF j # hash_xid(p.xid) THEN hash_table'[j] = hash_table[j]
             ELSE /\ Len(hash_table'[j]) = Len(hash_table[j]) + 1
                  /\ DOMAIN hash_table'[j] = 1..(Len(hash_table[j]) + 1)
                  /\ hash_table'[j][1].xid = p.xid
                  /\ hash_table'[j][1].client_addr = p.from
                  /\ \A k \in 2..(Len(hash_table[j]) + 1) :
                       hash_table'[j][k] = hash_table[j][k - 1]
  <1> DEFINE r == [xid |-> p.xid, client_addr |-> p.from]
  <1>1. r \in Transaction
    BY PacketFacts DEF Transaction
  <1>2. SUFFICES ASSUME NEW j \in Bucket, j = hash_xid(p.xid)
                 PROVE  /\ Len(hash_table'[j]) = Len(hash_table[j]) + 1
                        /\ DOMAIN hash_table'[j] = 1..(Len(hash_table[j]) + 1)
                        /\ hash_table'[j][1].xid = p.xid
                        /\ hash_table'[j][1].client_addr = p.from
                        /\ \A k \in 2..(Len(hash_table[j]) + 1) :
                             hash_table'[j][k] = hash_table[j][k - 1]
    BY DEF insert_transaction, TypeOK
  <1>3. hash_table'[j] = <<r>> \o hash_table[j] /\ hash_table[j] \in Seq(Transaction)
    BY <1>2 DEF insert_transaction, TypeOK
  <1>4. r.xid = p.xid /\ r.client_addr = p.from
    OBVIOUS
  <1> HIDE DEF r
  <1> QED BY <1>1, <1>3, <1>4, InFront

LEMMA Removed ==
    ASSUME TypeOK, NEW x \in Xid, NEW i \in DOMAIN Chain(x), remove_transaction(x, i)
    PROVE  \A j \in Bucket :
             IF j # hash_xid(x) THEN hash_table'[j] = hash_table[j]
             ELSE /\ DOMAIN hash_table'[j] = 1..(Len(hash_table[j]) - 1)
                  /\ \A k \in 1..(Len(hash_table[j]) - 1) :
                       hash_table'[j][k] = hash_table[j][IF k < i THEN k ELSE k + 1]
  <1>1. SUFFICES ASSUME NEW j \in Bucket, j = hash_xid(x)
                 PROVE  /\ DOMAIN hash_table'[j] = 1..(Len(hash_table[j]) - 1)
                        /\ \A k \in 1..(Len(hash_table[j]) - 1) :
                             hash_table'[j][k] = hash_table[j][IF k < i THEN k ELSE k + 1]
    BY DEF remove_transaction, TypeOK
  <1>2. /\ hash_table'[j] = Without(hash_table[j], i) /\ hash_table[j] \in Seq(Transaction)
        /\ i \in DOMAIN hash_table[j]
    BY <1>1 DEF remove_transaction, TypeOK, Chain
  <1> QED BY <1>2, WithoutFacts

(* The numbers known after an insertion and after a removal. *)
LEMMA InsertedKnown ==
    ASSUME TypeOK, NEW p \in toRelay, insert_transaction(p.xid, p.from), NEW y \in Xid
    PROVE  Known(y)' <=> Known(y) \/ y = p.xid
  <1>1. hash_xid(y) \in Bucket /\ p.xid \in Xid
    BY HashInBucket, PacketFacts
  <1>2. CASE hash_xid(y) # hash_xid(p.xid)
    <2>1. hash_table'[hash_xid(y)] = hash_table[hash_xid(y)]
      BY <1>1, <1>2, Inserted
    <2> QED BY <1>2, <2>1 DEF Known, Chain
  <1>3. CASE hash_xid(y) = hash_xid(p.xid)
    <2> DEFINE old == hash_table[hash_xid(y)]
               new == hash_table'[hash_xid(y)]
    <2>1. /\ DOMAIN new = 1..(Len(old) + 1)
          /\ new[1].xid = p.xid
          /\ \A k \in 2..(Len(old) + 1) : new[k] = old[k - 1]
      BY <1>1, <1>3, Inserted
    <2>2. Len(old) \in Nat /\ DOMAIN old = 1..Len(old)
      BY <1>1 DEF TypeOK
    <2>3. Known(y) <=> \E k \in DOMAIN old : old[k].xid = y
      BY DEF Known, Chain
    <2>4. Known(y)' <=> \E k \in DOMAIN new : new[k].xid = y
      BY DEF Known, Chain
    <2> HIDE DEF old, new
    <2>5. ASSUME Known(y) PROVE Known(y)'
      <3> PICK k \in DOMAIN old : old[k].xid = y
        BY <2>3, <2>5
      <3>1. k + 1 \in 2..(Len(old) + 1) /\ k + 1 - 1 = k
        BY <2>2
      <3>2. k + 1 \in DOMAIN new /\ new[k + 1].xid = y
        BY <2>1, <2>2, <3>1
      <3> QED BY <2>4, <3>2
    <2>6. ASSUME y = p.xid PROVE Known(y)'
      <3>1. 1 \in DOMAIN new /\ new[1].xid = y
        BY <2>1, <2>2, <2>6
      <3> QED BY <2>4, <3>1
    <2>7. ASSUME Known(y)', y # p.xid PROVE Known(y)
      <3> PICK k \in DOMAIN new : new[k].xid = y
        BY <2>4, <2>7
      <3>1. k \in 2..(Len(old) + 1)
        BY <2>1, <2>2, <2>7
      <3>2. k - 1 \in DOMAIN old /\ old[k - 1].xid = y
        BY <2>1, <2>2, <3>1
      <3> QED BY <2>3, <3>2
    <2> QED BY <2>5, <2>6, <2>7
  <1> QED BY <1>2, <1>3

LEMMA RemovedKnown ==
    ASSUME TypeOK, ChainsSound, NEW x \in Xid, NEW i \in DOMAIN Chain(x),
           First(x, i), remove_transaction(x, i), NEW y \in Xid
    PROVE  Known(y)' <=> Known(y) /\ y # x
  <1>1. hash_xid(y) \in Bucket /\ hash_xid(x) \in Bucket
    BY HashInBucket
  <1>2. CASE hash_xid(y) # hash_xid(x)
    <2>1. hash_table'[hash_xid(y)] = hash_table[hash_xid(y)]
      BY <1>1, <1>2, Removed
    <2> QED BY <1>2, <2>1 DEF Known, Chain
  <1>3. CASE hash_xid(y) = hash_xid(x)
    <2> DEFINE old == hash_table[hash_xid(y)]
               new == hash_table'[hash_xid(y)]
    <2>1. /\ DOMAIN new = 1..(Len(old) - 1)
          /\ \A k \in 1..(Len(old) - 1) : new[k] = old[IF k < i THEN k ELSE k + 1]
      BY <1>1, <1>3, Removed
    <2>2. /\ Len(old) \in Nat /\ DOMAIN old = 1..Len(old)
          /\ i \in DOMAIN old /\ old[i].xid = x
          /\ \A k \in DOMAIN old : old[k].xid = x => k = i
      BY <1>1, <1>3 DEF TypeOK, First, Chain, ChainsSound
    <2>3. Known(y) <=> \E k \in DOMAIN old : old[k].xid = y
      BY DEF Known, Chain
    <2>4. Known(y)' <=> \E k \in DOMAIN new : new[k].xid = y
      BY DEF Known, Chain
    <2> HIDE DEF old, new
    <2>5. ASSUME Known(y), y # x PROVE Known(y)'
      <3> PICK k \in DOMAIN old : old[k].xid = y
        BY <2>3, <2>5
      <3>1. k \in 1..Len(old) /\ i \in 1..Len(old) /\ k # i
        BY <2>2, <2>5
      <3>2. CASE k < i
        <4>1. k \in DOMAIN new /\ new[k].xid = y
          BY <2>1, <2>2, <3>1, <3>2
        <4> QED BY <2>4, <4>1
      <3>3. CASE k > i
        <4>1. k - 1 \in 1..(Len(old) - 1) /\ ~(k - 1 < i) /\ k - 1 + 1 = k
          BY <2>2, <3>1, <3>3
        <4>2. k - 1 \in DOMAIN new /\ new[k - 1].xid = y
          BY <2>1, <4>1
        <4> QED BY <2>4, <4>2
      <3> QED BY <2>2, <3>1, <3>2, <3>3
    <2>6. ASSUME Known(y)' PROVE Known(y) /\ y # x
      <3> PICK k \in DOMAIN new : new[k].xid = y
        BY <2>4, <2>6
      <3> DEFINE m == IF k < i THEN k ELSE k + 1
      <3>1. m \in DOMAIN old /\ m # i
        BY <2>1, <2>2
      <3>2. new[k] = old[m]
        BY <2>1
      <3> HIDE DEF m
      <3> QED BY <2>2, <2>3, <3>1, <3>2
    <2> QED BY <2>5, <2>6
  <1> QED BY <1>2, <1>3

-----------------------------------------------------------------------------
LEMMA InsertedSound ==
    ASSUME TypeOK, ChainsSound, NEW p \in toRelay, ~Known(p.xid),
           insert_transaction(p.xid, p.from)
    PROVE  ChainsSound'
  <1> SUFFICES ASSUME NEW j \in Bucket
               PROVE  \A k \in DOMAIN hash_table'[j] :
                        /\ hash_xid(hash_table'[j][k].xid) = j
                        /\ \A l \in DOMAIN hash_table'[j] :
                             hash_table'[j][k].xid = hash_table'[j][l].xid => k = l
    BY DEF ChainsSound, hash_xid
  <1> DEFINE old == hash_table[j]
             new == hash_table'[j]
  <1>1. \A k \in DOMAIN old : /\ hash_xid(old[k].xid) = j
                              /\ \A l \in DOMAIN old : old[k].xid = old[l].xid => k = l
    BY DEF ChainsSound
  <1>2. Len(old) \in Nat /\ DOMAIN old = 1..Len(old)
    BY DEF TypeOK
  <1>3. CASE j # hash_xid(p.xid)
    <2>1. new = old
      BY <1>3, Inserted
    <2> QED BY <1>1, <2>1
  <1>4. CASE j = hash_xid(p.xid)
    <2>1. /\ DOMAIN new = 1..(Len(old) + 1)
          /\ new[1].xid = p.xid
          /\ \A k \in 2..(Len(old) + 1) : new[k] = old[k - 1]
      BY <1>4, Inserted
    <2>2. \A k \in DOMAIN old : old[k].xid # p.xid
      BY <1>4 DEF Known, Chain
    <2> HIDE DEF old, new
    <2>3. ASSUME NEW k \in DOMAIN new, k # 1
          PROVE  /\ k - 1 \in DOMAIN old /\ new[k] = old[k - 1]
                 /\ hash_xid(new[k].xid) = j /\ new[k].xid # p.xid
      <3>1. k \in 2..(Len(old) + 1) /\ k - 1 \in DOMAIN old
        BY <1>2, <2>1, <2>3
      <3> QED BY <1>1, <2>1, <2>2, <3>1
    <2>4. ASSUME NEW k \in DOMAIN new PROVE hash_xid(new[k].xid) = j
      BY <1>4, <2>1, <2>3
    <2>5. ASSUME NEW k \in DOMAIN new, NEW l \in DOMAIN new, new[k].xid = new[l].xid
          PROVE  k = l
      <3>1. CASE k = 1 \/ l = 1
        BY <2>1, <2>3, <2>5, <3>1
      <3>2. CASE k # 1 /\ l # 1
        <4>1. k - 1 = l - 1
          BY <1>1, <2>3, <2>5, <3>2
        <4> QED BY <1>2, <2>1, <4>1
      <3> QED BY <3>1, <3>2
    <2> QED BY <2>4, <2>5 DEF old, new
  <1> QED BY <1>3, <1>4

LEMMA RemovedSound ==
    ASSUME TypeOK, ChainsSound, NEW x \in Xid, NEW i \in DOMAIN Chain(x),
           remove_transaction(x, i)
    PROVE  ChainsSound'
  <1> SUFFICES ASSUME NEW j \in Bucket
               PROVE  \A k \in DOMAIN hash_table'[j] :
                        /\ hash_xid(hash_table'[j][k].xid) = j
                        /\ \A l \in DOMAIN hash_table'[j] :
                             hash_table'[j][k].xid = hash_table'[j][l].xid => k = l
    BY DEF ChainsSound, hash_xid
  <1> DEFINE old == hash_table[j]
             new == hash_table'[j]
  <1>1. \A k \in DOMAIN old : /\ hash_xid(old[k].xid) = j
                              /\ \A l \in DOMAIN old : old[k].xid = old[l].xid => k = l
    BY DEF ChainsSound
  <1>2. CASE j # hash_xid(x)
    <2>1. new = old
      BY <1>2, Removed
    <2> QED BY <1>1, <2>1
  <1>3. CASE j = hash_xid(x)
    <2> DEFINE back(k) == IF k < i THEN k ELSE k + 1
    <2>1. /\ DOMAIN new = 1..(Len(old) - 1)
          /\ \A k \in 1..(Len(old) - 1) : new[k] = old[back(k)]
      BY <1>3, Removed
    <2>2. Len(old) \in Nat /\ DOMAIN old = 1..Len(old) /\ i \in DOMAIN old
      BY <1>3 DEF TypeOK, Chain
    <2> HIDE DEF old, new
    <2>3. \A k, l \in DOMAIN new : back(k) \in DOMAIN old /\ (back(k) = back(l) => k = l)
      BY <2>1, <2>2
    <2> HIDE DEF back
    <2>4. ASSUME NEW k \in DOMAIN new PROVE hash_xid(new[k].xid) = j
      BY <1>1, <2>1, <2>3
    <2>5. ASSUME NEW k \in DOMAIN new, NEW l \in DOMAIN new, new[k].xid = new[l].xid
          PROVE  k = l
      BY <1>1, <2>1, <2>3, <2>5
    <2> QED BY <2>4, <2>5 DEF old, new
  <1> QED BY <1>2, <1>3

(* Only the relay's two cases touch the table. *)
LEMMA SoundStep == TypeOK /\ ChainsSound /\ [Next]_vars => ChainsSound'
  <1> SUFFICES ASSUME TypeOK, ChainsSound, [Next]_vars PROVE ChainsSound'
    OBVIOUS
  <1>1. ASSUME NEW p \in toRelay, RelayRequest(p) PROVE ChainsSound'
    BY <1>1, InsertedSound DEF RelayRequest
  <1>2. ASSUME hash_table' = hash_table PROVE ChainsSound'
    BY <1>2 DEF ChainsSound, hash_xid
  <1>3. ASSUME NEW p \in toRelay, RelayReply(p) PROVE ChainsSound'
    BY <1>2, <1>3, PacketFacts, RemovedSound DEF RelayReply
  <1> QED BY <1>1, <1>2, <1>3
       DEF Next, Lost, ServerTakes, ClientSends, ClientTakes, vars

(* A transaction is kept once and in the bucket of its number (ChainsSound). *)
THEOREM Chained == Spec => []ChainsSound
  <1>1. Init => ChainsSound
    BY DEF Init, ChainsSound
  <1> QED BY <1>1, TypeInit, TypeStep, SoundStep, PTL DEF Spec

-----------------------------------------------------------------------------
(* Whom the transactions of a number remember, after an insertion and a removal. *)
Remembered(x, a) == \E k \in DOMAIN Chain(x) : /\ Chain(x)[k].xid = x
                                               /\ Chain(x)[k].client_addr = a

LEMMA InsertedRemembers ==
    ASSUME TypeOK, NEW p \in toRelay, insert_transaction(p.xid, p.from),
           NEW y \in Xid, NEW a, Remembered(y, a)'
    PROVE  Remembered(y, a) \/ (y = p.xid /\ a = p.from)
  <1>1. hash_xid(y) \in Bucket
    BY HashInBucket
  <1> DEFINE old == hash_table[hash_xid(y)]
             new == hash_table'[hash_xid(y)]
  <1>2. PICK k \in DOMAIN new : new[k].xid = y /\ new[k].client_addr = a
    BY DEF Remembered, Chain, hash_xid
  <1>3. CASE hash_xid(y) # hash_xid(p.xid)
    <2>1. new = old
      BY <1>1, <1>3, Inserted
    <2> QED BY <1>2, <2>1 DEF Remembered, Chain
  <1>4. CASE hash_xid(y) = hash_xid(p.xid)
    <2>1. /\ DOMAIN new = 1..(Len(old) + 1)
          /\ new[1].xid = p.xid /\ new[1].client_addr = p.from
          /\ \A n \in 2..(Len(old) + 1) : new[n] = old[n - 1]
      BY <1>1, <1>4, Inserted
    <2>2. Len(old) \in Nat /\ DOMAIN old = 1..Len(old)
      BY <1>1 DEF TypeOK
    <2>3. CASE k = 1
      BY <1>2, <2>1, <2>3
    <2>4. CASE k # 1
      <3> HIDE DEF old, new
      <3>1. k - 1 \in DOMAIN old /\ new[k] = old[k - 1]
        BY <1>2, <2>1, <2>2, <2>4
      <3>2. Remembered(y, a)
        BY <1>2, <3>1 DEF Remembered, Chain, old
      <3> QED BY <3>2
    <2> QED BY <2>3, <2>4
  <1> QED BY <1>3, <1>4

LEMMA RemovedRemembers ==
    ASSUME TypeOK, NEW x \in Xid, NEW i \in DOMAIN Chain(x), remove_transaction(x, i),
           NEW y \in Xid, NEW a, Remembered(y, a)'
    PROVE  Remembered(y, a)
  <1>1. hash_xid(y) \in Bucket
    BY HashInBucket
  <1> DEFINE old == hash_table[hash_xid(y)]
             new == hash_table'[hash_xid(y)]
  <1>2. PICK k \in DOMAIN new : new[k].xid = y /\ new[k].client_addr = a
    BY DEF Remembered, Chain, hash_xid
  <1>3. CASE hash_xid(y) # hash_xid(x)
    <2>1. new = old
      BY <1>1, <1>3, Removed
    <2> QED BY <1>2, <2>1 DEF Remembered, Chain
  <1>4. CASE hash_xid(y) = hash_xid(x)
    <2>1. /\ DOMAIN new = 1..(Len(old) - 1)
          /\ \A n \in 1..(Len(old) - 1) : new[n] = old[IF n < i THEN n ELSE n + 1]
      BY <1>1, <1>4, Removed
    <2>2. Len(old) \in Nat /\ DOMAIN old = 1..Len(old)
      BY <1>1 DEF TypeOK
    <2> DEFINE m == IF k < i THEN k ELSE k + 1
    <2>3. m \in DOMAIN old /\ new[k] = old[m]
      <3> HIDE DEF old, new
      <3> QED BY <1>2, <1>4, <2>1, <2>2
    <2> HIDE DEF m
    <2> QED BY <1>2, <2>3 DEF Remembered, Chain
  <1> QED BY <1>3, <1>4

(* What remembers an asker keeps it: packets under way to the relay and transactions. *)
AskersKept ==
    /\ \A p \in toRelay : p.from \in Client => p.from \in asked[p.xid]
    /\ \A x \in Xid : \A c \in Client : Remembered(x, c) => c \in asked[x]

LEMMA SameTable ==
    ASSUME hash_table' = hash_table
    PROVE  /\ \A x, a : Remembered(x, a)' <=> Remembered(x, a)
           /\ \A x : Known(x)' <=> Known(x)
BY DEF Remembered, Known, Chain, hash_xid

(* A packet sent to a client is one more packet in its socket, and in no other. *)
LEMMA SentToClient ==
    ASSUME TypeOK, NEW p \in Packet, NEW a \in Address, SentTo(a, p),
           NEW c \in Client, NEW q \in toClient'[c]
    PROVE  q \in toClient[c] \/ (q = p /\ a = c)
BY RelayAssumption DEF SentTo, TypeOK, Address

LEMMA AskersRequest ==
    ASSUME TypeOK, AskersKept, OnlyAskerHears, NEW p \in toRelay, RelayRequest(p)
    PROVE  AskersKept' /\ OnlyAskerHears'
  <1>1. asked' = asked /\ toRelay' \subseteq toRelay
    BY DEF RelayRequest, Arrives
  <1>2. ASSUME NEW x \in Xid, NEW c \in Client, Remembered(x, c)' PROVE c \in asked[x]
    <2>1. Remembered(x, c) \/ (x = p.xid /\ c = p.from)
      BY <1>2, InsertedRemembers DEF RelayRequest
    <2> QED BY <2>1 DEF AskersKept
  <1>3. toClient' = toClient
    BY DEF RelayRequest, SentTo
  <1> QED BY <1>1, <1>2, <1>3 DEF AskersKept, OnlyAskerHears

LEMMA AskersReply ==
    ASSUME TypeOK, AskersKept, OnlyAskerHears, NEW p \in toRelay, RelayReply(p)
    PROVE  AskersKept' /\ OnlyAskerHears'
  <1>1. asked' = asked /\ toRelay' \subseteq toRelay
    BY DEF RelayReply, Arrives
  <1> PICK i \in DOMAIN Chain(p.xid) :
         /\ First(p.xid, i)
         /\ \/ SentTo(Chain(p.xid)[i].client_addr, p) /\ remove_transaction(p.xid, i)
            \/ UNCHANGED <<hash_table, toServer, toClient>>
    BY DEF RelayReply
  <1>2. ASSUME NEW x \in Xid, NEW c \in Client, Remembered(x, c)' PROVE c \in asked[x]
    <2>1. Remembered(x, c)
      BY <1>2, SameTable, PacketFacts, RemovedRemembers
    <2> QED BY <2>1 DEF AskersKept
  <1>3. ASSUME NEW c \in Client, NEW q \in toClient'[c] PROVE c \in asked[q.xid]
    <2> DEFINE a == Chain(p.xid)[i].client_addr
    <2>1. a \in Address /\ Remembered(p.xid, a)
      BY PacketFacts DEF Transaction, First, Remembered
    <2>2. q \in toClient[c] \/ (q = p /\ a = c)
      <3> HIDE DEF a
      <3> QED BY <1>3, <2>1, PacketFacts, SentToClient DEF a
    <2> HIDE DEF a
    <2> QED BY <2>1, <2>2, PacketFacts DEF AskersKept, OnlyAskerHears
  <1> QED BY <1>1, <1>2, <1>3 DEF AskersKept, OnlyAskerHears

LEMMA AskersStep == TypeOK /\ AskersKept /\ OnlyAskerHears /\ [Next]_vars
                      => AskersKept' /\ OnlyAskerHears'
  <1> SUFFICES ASSUME TypeOK, AskersKept, OnlyAskerHears, [Next]_vars
               PROVE  AskersKept' /\ OnlyAskerHears'
    OBVIOUS
  <1>1. ASSUME NEW p \in toRelay, RelayRequest(p) PROVE AskersKept' /\ OnlyAskerHears'
    BY <1>1, AskersRequest
  <1>2. ASSUME NEW p \in toRelay, RelayReply(p) PROVE AskersKept' /\ OnlyAskerHears'
    BY <1>2, AskersReply
  <1>3. ASSUME NEW p \in toRelay, Lost(p) PROVE AskersKept' /\ OnlyAskerHears'
    BY <1>3, SameTable DEF Lost, AskersKept, OnlyAskerHears
  <1>4. ASSUME NEW p \in toServer, ServerTakes(p) PROVE AskersKept' /\ OnlyAskerHears'
    <2>1. \A q \in toRelay' : q \in toRelay \/ q.from = Server
      BY <1>4 DEF ServerTakes
    <2> QED BY <1>4, <2>1, SameTable, RelayAssumption DEF ServerTakes, AskersKept, OnlyAskerHears
  <1>5. ASSUME NEW c \in Client, NEW x \in Xid, ClientSends(c, x)
        PROVE  AskersKept' /\ OnlyAskerHears'
    <2>1. /\ \A y \in Xid : asked[y] \subseteq asked'[y]
          /\ c \in asked'[x]
      BY <1>5 DEF ClientSends, TypeOK
    <2>2. \A q \in toRelay' : q.xid \in Xid /\ (q \in toRelay \/ (q.xid = x /\ q.from = c))
      BY <1>5, PacketFacts DEF ClientSends
    <2>3. \A d \in Client : \A q \in toClient[d] : q.xid \in Xid
      BY DEF TypeOK, Packet
    <2>4. AskersKept'
      BY <1>5, <2>1, <2>2, SameTable DEF ClientSends, AskersKept
    <2> QED BY <1>5, <2>1, <2>3, <2>4 DEF ClientSends, OnlyAskerHears
  <1>6. ASSUME NEW c \in Client, NEW p \in toClient[c], ClientTakes(c, p)
        PROVE  AskersKept' /\ OnlyAskerHears'
    <2>1. \A d \in Client : toClient'[d] \subseteq toClient[d]
      BY <1>6 DEF ClientTakes, TypeOK
    <2> QED BY <1>6, <2>1, SameTable DEF ClientTakes, AskersKept, OnlyAskerHears
  <1>7. CASE UNCHANGED vars
    BY <1>7, SameTable DEF vars, netVars, AskersKept, OnlyAskerHears
  <1> QED BY <1>1, <1>2, <1>3, <1>4, <1>5, <1>6, <1>7 DEF Next

(* A client receives only packets under numbers it used (OnlyAskerHears). *)
THEOREM Heard == Spec => []OnlyAskerHears
  <1>1. Init => AskersKept /\ OnlyAskerHears
    <2> SUFFICES ASSUME Init PROVE AskersKept /\ OnlyAskerHears
      OBVIOUS
    <2>1. \A x \in Xid : Chain(x) = <<>>
      BY HashInBucket DEF Init, Chain
    <2> QED BY <2>1 DEF Init, AskersKept, OnlyAskerHears, Remembered
  <1> QED BY <1>1, TypeInit, TypeStep, AskersStep, PTL DEF Spec

-----------------------------------------------------------------------------
(* A number of which nothing is repeated has one packet under way at most, and  *)
(* the table tells which: unknown, it is the request on its way to the relay;   *)
(* known, the request at the server or the reply on its way back.               *)
Alone(x) ==
    /\ asked[x] = {} =>
         /\ ~Known(x)
         /\ \A p \in toRelay \cup toServer : p.xid # x
    /\ \A p \in toRelay : p.xid = x =>
         /\ p.op = "request" <=> ~Known(x)
         /\ p.op = "request" => p.from \in Client
         /\ \A q \in toRelay : q.xid = x => q = p
         /\ \A q \in toServer : q.xid # x
    /\ \A p \in toServer : p.xid = x =>
         /\ p.op = "request" /\ Known(x)
         /\ \A q \in toServer : q.xid = x => q = p
    /\ \A a : Remembered(x, a) => a \in Client
    /\ \A c \in Client : \A p \in toClient[c] : p.xid = x => p.op = "reply"

AllAlone == \A x \in Xid \ repeated : Alone(x)

LEMMA SentToServer ==
    ASSUME NEW p, SentTo(Server, p)
    PROVE  toServer' = toServer \cup {p} /\ toClient' = toClient
BY DEF SentTo

LEMMA AloneRequest ==
    ASSUME TypeOK, NEW p \in toRelay, RelayRequest(p), NEW x \in Xid \ repeated', AllAlone
    PROVE  Alone(x)'
  <1>1. /\ x \in Xid \ repeated /\ asked' = asked
        /\ toRelay' \subseteq toRelay /\ (p.xid = x => toRelay' = toRelay \ {p})
    BY DEF RelayRequest, Arrives
  <1>2. Alone(x)
    BY <1>1 DEF AllAlone
  <1>3. Known(x)' <=> Known(x) \/ x = p.xid
    BY InsertedKnown DEF RelayRequest
  <1>4. /\ toServer' \subseteq toServer \cup {p} /\ toClient' = toClient
    BY SentToServer DEF RelayRequest
  <1>5. \A a : Remembered(x, a)' => Remembered(x, a) \/ (x = p.xid /\ a = p.from)
    BY InsertedRemembers DEF RelayRequest
  <1>6. ~Known(p.xid)
    BY DEF RelayRequest
  <1>7. CASE x = p.xid
    <2>1. p.op = "request" /\ p.from \in Client /\ \A q \in toServer : q.xid # x
      BY <1>2, <1>6, <1>7 DEF Alone
    <2>2. \A q \in toRelay' : q.xid # x
      BY <1>1, <1>2, <1>7 DEF Alone
    <2>3. \A q \in toServer' : q.xid = x => q = p
      BY <1>4, <2>1
    <2>4. asked'[x] # {}
      BY <1>1, <1>2, <1>7 DEF Alone
    <2> QED BY <1>2, <1>3, <1>4, <1>5, <1>7, <2>1, <2>2, <2>3, <2>4 DEF Alone
  <1>8. CASE x # p.xid
    <2>1. \A q \in toServer' : q.xid = x => q \in toServer
      BY <1>4, <1>8
    <2>2. Known(x)' <=> Known(x)
      BY <1>3, <1>8
    <2> QED BY <1>1, <1>2, <1>4, <1>5, <1>8, <2>1, <2>2 DEF Alone
  <1> QED BY <1>7, <1>8

LEMMA AloneReply ==
    ASSUME TypeOK, ChainsSound, NEW p \in toRelay, RelayReply(p),
           NEW x \in Xid \ repeated', AllAlone
    PROVE  Alone(x)'
  <1>1. /\ x \in Xid \ repeated /\ asked' = asked
        /\ toRelay' \subseteq toRelay /\ (p.xid = x => toRelay' = toRelay \ {p})
    BY DEF RelayReply, Arrives
  <1>2. Alone(x)
    BY <1>1 DEF AllAlone
  <1> PICK i \in DOMAIN Chain(p.xid) :
         /\ First(p.xid, i)
         /\ \/ SentTo(Chain(p.xid)[i].client_addr, p) /\ remove_transaction(p.xid, i)
            \/ UNCHANGED <<hash_table, toServer, toClient>>
    BY DEF RelayReply
  <1> DEFINE a == Chain(p.xid)[i].client_addr
  <1>3. a \in Address /\ Remembered(p.xid, a) /\ Known(p.xid)
    BY PacketFacts DEF Transaction, First, Remembered, Known
  <1> HIDE DEF a
  <1>4. CASE UNCHANGED <<hash_table, toServer, toClient>>
    BY <1>1, <1>2, <1>4, SameTable DEF Alone
  <1>5. CASE SentTo(a, p) /\ remove_transaction(p.xid, i)
    <2>1. Known(x)' <=> Known(x) /\ x # p.xid
      BY <1>5, PacketFacts, RemovedKnown
    <2>2. \A b : Remembered(x, b)' => Remembered(x, b)
      BY <1>5, PacketFacts, RemovedRemembers
    <2>3. \A c \in Client : \A q \in toClient'[c] : q \in toClient[c] \/ q = p
      BY <1>3, <1>5, PacketFacts, SentToClient
    <2>4. toServer' \subseteq toServer \cup {p}
      BY <1>5 DEF SentTo
    <2>5. CASE x # p.xid
      <3>1. /\ \A q \in toServer' : q.xid = x => q \in toServer
            /\ \A c \in Client : \A q \in toClient'[c] : q.xid = x => q \in toClient[c]
        BY <2>3, <2>4, <2>5
      <3>2. Known(x)' <=> Known(x)
        BY <2>1, <2>5
      <3> QED BY <1>1, <1>2, <2>2, <3>1, <3>2 DEF Alone
    <2>6. CASE x = p.xid
      <3>1. /\ p.op # "request" /\ a \in Client
            /\ \A q \in toServer : q.xid # x
        BY <1>2, <1>3, <2>6 DEF Alone
      <3>2. p.op = "reply"
        BY <3>1, PacketFacts DEF Packet
      <3>3. toServer' = toServer
        BY <1>5, <3>1, RelayAssumption DEF SentTo
      <3>4. \A q \in toRelay' : q.xid # x
        BY <1>1, <1>2, <2>6 DEF Alone
      <3> QED BY <1>1, <1>2, <2>1, <2>2, <2>3, <2>6, <3>1, <3>2, <3>3, <3>4 DEF Alone
    <2> QED BY <2>5, <2>6
  <1> QED BY <1>4, <1>5 DEF a

LEMMA AloneServer ==
    ASSUME TypeOK, NEW p \in toServer, ServerTakes(p), NEW x \in Xid \ repeated', AllAlone
    PROVE  Alone(x)'
  <1> DEFINE answer == [xid |-> p.xid, op |-> "reply", from |-> Server]
  <1>1. /\ Alone(x) /\ asked' = asked /\ toClient' = toClient
        /\ \A b : Remembered(x, b)' <=> Remembered(x, b)
        /\ Known(x)' <=> Known(x)
    BY SameTable DEF ServerTakes, AllAlone
  <1>2. /\ toServer' = toServer \ {p}
        /\ \A q \in toRelay' : q \in toRelay \/ q = answer
    BY DEF ServerTakes
  <1>3. answer.xid = p.xid /\ answer.op = "reply"
    OBVIOUS
  <1> HIDE DEF answer
  <1>4. CASE x # p.xid
    <2>1. \A q \in toRelay' : q.xid = x => q \in toRelay
      BY <1>2, <1>3, <1>4
    <2> QED BY <1>1, <1>2, <2>1 DEF Alone
  <1>5. CASE x = p.xid
    <2>1. /\ asked[x] # {} /\ Known(x)
          /\ \A q \in toServer' : q.xid # x
          /\ \A q \in toRelay : q.xid # x
      BY <1>1, <1>2, <1>5 DEF Alone
    <2>2. \A q \in toRelay' : q.xid = x => q = answer
      BY <1>2, <2>1
    <2> QED BY <1>1, <1>3, <2>1, <2>2 DEF Alone
  <1> QED BY <1>4, <1>5

LEMMA AloneSends ==
    ASSUME TypeOK, NEW c \in Client, NEW y \in Xid, ClientSends(c, y),
           NEW x \in Xid \ repeated', AllAlone
    PROVE  Alone(x)'
  <1> DEFINE ask == [xid |-> y, op |-> "request", from |-> c]
  <1>1. /\ Alone(x) /\ toServer' = toServer /\ toClient' = toClient
        /\ \A b : Remembered(x, b)' <=> Remembered(x, b)
        /\ Known(x)' <=> Known(x)
    BY SameTable DEF ClientSends, AllAlone
  <1>2. /\ toRelay' = toRelay \cup {ask}
        /\ asked'[x] = IF x = y THEN asked[x] \cup {c} ELSE asked[x]
    BY DEF ClientSends, TypeOK
  <1>3. ask.xid = y /\ ask.op = "request" /\ ask.from = c
    OBVIOUS
  <1> HIDE DEF ask
  <1>4. CASE x # y
    <2>1. \A q \in toRelay' : q.xid = x => q \in toRelay
      BY <1>2, <1>3, <1>4
    <2> QED BY <1>1, <1>2, <1>4, <2>1 DEF Alone
  <1>5. CASE x = y
    <2>1. asked[x] = {}
      BY <1>5 DEF ClientSends
    <2>2. ~Known(x) /\ \A q \in toRelay \cup toServer : q.xid # x
      BY <1>1, <2>1 DEF Alone
    <2>3. \A q \in toRelay' : q.xid = x => q = ask
      BY <1>2, <2>2
    <2>4. asked'[x] # {}
      BY <1>2, <1>5
    <2> QED BY <1>1, <1>3, <2>2, <2>3, <2>4 DEF Alone
  <1> QED BY <1>4, <1>5

LEMMA AloneStep == TypeOK /\ ChainsSound /\ AllAlone /\ [Next]_vars => AllAlone'
  <1> SUFFICES ASSUME TypeOK, ChainsSound, AllAlone, [Next]_vars, NEW x \in Xid \ repeated'
               PROVE  Alone(x)'
    BY DEF AllAlone
  <1>1. ASSUME NEW p \in toRelay, RelayRequest(p) PROVE Alone(x)'
    BY <1>1, AloneRequest
  <1>2. ASSUME NEW p \in toRelay, RelayReply(p) PROVE Alone(x)'
    BY <1>2, AloneReply
  <1>3. ASSUME NEW p \in toRelay, Lost(p) PROVE Alone(x)'
    BY <1>3, SameTable DEF Lost, AllAlone, Alone
  <1>4. ASSUME NEW p \in toServer, ServerTakes(p) PROVE Alone(x)'
    BY <1>4, AloneServer
  <1>5. ASSUME NEW c \in Client, NEW y \in Xid, ClientSends(c, y) PROVE Alone(x)'
    BY <1>5, AloneSends
  <1>6. ASSUME NEW c \in Client, NEW p \in toClient[c], ClientTakes(c, p) PROVE Alone(x)'
    <2>1. \A d \in Client : toClient'[d] \subseteq toClient[d]
      BY <1>6 DEF ClientTakes, TypeOK
    <2>2. /\ Alone(x) /\ asked' = asked /\ toRelay' = toRelay /\ toServer' = toServer
          /\ \A b : Remembered(x, b)' <=> Remembered(x, b)
          /\ Known(x)' <=> Known(x)
      BY <1>6, SameTable DEF ClientTakes, AllAlone
    <2> QED BY <2>1, <2>2 DEF Alone
  <1>7. CASE UNCHANGED vars
    BY <1>7, SameTable DEF vars, netVars, AllAlone, Alone
  <1> QED BY <1>1, <1>2, <1>3, <1>4, <1>5, <1>6, <1>7 DEF Next

(* Without repetition, requests and replies are told apart (SortedUnlessRepeated). *)
THEOREM Sorted == Spec => []SortedUnlessRepeated
  <1>1. Init => AllAlone
    <2> SUFFICES ASSUME Init PROVE AllAlone
      OBVIOUS
    <2>1. \A x \in Xid : Chain(x) = <<>>
      BY HashInBucket DEF Init, Chain
    <2> QED BY <2>1 DEF Init, AllAlone, Alone, Remembered, Known
  <1>2. Init => ChainsSound
    BY DEF Init, ChainsSound
  <1>3. AllAlone => SortedUnlessRepeated
    BY DEF AllAlone, Alone, SortedUnlessRepeated
  <1> QED BY <1>1, <1>2, <1>3, TypeInit, TypeStep, SoundStep, AloneStep, PTL DEF Spec

-----------------------------------------------------------------------------
(* One Exchange per number: it has one asker, and while a packet of it is under *)
(* way nobody has heard the answer.                                             *)
Linked(x) ==
    /\ \A c, d \in asked[x] : c = d
    /\ (\E p \in toRelay \cup toServer : p.xid = x) => Hears(x) = {}

AllLinked == \A x \in Xid \ repeated : Linked(x)

ExchangeInv == TypeOK /\ ChainsSound /\ AskersKept /\ OnlyAskerHears /\ AllAlone /\ AllLinked

(* What a step is to number x: one of Exchange, and the invariant kept. *)
ExchangeStep(x) == [ExchangeOf(x)!ExchangeNext]_(ExchangeOf(x)!exchangeVars) /\ Linked(x)'

(* A step that leaves all packets of x where they are changes nothing for x. *)
LEMMA Elsewhere ==
    ASSUME NEW x \in Xid, Linked(x), asked'[x] = asked[x],
           \A q : q.xid = x => /\ q \in toRelay' <=> q \in toRelay
                               /\ q \in toServer' <=> q \in toServer,
           \A c \in Client : \A q : q.xid = x => (q \in toClient'[c] <=> q \in toClient[c])
    PROVE  ExchangeStep(x)
  <1>1. Hears(x)' = Hears(x)
    BY DEF Hears
  <1>2. Way(x)' = Way(x)
    BY DEF Way
  <1>3. Linked(x)'
    BY <1>1 DEF Linked
  <1> QED BY <1>1, <1>2, <1>3 DEF ExchangeStep, ExchangeOf!exchangeVars

(* The packet of x is gone from the way, or never was on it. *)
LEMMA GoneAstray ==
    ASSUME NEW x \in Xid, Linked(x), asked'[x] = asked[x],
           \A q \in toRelay' \cup toServer' : q.xid # x,
           \A c \in Client : \A q : q.xid = x => (q \in toClient'[c] <=> q \in toClient[c])
    PROVE  ExchangeStep(x)
  <1>1. Hears(x)' = Hears(x)
    BY DEF Hears
  <1>2. Way(x)' = {}
    BY DEF Way
  <1>3. Linked(x)'
    BY <1>1 DEF Linked
  <1>4. ExchangeOf(x)!Lose
    BY <1>1, <1>2 DEF ExchangeOf!Lose
  <1> QED BY <1>3, <1>4 DEF ExchangeStep, ExchangeOf!ExchangeNext

(* Where a packet that is alone under its number makes that number be. *)
LEMMA WayAtRelay ==
    ASSUME TypeOK, NEW p \in toRelay, Alone(p.xid)
    PROVE  Way(p.xid) = IF p.op = "request" THEN {"sent"} ELSE {"answered"}
  <1>1. p.op \in {"request", "reply"}
    BY PacketFacts DEF Packet
  <1>2. /\ \A q \in toRelay : q.xid = p.xid => q = p
        /\ \A q \in toServer : q.xid # p.xid
    BY DEF Alone
  <1> QED BY <1>1, <1>2 DEF Way

LEMMA ExchangeRequest ==
    ASSUME ExchangeInv, NEW p \in toRelay, RelayRequest(p), NEW x \in Xid \ repeated'
    PROVE  ExchangeStep(x)
  <1>1. /\ x \in Xid \ repeated /\ asked' = asked
        /\ \A q : q # p => (q \in toRelay' <=> q \in toRelay)
        /\ p.xid = x => toRelay' = toRelay \ {p}
    BY DEF RelayRequest, Arrives
  <1>2. TypeOK /\ Alone(x) /\ Linked(x)
    BY <1>1 DEF ExchangeInv, AllAlone, AllLinked
  <1>3. toClient' = toClient /\ (toServer' = toServer \cup {p} \/ toServer' = toServer)
    BY SentToServer DEF RelayRequest
  <1>4. CASE x # p.xid
    BY <1>1, <1>2, <1>3, <1>4, Elsewhere
  <1>5. CASE x = p.xid
    <2>1. ~Known(x)
      BY <1>5 DEF RelayRequest
    <2>2. p.op = "request" /\ \A q \in toServer : q.xid # x
      BY <1>2, <1>5, <2>1 DEF Alone
    <2>3. \A q \in toRelay' : q.xid # x
      BY <1>1, <1>2, <1>5 DEF Alone
    <2>4. CASE toServer' = toServer
      BY <1>1, <1>2, <1>3, <2>2, <2>3, <2>4, GoneAstray
    <2>5. CASE toServer' = toServer \cup {p}
      <3>1. Way(x) = {"sent"}
        BY <1>2, <1>5, <2>2, WayAtRelay
      <3>2. Way(x)' = {"passed"}
        BY <1>5, <2>3, <2>5 DEF Way
      <3>3. Hears(x) = {} /\ Hears(x)' = Hears(x)
        BY <1>2, <1>3, <1>5 DEF Linked, Hears
      <3>4. ExchangeOf(x)!PassOn
        BY <1>1, <3>1, <3>2, <3>3 DEF ExchangeOf!PassOn
      <3> QED BY <1>1, <1>2, <3>3, <3>4 DEF ExchangeStep, ExchangeOf!ExchangeNext, Linked
    <2> QED BY <1>3, <2>4, <2>5
  <1> QED BY <1>4, <1>5

LEMMA ExchangeReply ==
    ASSUME ExchangeInv, NEW p \in toRelay, RelayReply(p), NEW x \in Xid \ repeated'
    PROVE  ExchangeStep(x)
  <1>1. /\ x \in Xid \ repeated /\ asked' = asked
        /\ \A q : q # p => (q \in toRelay' <=> q \in toRelay)
        /\ p.xid = x => toRelay' = toRelay \ {p}
    BY DEF RelayReply, Arrives
  <1>2. TypeOK /\ Alone(x) /\ Linked(x) /\ AskersKept
    BY <1>1 DEF ExchangeInv, AllAlone, AllLinked
  <1> PICK i \in DOMAIN Chain(p.xid) :
         /\ First(p.xid, i)
         /\ \/ SentTo(Chain(p.xid)[i].client_addr, p) /\ remove_transaction(p.xid, i)
            \/ UNCHANGED <<hash_table, toServer, toClient>>
    BY DEF RelayReply
  <1> DEFINE a == Chain(p.xid)[i].client_addr
  <1>3. a \in Address /\ Remembered(p.xid, a) /\ Known(p.xid)
    BY <1>2, PacketFacts DEF Transaction, First, Remembered, Known
  <1>4. UNCHANGED <<toServer, toClient>> \/ SentTo(a, p)
    OBVIOUS
  <1> HIDE DEF a
  <1>5. CASE x # p.xid
    <2>1. \A q : q # p => (q \in toServer' <=> q \in toServer)
      BY <1>4 DEF SentTo
    <2>2. \A c \in Client : \A q : q # p => (q \in toClient'[c] <=> q \in toClient[c])
      BY <1>2, <1>4 DEF SentTo, TypeOK
    <2> QED BY <1>1, <1>2, <1>5, <2>1, <2>2, Elsewhere
  <1>6. CASE x = p.xid
    <2>1. /\ p.op # "request" /\ a \in Client
          /\ \A q \in toServer : q.xid # x
      BY <1>2, <1>3, <1>6 DEF Alone
    <2>2. \A q \in toRelay' : q.xid # x
      BY <1>1, <1>2, <1>6 DEF Alone
    <2>3. CASE UNCHANGED <<toServer, toClient>>
      BY <1>1, <1>2, <2>1, <2>2, <2>3, GoneAstray
    <2>4. CASE SentTo(a, p)
      <3>1. toServer' = toServer /\ toClient' = [toClient EXCEPT ![a] = @ \cup {p}]
        BY <2>1, <2>4, RelayAssumption DEF SentTo
      <3>2. Way(x) = {"answered"}
        BY <1>2, <1>6, <2>1, WayAtRelay
      <3>3. Way(x)' = {}
        BY <2>1, <2>2, <3>1 DEF Way
      <3>4. asked[x] = {a}
        BY <1>2, <1>3, <1>6, <2>1 DEF AskersKept, Linked
      <3>5. Hears(x)' = {a}
        <4>1. Hears(x) = {}
          BY <1>2, <1>6 DEF Linked
        <4>2. \A c \in Client : \A q \in toClient[c] : q.xid # x
          BY <4>1 DEF Hears
        <4>3. \A c \in Client : toClient'[c] = IF c = a THEN toClient[c] \cup {p} ELSE toClient[c]
          BY <1>2, <2>1, <3>1 DEF TypeOK
        <4> QED BY <1>6, <2>1, <4>2, <4>3 DEF Hears
      <3>6. ExchangeOf(x)!Deliver
        BY <1>1, <3>2, <3>3, <3>4, <3>5 DEF ExchangeOf!Deliver
      <3>7. Linked(x)'
        BY <1>1, <1>2, <2>1, <2>2, <3>1 DEF Linked
      <3> QED BY <3>6, <3>7 DEF ExchangeStep, ExchangeOf!ExchangeNext
    <2> QED BY <1>4, <2>3, <2>4
  <1> QED BY <1>5, <1>6

LEMMA ExchangeServer ==
    ASSUME ExchangeInv, NEW p \in toServer, ServerTakes(p), NEW x \in Xid \ repeated'
    PROVE  ExchangeStep(x)
  <1> DEFINE answer == [xid |-> p.xid, op |-> "reply", from |-> Server]
  <1>1. /\ x \in Xid \ repeated /\ asked' = asked /\ toClient' = toClient
        /\ toServer' = toServer \ {p}
        /\ toRelay' = toRelay \/ toRelay' = toRelay \cup {answer}
    BY DEF ServerTakes
  <1>2. TypeOK /\ Alone(x) /\ Linked(x)
    BY <1>1 DEF ExchangeInv, AllAlone, AllLinked
  <1>3. answer.xid = p.xid /\ answer.op = "reply"
    OBVIOUS
  <1> HIDE DEF answer
  <1>4. CASE x # p.xid
    BY <1>1, <1>2, <1>3, <1>4, Elsewhere
  <1>5. CASE x = p.xid
    <2>1. /\ \A q \in toServer' : q.xid # x
          /\ \A q \in toRelay : q.xid # x
      BY <1>1, <1>2, <1>5 DEF Alone
    <2>2. CASE toRelay' = toRelay
      BY <1>1, <1>2, <2>1, <2>2, GoneAstray
    <2>3. CASE toRelay' = toRelay \cup {answer}
      <3>1. Way(x) = {"passed"}
        BY <1>5, <2>1 DEF Way
      <3>2. Way(x)' = {"answered"}
        BY <1>3, <1>5, <2>1, <2>3 DEF Way
      <3>3. Hears(x) = {} /\ Hears(x)' = Hears(x)
        BY <1>1, <1>2, <1>5 DEF Linked, Hears
      <3>4. ExchangeOf(x)!Answer
        BY <1>1, <3>1, <3>2, <3>3 DEF ExchangeOf!Answer
      <3> QED BY <1>1, <1>2, <3>3, <3>4 DEF ExchangeStep, ExchangeOf!ExchangeNext, Linked
    <2> QED BY <1>1, <2>2, <2>3
  <1> QED BY <1>4, <1>5

LEMMA ExchangeSends ==
    ASSUME ExchangeInv, NEW c \in Client, NEW y \in Xid, ClientSends(c, y),
           NEW x \in Xid \ repeated'
    PROVE  ExchangeStep(x)
  <1> DEFINE ask == [xid |-> y, op |-> "request", from |-> c]
  <1>1. /\ toServer' = toServer /\ toClient' = toClient
        /\ toRelay' = toRelay \cup {ask}
        /\ asked'[x] = IF x = y THEN asked[x] \cup {c} ELSE asked[x]
    BY DEF ClientSends, TypeOK, ExchangeInv
  <1>2. /\ x \in Xid \ repeated
        /\ x = y => asked[x] = {}
    BY DEF ClientSends
  <1>3. TypeOK /\ Alone(x) /\ Linked(x) /\ OnlyAskerHears
    BY <1>2 DEF ExchangeInv, AllAlone, AllLinked
  <1>4. ask.xid = y /\ ask.op = "request"
    OBVIOUS
  <1> HIDE DEF ask
  <1>5. CASE x # y
    BY <1>1, <1>3, <1>4, <1>5, Elsewhere
  <1>6. CASE x = y
    <2>1. /\ asked[x] = {} /\ asked'[x] = {c}
          /\ \A q \in toRelay \cup toServer : q.xid # x
      BY <1>1, <1>2, <1>3, <1>6 DEF Alone
    <2>2. Hears(x)' = {} /\ Hears(x) = {}
      BY <1>1, <1>3, <2>1 DEF Hears, OnlyAskerHears
    <2>3. Way(x)' = {"sent"}
      BY <1>1, <1>4, <1>6, <2>1 DEF Way
    <2>4. ExchangeOf(x)!Ask(c)
      BY <2>1, <2>2, <2>3 DEF ExchangeOf!Ask
    <2>5. Linked(x)'
      BY <2>1, <2>2 DEF Linked
    <2> QED BY <2>4, <2>5 DEF ExchangeStep, ExchangeOf!ExchangeNext
  <1> QED BY <1>5, <1>6

LEMMA ExchangeTakes ==
    ASSUME ExchangeInv, NEW c \in Client, NEW p \in toClient[c], ClientTakes(c, p),
           NEW x \in Xid \ repeated'
    PROVE  ExchangeStep(x)
  <1>1. /\ x \in Xid \ repeated /\ asked' = asked
        /\ toRelay' = toRelay /\ toServer' = toServer
    BY DEF ClientTakes
  <1>2. Linked(x) /\ OnlyAskerHears /\ TypeOK
    BY <1>1 DEF ExchangeInv, AllLinked
  <1>3. \A d \in Client : toClient'[d] \subseteq toClient[d]
    BY <1>2 DEF ClientTakes, TypeOK
  <1>4. Way(x)' = Way(x)
    BY <1>1 DEF Way
  <1>5. Hears(x)' \subseteq Hears(x) /\ \A d, e \in Hears(x) : d = e
    BY <1>2, <1>3 DEF Hears, OnlyAskerHears, Linked
  <1>6. Linked(x)'
    BY <1>1, <1>2, <1>5 DEF Linked
  <1>7. CASE Hears(x)' = {}
    <2>1. ExchangeOf(x)!Hear
      BY <1>1, <1>4, <1>7 DEF ExchangeOf!Hear
    <2> QED BY <1>6, <2>1 DEF ExchangeStep, ExchangeOf!ExchangeNext
  <1>8. CASE Hears(x)' # {}
    <2>1. Hears(x)' = Hears(x)
      BY <1>5, <1>8
    <2> QED BY <1>1, <1>4, <1>6, <2>1 DEF ExchangeStep, ExchangeOf!exchangeVars
  <1> QED BY <1>7, <1>8

(* Every step is one of the Exchange of each number of which nothing is repeated. *)
LEMMA ExchangeEach ==
    ASSUME ExchangeInv, [Next]_vars, NEW x \in Xid \ repeated'
    PROVE  ExchangeStep(x)
  <1>1. ASSUME NEW p \in toRelay, RelayRequest(p) PROVE ExchangeStep(x)
    BY <1>1, ExchangeRequest
  <1>2. ASSUME NEW p \in toRelay, RelayReply(p) PROVE ExchangeStep(x)
    BY <1>2, ExchangeReply
  <1>3. ASSUME NEW p \in toRelay, Lost(p) PROVE ExchangeStep(x)
    <2>1. /\ x \in Xid \ repeated /\ asked' = asked
          /\ toRelay' = toRelay \ {p} /\ toServer' = toServer /\ toClient' = toClient
      BY <1>3 DEF Lost
    <2>2. Alone(x) /\ Linked(x)
      BY <2>1 DEF ExchangeInv, AllAlone, AllLinked
    <2>3. CASE x # p.xid
      BY <2>1, <2>2, <2>3, Elsewhere
    <2>4. CASE x = p.xid
      <3>1. \A q \in toRelay' \cup toServer' : q.xid # x
        BY <2>1, <2>2, <2>4 DEF Alone
      <3> QED BY <2>1, <2>2, <3>1, GoneAstray
    <2> QED BY <2>3, <2>4
  <1>4. ASSUME NEW p \in toServer, ServerTakes(p) PROVE ExchangeStep(x)
    BY <1>4, ExchangeServer
  <1>5. ASSUME NEW c \in Client, NEW y \in Xid, ClientSends(c, y) PROVE ExchangeStep(x)
    BY <1>5, ExchangeSends
  <1>6. ASSUME NEW c \in Client, NEW p \in toClient[c], ClientTakes(c, p) PROVE ExchangeStep(x)
    BY <1>6, ExchangeTakes
  <1>7. CASE UNCHANGED vars
    <2>1. /\ x \in Xid \ repeated /\ asked' = asked
          /\ toRelay' = toRelay /\ toServer' = toServer /\ toClient' = toClient
      BY <1>7 DEF vars, netVars
    <2>2. Linked(x)
      BY <2>1 DEF ExchangeInv, AllLinked
    <2> QED BY <2>1, <2>2, Elsewhere
  <1> QED BY <1>1, <1>2, <1>3, <1>4, <1>5, <1>6, <1>7 DEF Next

LEMMA ExchangeInvInit == Init => ExchangeInv
  <1> SUFFICES ASSUME Init PROVE ExchangeInv
    OBVIOUS
  <1>1. \A x \in Xid : Chain(x) = <<>>
    BY HashInBucket DEF Init, Chain
  <1>2. AskersKept /\ OnlyAskerHears /\ AllAlone
    BY <1>1 DEF Init, AskersKept, OnlyAskerHears, AllAlone, Alone, Remembered, Known
  <1>3. ChainsSound /\ AllLinked
    BY DEF Init, ChainsSound, AllLinked, Linked
  <1> QED BY <1>2, <1>3, TypeInit DEF ExchangeInv

LEMMA ExchangeInvStep == ExchangeInv /\ [Next]_vars => ExchangeInv'
  <1> SUFFICES ASSUME ExchangeInv, [Next]_vars PROVE ExchangeInv'
    OBVIOUS
  <1>1. \A x \in Xid \ repeated' : Linked(x)'
    BY ExchangeEach DEF ExchangeStep
  <1>2. AllLinked'
    BY <1>1 DEF AllLinked
  <1> QED BY <1>2, TypeStep, SoundStep, AskersStep, AloneStep DEF ExchangeInv

LEMMA ExchangeStart == ASSUME Init, NEW x \in Xid PROVE ExchangeOf(x)!ExchangeInit
BY DEF Init, Way, Hears, ExchangeOf!ExchangeInit

(* A number of which nothing is repeated goes through one Exchange, whatever     *)
(* happens to the others (ImplementsExchange).                                   *)
THEOREM MereLink == Spec => ImplementsExchange
  <1>1. Init => \A x \in Xid : ExchangeOf(x)!ExchangeInit
    BY ExchangeStart
  <1>2. ExchangeInv /\ [Next]_vars =>
          [\A x \in Xid \ repeated' :
             [ExchangeOf(x)!ExchangeNext]_(ExchangeOf(x)!exchangeVars)]_vars
    BY ExchangeEach DEF ExchangeStep
  <1> QED BY <1>1, <1>2, ExchangeInvInit, ExchangeInvStep, PTL DEF Spec, ImplementsExchange

(* The relay implements Exchange for each number of which nothing is ever repeated. *)
THEOREM LinkImplements ==
    ASSUME NEW CONSTANT x \in Xid
    PROVE  Spec /\ [](x \notin repeated) => ExchangeOf(x)!ExchangeSpec
  <1>1. Init => ExchangeOf(x)!ExchangeInit
    BY ExchangeStart
  <1>2. ExchangeInv /\ [Next]_vars /\ (x \notin repeated)' =>
          [ExchangeOf(x)!ExchangeNext]_(ExchangeOf(x)!exchangeVars)
    BY ExchangeEach DEF ExchangeStep
  <1> QED BY <1>1, <1>2, ExchangeInvInit, ExchangeInvStep, PTL DEF Spec, ExchangeOf!ExchangeSpec
=============================================================================

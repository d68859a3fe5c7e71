-------------------------- MODULE DhcpServerProofs --------------------------
(***************************************************************************)
(* Proofs about DhcpServer, for every set of clients, every range, every   *)
(* lease time, queue capacity and bound.                                   *)
(***************************************************************************)
EXTENDS DhcpServer, TLAPS, SequenceTheorems, WellFoundedInduction

-----------------------------------------------------------------------------
(* The pool is a non-empty interval of positive numbers, and Beyond is outside. *)
LEMMA PoolFacts ==
    /\ EndIp \in Nat /\ StartIp <= EndIp /\ StartIp > 0
    /\ PoolSize = EndIp - StartIp + 1
    /\ Pool \subseteq Ip /\ Ip \subseteq Nat /\ 0 \notin Ip
    /\ StartIp \in Pool
    /\ \A ip \in Ip : ip >= StartIp
  BY RangeAssumption DEF EndIp, Pool, PoolSize, Ip, Beyond

(* The search of assign_ip_address stays in the pool, and so does its cursor. *)
LEMMA SearchInPool ==
    ASSUME last_assigned_ip \in Pool \cup {0}
    PROVE  /\ Cursor \in Pool
           /\ \A k \in 0..(PoolSize - 1) : Nth(k) \in Pool
           /\ \A ip \in Ip : Assignable(ip) => ip \in Pool /\ Miss(ip)
           /\ \A ip \in Ip : After(ip) \in Pool
<1>1. Cursor \in Pool
  BY PoolFacts DEF Cursor
<1>2. ASSUME NEW k \in 0..(PoolSize - 1) PROVE Nth(k) \in Pool
  BY <1>1, PoolFacts, RangeAssumption DEF Nth, Pool
<1>3. \A ip \in Ip : Assignable(ip) => ip \in Pool /\ Miss(ip)
  BY <1>2 DEF Assignable
<1>4. \A ip \in Ip : After(ip) \in Pool
  BY PoolFacts, RangeAssumption DEF After, Pool
<1> QED BY <1>1, <1>2, <1>3, <1>4

(* Among the places of a search there is a first, as < is well-founded. *)
Less == {ss \in Nat \X Nat : ss[1] < ss[2]}

LEMMA First ==
    ASSUME NEW T \in SUBSET Nat, T # {}
    PROVE  \E k \in T : \A j \in T : k <= j
<1>1. IsWellFoundedOn(Less, Nat)
  BY NatLessThanWellFounded DEF OpToRel, Less
<1>2. PICK k \in T : \A j \in T : ~ (<<j, k>> \in Less)
  BY <1>1, WFMin
<1>3. \A j \in T : ~ (j < k)
  BY <1>2 DEF Less
<1> QED BY <1>3

(* From the cursor on, the search comes to every address of the pool. *)
LEMMA SearchGoesRound ==
    ASSUME last_assigned_ip \in Pool \cup {0}, NEW ip \in Pool
    PROVE  \E k \in 0..(PoolSize - 1) : Nth(k) = ip
<1>1. Cursor \in Pool
  BY SearchInPool
<1>2. PICK c \in StartIp..EndIp : Cursor = c
  BY <1>1 DEF Pool
<1>3. ip \in StartIp..EndIp /\ StartIp \in Nat /\ EndIp \in Nat
  BY PoolFacts, RangeAssumption DEF Pool
<1>4. CASE ip >= c
  <2>1. ip - c \in 0..(PoolSize - 1) /\ ~ (c + (ip - c) > EndIp) /\ c + (ip - c) = ip
    BY <1>2, <1>3, <1>4, PoolFacts
  <2> QED BY <1>2, <2>1 DEF Nth
<1>5. CASE ip < c
  <2> DEFINE k == ip - c + PoolSize
  <2>1. k \in 0..(PoolSize - 1) /\ c + k > EndIp /\ c + k - PoolSize = ip
    BY <1>2, <1>3, <1>5, PoolFacts
  <2> QED BY <1>2, <2>1 DEF Nth
<1> QED BY <1>2, <1>3, <1>4, <1>5

(* So it ends: unless it finds every address, it meets a first one it misses. *)
LEMMA SearchEnds ==
    ASSUME TypeOK
    PROVE  Exhausted \/ \E ip \in Pool : Assignable(ip)
<1> SUFFICES ASSUME NEW free \in Pool, ~Hit(free) PROVE \E ip \in Pool : Assignable(ip)
  BY DEF Exhausted
<1> DEFINE Missed == {k \in 0..(PoolSize - 1) : ~Hit(Nth(k))}
<1>1. Missed # {} /\ Missed \in SUBSET Nat
  <2>1. PICK k \in 0..(PoolSize - 1) : Nth(k) = free
    <3>1. last_assigned_ip \in Pool \cup {0}
      BY DEF TypeOK
    <3> QED BY <3>1, SearchGoesRound
  <2> QED BY <2>1
<1>2. PICK k \in Missed : \A j \in Missed : k <= j
  <2> HIDE DEF Missed
  <2> QED BY <1>1, First
<1>3. k \in 0..(PoolSize - 1) /\ Nth(k) \in Pool /\ ~Hit(Nth(k))
  BY SearchInPool DEF TypeOK
<1>4. Miss(Nth(k))
  BY <1>3, PoolFacts DEF Hit, Miss
<1>5. ASSUME NEW j \in 0..(k - 1) PROVE Hit(Nth(j))
  <2>1. j \in 0..(PoolSize - 1) /\ ~ (k <= j)
    BY <1>3, PoolFacts
  <2> QED BY <1>2, <2>1
<1>6. Assignable(Nth(k))
  BY <1>3, <1>4, <1>5 DEF Assignable
<1> QED BY <1>3, <1>6

(* While lookups see what is held, the first address missed is the only outcome. *)
LEMMA SearchAgrees ==
    ASSUME TypeOK, ~freed, NEW i \in Ip, Assignable(i)
    PROVE  ~Exhausted /\ \A j \in Ip : Assignable(j) => i = j
<1>1. ASSUME NEW j \in Ip PROVE ~ (Hit(j) /\ Miss(j))
  BY <1>1 DEF Hit, Miss
<1>2. i \in Pool /\ Miss(i)
  BY SearchInPool DEF TypeOK
<1>3. ~Exhausted
  BY <1>1, <1>2 DEF Exhausted
<1>4. ASSUME NEW j \in Ip, Assignable(j) PROVE i = j
  <2>1. PICK k \in 0..(PoolSize - 1) :
          i = Nth(k) /\ Miss(i) /\ \A n \in 0..(k - 1) : Hit(Nth(n))
    BY DEF Assignable
  <2>2. PICK l \in 0..(PoolSize - 1) :
          j = Nth(l) /\ Miss(j) /\ \A n \in 0..(l - 1) : Hit(Nth(n))
    BY <1>4 DEF Assignable
  <2>3. ~ (k \in 0..(l - 1)) /\ ~ (l \in 0..(k - 1))
    BY <1>1, <2>1, <2>2
  <2>4. k = l
    BY <2>3, PoolFacts
  <2> QED BY <2>1, <2>2, <2>4
<1> QED BY <1>3, <1>4

-----------------------------------------------------------------------------
(* What the registry is, besides its type: client numbers are handed out in     *)
(* order, only a number that got a thread has an entry, a running handler knows *)
(* its client, and no later number has the block of a running handler.          *)
NumbersFresh == \A h \in Handler : h >= client_id_counter => thread[h] = "none"
EntryOfThread == \A h \in client_threads : thread[h] \notin {"none", "leaked"}
ClientKnown == \A h \in Handler : Live(h) => chaddr[h] \in Mac
BlockKept ==
    \A g, k \in Handler : Live(g) /\ k > g /\ info[k] = info[g] => thread[k] = "none"
RegistryInv == NumbersFresh /\ EntryOfThread /\ ClientKnown /\ BlockKept

(* While msgsnd blocks, main holds a packet for a handler. *)
PendingInv == main = "send" => pending.to \in Handler /\ pending.packet \in Packet

CoreInv == TypeOK /\ RegistryInv /\ PendingInv

LEMMA CoreInit == Init => CoreInv
<1> SUFFICES ASSUME Init PROVE CoreInv
  OBVIOUS
<1> USE DEF Init
<1>1. TypeOK
  <2>1. client_id_counter \in 1..(MaxClients + 1)
    BY BoundsAssumption
  <2>2. info \in [Handler -> Block]
    OBVIOUS
  <2>3. /\ queue \in [Handler -> Seq(Packet)]
        /\ acks \in [Handler -> Seq([mac : Mac, ip : Ip])]
    BY EmptySeq
  <2>4. holder \in [Ip -> Mac \cup {Nobody}] /\ start \in [Ip -> Nat]
    OBVIOUS
  <2> QED BY <2>1, <2>2, <2>3, <2>4 DEF TypeOK
<1>2. RegistryInv
  BY DEF RegistryInv, NumbersFresh, EntryOfThread, ClientKnown, BlockKept, Live
<1>3. PendingInv
  BY DEF PendingInv
<1> QED BY <1>1, <1>2, <1>3 DEF CoreInv

(* The parts of the state the table operations change keep their types. *)
LEMMA InsertType ==
    ASSUME TypeOK, NEW ip \in Ip, NEW m \in Mac, Insert(ip, m)
    PROVE  /\ holder' \in [Ip -> Mac \cup {Nobody}] /\ start' \in [Ip -> Nat]
           /\ root' \in Ip \cup {0} /\ freed' \in BOOLEAN
  BY DEF TypeOK, Insert

LEMMA AckType ==
    ASSUME TypeOK, NEW h \in Handler, NEW ip \in Ip, NEW m \in Mac, send_dhcp_ack(h, m, ip)
    PROVE  /\ acks' \in [Handler -> Seq([mac : Mac, ip : Ip])]
           /\ promised' \in [Mac -> SUBSET Ip]
<1>1. acks \in [Handler -> Seq([mac : Mac, ip : Ip])] /\ promised \in [Mac -> SUBSET Ip]
  BY DEF TypeOK
<1>2. Append(acks[h], [mac |-> m, ip |-> ip]) \in Seq([mac : Mac, ip : Ip])
  BY <1>1, AppendProperties
<1> QED BY <1>1, <1>2 DEF send_dhcp_ack

LEMMA DiscoverType ==
    ASSUME TypeOK, NEW m \in Mac, handle_dhcp_discover(m)
    PROVE  /\ holder' \in [Ip -> Mac \cup {Nobody}] /\ start' \in [Ip -> Nat]
           /\ root' \in Ip \cup {0} /\ freed' \in BOOLEAN
           /\ last_assigned_ip' \in Pool \cup {0}
           /\ acks' \in [Handler -> Seq([mac : Mac, ip : Ip])]
           /\ promised' \in [Mac -> SUBSET Ip]
<1>0. last_assigned_ip \in Pool \cup {0}
  BY DEF TypeOK
<1>1. CASE \E ip \in Ip : /\ Insert(ip, m)
                         /\ last_assigned_ip' = After(ip)
                         /\ send_dhcp_offer(m, ip)
  <2> PICK ip \in Ip : /\ Insert(ip, m)
                       /\ last_assigned_ip' = After(ip)
                       /\ send_dhcp_offer(m, ip)
    BY <1>1
  <2>1. promised' \in [Mac -> SUBSET Ip] /\ acks' = acks
    BY DEF send_dhcp_offer, TypeOK
  <2> QED BY <1>0, <2>1, InsertType, SearchInPool DEF TypeOK
<1>2. CASE send_dhcp_nak /\ last_assigned_ip' = Cursor /\ UNCHANGED treeVars
  BY <1>0, <1>2, SearchInPool DEF TypeOK, send_dhcp_nak, historyVars, treeVars
<1> QED BY <1>1, <1>2 DEF handle_dhcp_discover

(* The range check lets the pool through and nothing else. *)
LEMMA RangeIsPool == \A ip \in Ip \cup {0} : InRange(ip) <=> ip \in Pool
  BY PoolFacts, RangeAssumption DEF InRange, Pool

LEMMA RequestType ==
    ASSUME TypeOK, NEW h \in Handler, NEW m \in Mac, NEW ip \in Ip \cup {0},
           handle_dhcp_request(h, m, ip)
    PROVE  /\ holder' \in [Ip -> Mac \cup {Nobody}] /\ start' \in [Ip -> Nat]
           /\ root' \in Ip \cup {0} /\ freed' \in BOOLEAN
           /\ last_assigned_ip' \in Pool \cup {0}
           /\ acks' \in [Handler -> Seq([mac : Mac, ip : Ip])]
           /\ promised' \in [Mac -> SUBSET Ip]
<1>1. CASE ip \in Pool /\ send_dhcp_ack(h, m, ip) /\ UNCHANGED treeVars
  BY <1>1, AckType, PoolFacts DEF TypeOK, treeVars, handle_dhcp_request
<1>2. CASE ip \in Pool /\ send_dhcp_ack(h, m, ip) /\ Insert(ip, m)
  BY <1>2, AckType, InsertType, PoolFacts DEF TypeOK, handle_dhcp_request
<1>3. CASE send_dhcp_nak /\ UNCHANGED treeVars
  BY <1>3 DEF TypeOK, send_dhcp_nak, historyVars, treeVars, handle_dhcp_request
<1> QED BY <1>1, <1>2, <1>3, RangeIsPool DEF handle_dhcp_request

LEMMA RenewType ==
    ASSUME TypeOK, NEW m, NEW ip, RenewLease(m, ip)
    PROVE  start' \in [Ip -> Nat] /\ UNCHANGED <<holder, root, freed>>
  BY DEF RenewLease, TypeOK

(* The message a handler takes is a packet, and its queue stays one of packets. *)
LEMMA TakeType ==
    ASSUME TypeOK, NEW h \in Handler, NEW kind, Take(h, kind)
    PROVE  /\ Head(queue[h]) \in Packet /\ queue' \in [Handler -> Seq(Packet)]
           /\ Head(queue[h]).mac \in Mac /\ Head(queue[h]).ip \in Ip \cup {0}
<1>1. queue[h] \in Seq(Packet) /\ queue[h] # <<>>
  BY DEF TypeOK, Take
<1>2. Head(queue[h]) \in Packet /\ Tail(queue[h]) \in Seq(Packet)
  BY <1>1, HeadTailProperties
<1>3. queue' \in [Handler -> Seq(Packet)]
  BY <1>2 DEF TypeOK, Take
<1> QED BY <1>2, <1>3 DEF Packet

-----------------------------------------------------------------------------
(* Steps that leave the registry alone and at most take a running handler on    *)
(* keep RegistryInv; steps that do not block main keep PendingInv.              *)
ThreadsGoOn == \A h \in Handler :
    /\ (thread[h] = "none") <=> (thread'[h] = "none")
    /\ (thread[h] = "leaked") <=> (thread'[h] = "leaked")
    /\ (thread[h] = "gone") => (thread'[h] = "gone")

LEMMA RegistryKept ==
    ASSUME TypeOK, RegistryInv, UNCHANGED registryVars, ThreadsGoOn
    PROVE  RegistryInv'
<1> USE DEF RegistryInv, registryVars
<1>1. NumbersFresh' /\ EntryOfThread'
  BY DEF NumbersFresh, EntryOfThread, ThreadsGoOn, TypeOK
<1>2. ASSUME NEW h \in Handler, Live(h)' PROVE Live(h)
  BY <1>2 DEF Live, ThreadsGoOn
<1>3. ClientKnown'
  BY <1>2 DEF ClientKnown
<1>4. BlockKept'
  BY <1>2 DEF BlockKept, ThreadsGoOn
<1> QED BY <1>1, <1>3, <1>4

LEMMA MainStepCore == ASSUME CoreInv, MainStep PROVE CoreInv'
<1> USE DEF CoreInv
<1>1. CASE Sweep
  <2>1. RegistryInv'
    BY <1>1, RegistryKept DEF ThreadsGoOn, Sweep, handlerVars, TypeOK
  <2>2. root' \in Ip \cup {0} /\ freed' \in BOOLEAN
    <3>1. CASE UNCHANGED <<root, freed>>
      BY <3>1 DEF TypeOK
    <3>2. CASE root' \in NewRoot(root, Held \ Expired) /\ UNCHANGED freed
      BY <3>2 DEF TypeOK, NewRoot, Held, Successors
    <3>3. CASE root' = 0 /\ freed' = TRUE
      BY <3>3
    <3> QED BY <1>1, <3>1, <3>2, <3>3 DEF Sweep
  <2>3. /\ holder' \in [Ip -> Mac \cup {Nobody}] /\ start' \in [Ip -> Nat]
        /\ promised' \in [Mac -> SUBSET Ip]
    BY <1>1 DEF Sweep, Reclaimed, TypeOK
  <2>4. main' \in {"recv", "blocked"}
    BY <1>1 DEF Sweep
  <2> QED BY <1>1, <2>1, <2>2, <2>3, <2>4
          DEF Sweep, Reclaimed, TypeOK, PendingInv, registryVars, handlerVars
<1>2. CASE SweepFreedRoot \/ SweepRescued \/ Ignore
  <2>1. /\ main' \in {"recv", "sweep", "aborted", "blocked"}
        /\ UNCHANGED <<pending, registryVars, handlerVars, queue, treeVars,
                       last_assigned_ip, now, historyVars>>
    BY <1>2 DEF SweepFreedRoot, SweepRescued, Ignore
  <2>2. RegistryInv'
    BY <2>1, RegistryKept DEF ThreadsGoOn, handlerVars, TypeOK
  <2> QED BY <2>1, <2>2
          DEF TypeOK, PendingInv, registryVars, handlerVars, treeVars, historyVars
<1>3. CASE Unblock
  <2>1. RegistryInv'
    BY <1>3, RegistryKept DEF ThreadsGoOn, Unblock, handlerVars, TypeOK
  <2>2. pending.to \in Handler /\ pending.packet \in Packet
    BY <1>3 DEF Unblock, PendingInv
  <2>3. queue' \in [Handler -> Seq(Packet)] /\ main' = "sweep"
    <3>1. CASE Deliver(pending.to, pending.packet)
      <4>1. Append(queue[pending.to], pending.packet) \in Seq(Packet)
        BY <2>2, AppendProperties DEF TypeOK
      <4> QED BY <3>1, <4>1 DEF Deliver, TypeOK
    <3>2. CASE main' = "sweep" /\ UNCHANGED queue
      BY <3>2 DEF TypeOK
    <3> QED BY <1>3, <3>1, <3>2 DEF Unblock
  <2> QED BY <1>3, <2>1, <2>3
          DEF Unblock, TypeOK, PendingInv, registryVars, handlerVars, treeVars, historyVars
<1> QED BY <1>1, <1>2, <1>3 DEF MainStep

LEMMA ReceiveCore == ASSUME CoreInv, NEW p \in Packet, Receive(p) PROVE CoreInv'
<1> USE DEF CoreInv
<1>0. p.mac \in Mac
  BY DEF Packet
<1>1. CASE Forward(p)
  <2>1. RegistryInv'
    BY <1>1, RegistryKept DEF ThreadsGoOn, Forward, handlerVars, TypeOK
  <2>2. \/ /\ queue' \in [Handler -> Seq(Packet)] /\ main' = "sweep"
           /\ UNCHANGED pending
        \/ /\ UNCHANGED queue /\ main' = "send"
           /\ pending' \in [to : Handler, packet : Packet]
    <3>1. ASSUME NEW g \in Handler, Deliver(g, p)
          PROVE  queue' \in [Handler -> Seq(Packet)] /\ main' = "sweep"
      BY <3>1, AppendProperties DEF Deliver, TypeOK
    <3> QED BY <1>1, <3>1 DEF Forward, Target, LastIn, TypeOK
  <2> QED BY <1>1, <2>1, <2>2
          DEF Forward, TypeOK, PendingInv, registryVars, handlerVars, treeVars, historyVars
<1>2. CASE NewClient(p) /\ (Spawn(p) \/ SpawnFails(p))
  <2> DEFINE h == client_id_counter
  <2>1. h \in Handler /\ thread[h] = "none" /\ h \notin client_threads
    BY <1>2 DEF NewClient, RegistryInv, NumbersFresh, EntryOfThread, TypeOK, Handler
  <2> PICK b \in Block : FreeBlock(b) /\ info' = [info EXCEPT ![h] = b]
    BY <1>2 DEF NewClient
  <2>2. PICK t \in {"start", "gone", "leaked"} : thread' = [thread EXCEPT ![h] = t]
    BY <1>2 DEF Spawn, SpawnFails
  <2>3. /\ client_threads' \in {client_threads, client_threads \cup {h}}
        /\ h \in client_threads' => t = "start"
        /\ t = "start" => chaddr' = [chaddr EXCEPT ![h] = p.mac]
        /\ chaddr' = chaddr \/ chaddr' = [chaddr EXCEPT ![h] = p.mac]
    <3>1. CASE Spawn(p)
      <4>1. thread'[h] = "start"
        BY <2>1, <3>1 DEF Spawn, TypeOK
      <4>2. t = "start"
        BY <2>1, <2>2, <4>1 DEF TypeOK
      <4> QED BY <3>1, <4>2 DEF Spawn
    <3>2. CASE SpawnFails(p)
      <4>1. thread'[h] \in {"gone", "leaked"}
        BY <2>1, <3>2 DEF SpawnFails, TypeOK
      <4>2. t # "start"
        BY <2>1, <2>2, <4>1 DEF TypeOK
      <4> QED BY <2>1, <3>2, <4>2 DEF SpawnFails
    <3> QED BY <1>2, <3>1, <3>2
  <2>4. client_id_counter' = h + 1 /\ h \in Nat /\ h + 1 \in 1..(MaxClients + 1)
    BY <1>2, <2>1, BoundsAssumption DEF NewClient, Handler
  <2>5. main' = "sweep"
    BY <1>2 DEF NewClient
  <2>6. TypeOK'
    <3>1. /\ thread' \in [Handler -> {"none", "start", "loop", "delete", "done", "gone",
                                      "leaked"}]
          /\ chaddr' \in [Handler -> Mac \cup {Nobody}]
          /\ info' \in [Handler -> Block] /\ client_threads' \subseteq Handler
      BY <1>0, <2>1, <2>2, <2>3 DEF TypeOK
    <3> QED BY <1>2, <2>4, <2>5, <3>1 DEF NewClient, TypeOK, treeVars, historyVars
  <2>7. NumbersFresh'
    BY <2>1, <2>2, <2>4 DEF TypeOK, RegistryInv, NumbersFresh, Handler
  <2>8. EntryOfThread'
    BY <2>1, <2>2, <2>3 DEF TypeOK, RegistryInv, EntryOfThread
  <2>9. ClientKnown'
    <3> SUFFICES ASSUME NEW k \in Handler, Live(k)' PROVE chaddr'[k] \in Mac
      BY DEF ClientKnown
    <3>1. CASE k = h
      <4>1. t = "start"
        BY <2>1, <2>2, <3>1 DEF Live, TypeOK
      <4> QED BY <1>0, <2>1, <2>3, <3>1, <4>1 DEF TypeOK
    <3>2. CASE k # h
      <4>1. thread'[k] = thread[k] /\ chaddr'[k] = chaddr[k]
        BY <2>2, <2>3, <3>2 DEF TypeOK
      <4> QED BY <4>1 DEF Live, RegistryInv, ClientKnown
    <3> QED BY <3>1, <3>2
  <2>10. BlockKept'
    <3> SUFFICES ASSUME NEW g \in Handler, NEW k \in Handler, Live(g)', k > g,
                        info'[k] = info'[g]
                 PROVE  thread'[k] = "none"
      BY DEF BlockKept
    <3>1. g \in Nat /\ k \in Nat /\ h \in Nat
      BY <2>4 DEF Handler
    <3>2. k # h
      <4>1. CASE g # h
        BY <2>1, <2>2, <4>1 DEF FreeBlock, Live, TypeOK
      <4>2. CASE g = h
        BY <3>1, <4>2
      <4> QED BY <4>1, <4>2
    <3>3. CASE g = h
      BY <2>2, <3>1, <3>2, <3>3 DEF RegistryInv, NumbersFresh, TypeOK
    <3>4. CASE g # h
      BY <2>2, <3>2, <3>4 DEF RegistryInv, BlockKept, Live, TypeOK
    <3> QED BY <3>3, <3>4
  <2>11. PendingInv'
    BY <2>5 DEF PendingInv
  <2> QED BY <2>6, <2>7, <2>8, <2>9, <2>10, <2>11 DEF RegistryInv
<1> QED BY <1>1, <1>2 DEF Receive, Spawn, SpawnFails

LEMMA HandlerStepCore ==
    ASSUME CoreInv, NEW h \in Handler, HandlerStep(h) \/ Delete(h) PROVE CoreInv'
<1> USE DEF CoreInv
<1>1. CASE FirstDiscover(h)
  <2>1. chaddr[h] \in Mac
    BY <1>1 DEF FirstDiscover, RegistryInv, ClientKnown, Live
  <2>2. RegistryInv'
    BY <1>1, RegistryKept DEF ThreadsGoOn, FirstDiscover, TypeOK
  <2> QED BY <1>1, <2>1, <2>2, DiscoverType
          DEF FirstDiscover, TypeOK, PendingInv, mainVars, registryVars
<1>2. CASE TakeDiscover(h)
  <2>1. Head(queue[h]).mac \in Mac /\ queue' \in [Handler -> Seq(Packet)]
    BY <1>2, TakeType DEF TakeDiscover
  <2>2. RegistryInv'
    BY <1>2, RegistryKept DEF ThreadsGoOn, TakeDiscover, Take, TypeOK, handlerVars
  <2> QED BY <1>2, <2>1, <2>2, DiscoverType
          DEF TakeDiscover, Take, TypeOK, PendingInv, mainVars, registryVars, handlerVars
<1>3. CASE TakeRequest(h)
  <2>1. /\ Head(queue[h]).mac \in Mac /\ Head(queue[h]).ip \in Ip \cup {0}
        /\ queue' \in [Handler -> Seq(Packet)]
    BY <1>3, TakeType DEF TakeRequest
  <2>2. RegistryInv'
    BY <1>3, RegistryKept DEF ThreadsGoOn, TakeRequest, Take, TypeOK
  <2> DEFINE p == Head(queue[h])
  <2>3. CASE RenewLease(p.mac, p.ip) /\ UNCHANGED <<ack_sent, last_assigned_ip, historyVars>>
    <3>1. /\ start' \in [Ip -> Nat] /\ UNCHANGED <<holder, root, freed>>
      BY <2>3, RenewType
    <3> QED BY <1>3, <2>1, <2>2, <2>3, <3>1
            DEF TakeRequest, Take, TypeOK, PendingInv, mainVars, registryVars, historyVars
  <2>4. CASE handle_dhcp_request(h, p.mac, p.ip) /\ ack_sent' = [ack_sent EXCEPT ![h] = TRUE]
    BY <1>3, <2>1, <2>2, <2>4, RequestType
       DEF TakeRequest, Take, TypeOK, PendingInv, mainVars, registryVars
  <2> QED BY <1>3, <2>3, <2>4 DEF TakeRequest
<1>4. CASE TakeEnd(h)
  <2>1. Head(queue[h]) \in Packet /\ queue' \in [Handler -> Seq(Packet)]
    BY <1>4, TakeType DEF TakeEnd
  <2>2. thread' = [thread EXCEPT ![h] = "delete"] \/ thread' = [thread EXCEPT ![h] = "done"]
    BY <1>4 DEF TakeEnd
  <2>3. req' \in [Handler -> Packet \cup {NoPacket}]
    BY <1>4, <2>1 DEF TakeEnd, TypeOK
  <2>4. /\ thread[h] = "loop"
        /\ UNCHANGED <<mainVars, registryVars, now, ack_sent, treeVars, last_assigned_ip,
                       historyVars>>
    BY <1>4 DEF TakeEnd, Take
  <2>5. RegistryInv'
    BY <2>2, <2>4, RegistryKept DEF ThreadsGoOn, TypeOK
  <2> QED BY <2>1, <2>2, <2>3, <2>4, <2>5
          DEF TypeOK, PendingInv, mainVars, registryVars, treeVars, historyVars
<1>5. CASE TakeOther(h)
  <2>1. queue' \in [Handler -> Seq(Packet)]
    BY <1>5, TakeType DEF TakeOther
  <2>2. RegistryInv'
    BY <1>5, RegistryKept DEF ThreadsGoOn, TakeOther, Take, TypeOK, handlerVars
  <2> QED BY <1>5, <2>1, <2>2
          DEF TakeOther, Take, TypeOK, PendingInv, mainVars, registryVars, handlerVars,
              treeVars, historyVars
<1>6. CASE Close(h)
  <2>1. queue' \in [Handler -> Seq(Packet)]
    BY <1>6, EmptySeq DEF Close, TypeOK
  <2>2. RegistryInv'
    BY <1>6, RegistryKept DEF ThreadsGoOn, Close, TypeOK
  <2> QED BY <1>6, <2>1, <2>2
          DEF Close, TypeOK, PendingInv, mainVars, registryVars, treeVars, historyVars
<1>7. CASE Delete(h)
  <2> DEFINE ip == req[h].ip
  <2>1. root' \in Ip \cup {0}
    BY <1>7 DEF Delete, NewRoot, Successors, Held, TypeOK
  <2>2. /\ holder' \in [Ip -> Mac \cup {Nobody}] /\ start' \in [Ip -> Nat]
        /\ promised' \in [Mac -> SUBSET Ip]
    BY <1>7 DEF Delete, TypeOK
  <2>3. RegistryInv'
    BY <1>7, RegistryKept DEF ThreadsGoOn, Delete, TypeOK
  <2> QED BY <1>7, <2>1, <2>2, <2>3
          DEF Delete, TypeOK, PendingInv, mainVars, registryVars
<1> QED BY <1>1, <1>2, <1>3, <1>4, <1>5, <1>6, <1>7 DEF HandlerStep

LEMMA CoreStep == CoreInv /\ [Next]_vars => CoreInv'
<1> SUFFICES ASSUME CoreInv, [Next]_vars PROVE CoreInv'
  OBVIOUS
<1>1. CASE MainStep
  BY <1>1, MainStepCore
<1>2. ASSUME NEW p \in Packet, Receive(p) PROVE CoreInv'
  BY <1>2, ReceiveCore
<1>3. ASSUME NEW h \in Handler, HandlerStep(h) \/ Delete(h) PROVE CoreInv'
  BY <1>3, HandlerStepCore
<1>4. CASE Tick
  <2>1. RegistryInv'
    BY <1>4, RegistryKept DEF ThreadsGoOn, Tick, handlerVars, TypeOK, CoreInv
  <2>2. now' \in Nat
    BY <1>4 DEF Tick, TypeOK, CoreInv
  <2> QED BY <1>4, <2>1, <2>2
          DEF Tick, CoreInv, TypeOK, PendingInv, mainVars, registryVars, handlerVars,
              treeVars, historyVars
<1>5. CASE UNCHANGED vars
  <2>1. RegistryInv'
    BY <1>5, RegistryKept DEF ThreadsGoOn, vars, handlerVars, TypeOK, CoreInv
  <2> QED BY <1>5, <2>1
          DEF vars, CoreInv, TypeOK, PendingInv, mainVars, registryVars, handlerVars,
              treeVars, historyVars
<1> QED BY <1>1, <1>2, <1>3, <1>4, <1>5 DEF Next, NextFor

(* The type invariant of the server holds. *)
THEOREM TypeCorrect == Spec => []TypeOK
<1>1. Spec => []CoreInv
  BY CoreInit, CoreStep, PTL DEF Spec
<1>2. CoreInv => TypeOK
  BY DEF CoreInv
<1> QED BY <1>1, <1>2, PTL

LEMMA CoreCorrect == Spec => []CoreInv
  BY CoreInit, CoreStep, PTL DEF Spec

(* The block of a running handler is nobody else's. *)
LEMMA LiveTarget ==
    ASSUME RegistryInv, NEW h \in Handler, Live(h) PROVE Target(h) = {h}
<1>1. h \in Target(h)
  BY DEF Target, LastIn, HasQueue, Live, RegistryInv, BlockKept
<1>2. ASSUME NEW g \in Target(h) PROVE g = h
  <2>1. /\ g \in Handler /\ info[g] = info[h] /\ thread[g] # "none"
        /\ \A k \in Handler : k > g /\ info[k] = info[h] => thread[k] = "none"
    BY <1>2 DEF Target, LastIn
  <2>2. ~ (g > h) /\ ~ (h > g)
    BY <2>1 DEF RegistryInv, BlockKept, Live
  <2> QED BY <2>1, <2>2 DEF Handler
<1> QED BY <1>1, <1>2

(* The entry of a running handler leads to its own queue. *)
THEOREM Routing == Spec => []RoutedHome
<1>1. CoreInv => RoutedHome
  <2> SUFFICES ASSUME CoreInv, NEW h \in client_threads, Live(h) PROVE Target(h) = {h}
    BY DEF RoutedHome
  <2> QED BY LiveTarget DEF CoreInv, TypeOK
<1> QED BY <1>1, CoreCorrect, PTL

-----------------------------------------------------------------------------
(* Packets in the queue of another client.  m may be in the queue of h: *)
MayBeIn(m, h) == m = chaddr[h] \/ EndedInBlock(m, h)

(* Numbers not yet given have no packets. *)
NumberedQueues ==
    /\ \A h \in Handler : thread[h] = "none" => DOMAIN queue[h] = {}
    /\ main = "send" => thread[pending.to] # "none"
StrayInv == StrayedByReuse /\ NumberedQueues

(* What is known of the numbers that were given does not change. *)
RegistryGrows ==
    /\ client_threads \subseteq client_threads'
    /\ \A h \in Handler :
          /\ thread'[h] = "none" => thread[h] = "none"
          /\ thread[h] # "none" =>
                /\ thread'[h] # "none" /\ chaddr'[h] = chaddr[h] /\ info'[h] = info[h]
                /\ thread[h] = "gone" => thread'[h] = "gone"

LEMMA GoOnGrows ==
    ASSUME UNCHANGED registryVars, ThreadsGoOn PROVE RegistryGrows
  BY DEF registryVars, ThreadsGoOn, RegistryGrows

LEMMA NewClientGrows ==
    ASSUME CoreInv, NEW p \in Packet, Spawn(p) \/ SpawnFails(p) PROVE RegistryGrows
<1> DEFINE h == client_id_counter
<1>1. h \in Handler /\ thread[h] = "none"
  BY DEF Spawn, SpawnFails, NewClient, CoreInv, RegistryInv, NumbersFresh, Handler
<1>2. \A k \in Handler : k # h =>
        thread'[k] = thread[k] /\ chaddr'[k] = chaddr[k] /\ info'[k] = info[k]
  BY DEF Spawn, SpawnFails, NewClient, CoreInv, TypeOK
<1>3. client_threads \subseteq client_threads' /\ thread'[h] # "none"
  BY <1>1 DEF Spawn, SpawnFails, CoreInv, TypeOK
<1> QED BY <1>1, <1>2, <1>3 DEF RegistryGrows

LEMMA MayStay ==
    ASSUME CoreInv, RegistryGrows, NEW m, NEW h \in Handler, thread[h] # "none", MayBeIn(m, h)
    PROVE  MayBeIn(m, h)'
<1>1. CASE m = chaddr[h]
  BY <1>1 DEF RegistryGrows, MayBeIn
<1>2. ASSUME NEW g \in Entry(m), thread[g] = "gone", info[g] = info[h] PROVE MayBeIn(m, h)'
  <2>1. g \in Handler /\ g \in client_threads' /\ chaddr'[g] = m
    BY <1>2 DEF Entry, CoreInv, TypeOK, RegistryGrows
  <2>2. thread'[g] = "gone" /\ info'[g] = info'[h]
    BY <1>2, <2>1 DEF RegistryGrows
  <2> QED BY <2>1, <2>2 DEF MayBeIn, EndedInBlock, Entry
<1> QED BY <1>1, <1>2 DEF MayBeIn, EndedInBlock

(* Steps that add to a queue, or block main with, only what may be there. *)
FromQueues(h) == \A i \in DOMAIN queue'[h] :
    \/ \E j \in DOMAIN queue[h] : queue'[h][i] = queue[h][j]
    \/ thread[h] # "none" /\ MayBeIn(queue'[h][i].mac, h)
SendsOwn == main' = "send" =>
    /\ pending'.to \in Handler /\ thread[pending'.to] # "none"
    /\ MayBeIn(pending'.packet.mac, pending'.to)

LEMMA StrayKept ==
    ASSUME CoreInv, StrayInv, RegistryGrows, \A h \in Handler : FromQueues(h), SendsOwn
    PROVE  StrayInv'
<1>1. ASSUME NEW h \in Handler, NEW i \in DOMAIN queue'[h]
      PROVE  thread[h] # "none" /\ MayBeIn(queue[h][i].mac, h)'
  <2>1. PICK m : m = queue'[h][i].mac
    OBVIOUS
  <2>2. thread[h] # "none" /\ MayBeIn(m, h)
    BY <2>1 DEF FromQueues, StrayInv, StrayedByReuse, NumberedQueues, MayBeIn
  <2>3. MayBeIn(m, h)'
    BY <2>2, MayStay
  <2> QED BY <2>1, <2>2, <2>3 DEF MayBeIn
<1>2. ASSUME main' = "send"
      PROVE  thread'[pending'.to] # "none" /\ MayBeIn(pending.packet.mac, pending.to)'
  <2>1. PICK m : m = pending'.packet.mac
    OBVIOUS
  <2>2. PICK h \in Handler : h = pending'.to /\ thread[h] # "none" /\ MayBeIn(m, h)
    BY <1>2, <2>1 DEF SendsOwn
  <2>3. MayBeIn(m, h)' /\ thread'[h] # "none"
    BY <2>2, MayStay DEF RegistryGrows
  <2> QED BY <2>1, <2>2, <2>3 DEF MayBeIn
<1>3. StrayedByReuse'
  BY <1>1, <1>2 DEF StrayedByReuse, MayBeIn
<1>4. NumberedQueues'
  BY <1>1, <1>2 DEF NumberedQueues, RegistryGrows
<1> QED BY <1>3, <1>4 DEF StrayInv

LEMMA DeliverQueues ==
    ASSUME CoreInv, NEW g \in Handler, NEW p \in Packet, Deliver(g, p),
           thread[g] # "none", MayBeIn(p.mac, g), NEW h \in Handler
    PROVE  FromQueues(h)
<1>1. queue \in [Handler -> Seq(Packet)] /\ queue' = [queue EXCEPT ![g] = Append(@, p)]
  BY DEF CoreInv, TypeOK, Deliver
<1>2. CASE h # g
  BY <1>1, <1>2 DEF FromQueues
<1>3. CASE h = g
  <2>1. queue'[g] = Append(queue[g], p) /\ queue[g] \in Seq(Packet)
    BY <1>1
  <2>2. \A i \in DOMAIN queue'[g] :
          queue'[g][i] = p \/ (i \in DOMAIN queue[g] /\ queue'[g][i] = queue[g][i])
    BY <2>1
  <2> QED BY <1>3, <2>2 DEF FromQueues
<1> QED BY <1>2, <1>3

(* The entry of m leads to a queue m may be in. *)
LEMMA EntryLeads ==
    ASSUME CoreInv, NEW m, NEW e \in Entry(m), NEW g \in Target(e)
    PROVE  g \in Handler /\ thread[g] # "none" /\ MayBeIn(m, g)
<1>1. e \in Handler /\ chaddr[e] = m /\ thread[e] \notin {"none", "leaked"}
  BY DEF Entry, CoreInv, TypeOK, RegistryInv, EntryOfThread
<1>2. g \in Handler /\ thread[g] # "none" /\ info[g] = info[e]
  BY DEF Target, LastIn
<1>3. CASE Live(e)
  <2>1. g = e
    BY <1>1, <1>3, LiveTarget DEF CoreInv
  <2> QED BY <1>1, <1>2, <2>1 DEF MayBeIn
<1>4. CASE ~Live(e)
  <2>1. thread[e] = "gone"
    BY <1>1, <1>4 DEF Live
  <2> QED BY <1>2, <2>1 DEF MayBeIn, EndedInBlock
<1> QED BY <1>3, <1>4

LEMMA StrayStep == CoreInv /\ StrayInv /\ [Next]_vars => StrayInv'
<1> SUFFICES ASSUME CoreInv, StrayInv, [Next]_vars PROVE StrayInv'
  OBVIOUS
<1>0. TypeOK /\ queue \in [Handler -> Seq(Packet)]
  BY DEF CoreInv, TypeOK
<1>1. ASSUME main' # "send" \/ UNCHANGED mainVars PROVE SendsOwn
  BY <1>1 DEF SendsOwn, CoreInv, PendingInv, StrayInv, StrayedByReuse, NumberedQueues,
              MayBeIn, mainVars
<1>2. ASSUME NEW h \in Handler, queue'[h] = queue[h] PROVE FromQueues(h)
  BY <1>2 DEF FromQueues
<1>3. CASE Sweep \/ SweepFreedRoot \/ SweepRescued \/ Ignore
  <2>1. main' # "send" /\ UNCHANGED <<registryVars, handlerVars, queue>>
    BY <1>3 DEF Sweep, SweepFreedRoot, SweepRescued, Ignore
  <2>2. RegistryGrows
    BY <2>1, GoOnGrows DEF ThreadsGoOn, handlerVars
  <2> QED BY <1>1, <1>2, <2>1, <2>2, StrayKept
<1>4. CASE Unblock
  <2>1. main = "send" /\ main' = "sweep" /\ UNCHANGED <<registryVars, handlerVars>>
    BY <1>4 DEF Unblock, Deliver
  <2>2. RegistryGrows
    BY <2>1, GoOnGrows DEF ThreadsGoOn, handlerVars
  <2>3. /\ pending.to \in Handler /\ pending.packet \in Packet
        /\ thread[pending.to] # "none" /\ MayBeIn(pending.packet.mac, pending.to)
    BY <2>1 DEF CoreInv, PendingInv, StrayInv, StrayedByReuse, NumberedQueues, MayBeIn
  <2>4. \A h \in Handler : FromQueues(h)
    <3>1. CASE Deliver(pending.to, pending.packet)
      BY <2>3, <3>1, DeliverQueues
    <3>2. CASE UNCHANGED queue
      BY <1>2, <3>2
    <3> QED BY <1>4, <3>1, <3>2 DEF Unblock
  <2> QED BY <1>1, <2>1, <2>2, <2>4, StrayKept
<1>5. ASSUME NEW p \in Packet, Forward(p) PROVE StrayInv'
  <2>1. UNCHANGED <<registryVars, handlerVars>>
    BY <1>5 DEF Forward
  <2>2. RegistryGrows
    BY <2>1, GoOnGrows DEF ThreadsGoOn, handlerVars
  <2>3. CASE \E e \in Entry(p.mac) : \E g \in Target(e) : Deliver(g, p)
    <3>1. PICK e \in Entry(p.mac) : \E g \in Target(e) : Deliver(g, p)
      BY <2>3
    <3>2. PICK g \in Target(e) : Deliver(g, p)
      BY <3>1
    <3>3. \A h \in Handler : FromQueues(h)
      BY <3>2, EntryLeads, DeliverQueues
    <3>4. main' # "send"
      BY <3>2 DEF Deliver
    <3> QED BY <1>1, <2>2, <3>3, <3>4, StrayKept
  <2>4. CASE \E e \in Entry(p.mac) : \E g \in Target(e) :
               pending' = [to |-> g, packet |-> p] /\ UNCHANGED queue
    <3>1. PICK e \in Entry(p.mac) : \E g \in Target(e) :
                 pending' = [to |-> g, packet |-> p] /\ UNCHANGED queue
      BY <2>4
    <3>2. PICK g \in Target(e) : pending' = [to |-> g, packet |-> p] /\ UNCHANGED queue
      BY <3>1
    <3>3. SendsOwn
      BY <3>2, EntryLeads DEF SendsOwn
    <3> QED BY <1>2, <2>2, <3>2, <3>3, StrayKept
  <2>5. CASE main' = "sweep" /\ UNCHANGED queue
    <3>1. main' # "send"
      BY <2>5
    <3> QED BY <1>1, <1>2, <2>2, <2>5, <3>1, StrayKept
  <2> QED BY <1>5, <2>3, <2>4, <2>5 DEF Forward
<1>6. ASSUME NEW p \in Packet, Spawn(p) \/ SpawnFails(p) PROVE StrayInv'
  <2>1. main' # "send" /\ UNCHANGED queue
    BY <1>6 DEF Spawn, SpawnFails, NewClient
  <2> QED BY <1>1, <1>2, <1>6, <2>1, NewClientGrows, StrayKept
<1>7. ASSUME NEW h \in Handler, HandlerStep(h) \/ Delete(h) PROVE StrayInv'
  <2>1. UNCHANGED <<mainVars, registryVars>>
    BY <1>7 DEF HandlerStep, FirstDiscover, TakeDiscover, TakeRequest, TakeEnd, TakeOther,
                Close, Delete, Take
  <2>2. ThreadsGoOn
    BY <1>0, <1>7 DEF HandlerStep, FirstDiscover, TakeDiscover, TakeRequest, TakeEnd,
                      TakeOther, Close, Delete, Take, handlerVars, ThreadsGoOn, TypeOK
  <2>3. \/ UNCHANGED queue
        \/ queue' = [queue EXCEPT ![h] = <<>>]
        \/ queue[h] # <<>> /\ queue' = [queue EXCEPT ![h] = Tail(@)]
    BY <1>7 DEF HandlerStep, FirstDiscover, TakeDiscover, TakeRequest, TakeEnd, TakeOther,
                Close, Delete, Take
  <2>4. ASSUME NEW k \in Handler PROVE FromQueues(k)
    <3>1. CASE k # h \/ UNCHANGED queue
      BY <1>0, <1>2, <2>3, <3>1
    <3>2. CASE k = h /\ queue'[h] = <<>>
      BY <3>2 DEF FromQueues
    <3>3. CASE k = h /\ queue[h] # <<>> /\ queue'[h] = Tail(queue[h])
      <4>1. \A i \in DOMAIN queue'[h] :
              i + 1 \in DOMAIN queue[h] /\ queue'[h][i] = queue[h][i + 1]
        BY <1>0, <3>3
      <4> QED BY <3>3, <4>1 DEF FromQueues
    <3> QED BY <1>0, <2>3, <3>1, <3>2, <3>3
  <2> QED BY <1>1, <2>1, <2>2, <2>4, GoOnGrows, StrayKept
<1>8. CASE Tick \/ UNCHANGED vars
  <2>1. UNCHANGED <<mainVars, registryVars, handlerVars, queue>>
    BY <1>8 DEF Tick, vars
  <2>2. RegistryGrows
    BY <2>1, GoOnGrows DEF ThreadsGoOn, handlerVars
  <2> QED BY <1>1, <1>2, <2>1, <2>2, StrayKept
<1> QED BY <1>3, <1>4, <1>5, <1>6, <1>7, <1>8 DEF Next, NextFor, MainStep, Receive

(* A packet is in the queue of another client only through the entry of its     *)
(* sender's ended handler.                                                      *)
THEOREM Strays == Spec => []StrayedByReuse
<1>1. Init => StrayInv
  BY DEF Init, StrayInv, StrayedByReuse, NumberedQueues
<1>2. StrayInv => StrayedByReuse
  BY DEF StrayInv
<1> QED BY <1>1, <1>2, StrayStep, CoreCorrect, PTL DEF Spec

-----------------------------------------------------------------------------
(* The table.  A free address has no start; with the three invariants of the    *)
(* runs this is inductive.                                                      *)
FreeStart == \A ip \in Ip : holder[ip] = Nobody => start[ip] = 0
TableInv == PromiseKept /\ HeldInPool /\ RootIsHeld /\ FreeStart

(* A step of the abstract table, unless the root is freed, and TableInv again. *)
TableStep == freed' \/ Table!TableNext \/ UNCHANGED Table!tableVars

LEMMA TableInit == Init => TableInv /\ Table!TableInit
<1> SUFFICES ASSUME Init PROVE TableInv /\ Table!TableInit
  OBVIOUS
<1>1. TableInv
  BY DEF Init, TableInv, PromiseKept, HeldInPool, RootIsHeld, FreeStart, Held
<1>2. Table!TableInit
  BY DEF Init, Table!TableInit
<1> QED BY <1>1, <1>2

(* An address is leased that a lookup missed: a Grant. *)
LEMMA InsertTable ==
    ASSUME TypeOK, TableInv, NEW ip \in Pool, NEW m \in Mac, Miss(ip), Insert(ip, m),
           promised' = [promised EXCEPT ![m] = @ \cup {ip}], UNCHANGED now
    PROVE  TableInv' /\ TableStep
<1> USE DEF TableInv
<1>0. ip \in Ip /\ ip # 0 /\ m # Nobody
  BY PoolFacts, NobodyAssumption
<1>1. freed' = freed /\ (~freed => holder[ip] = Nobody)
  BY <1>0 DEF Miss, Insert
<1>2. /\ holder' = [holder EXCEPT ![ip] = m]
      /\ start' = [start EXCEPT ![ip] = now]
      /\ root' = IF root = 0 /\ ~freed THEN ip ELSE root
  BY DEF Insert
<1>3. PromiseKept'
  <2> SUFFICES ASSUME ~freed, NEW n \in Mac, NEW i \in promised'[n]
               PROVE  holder'[i] = n
    BY <1>1 DEF PromiseKept
  <2>1. CASE i = ip
    <3>1. ip \notin promised[n]
      BY <1>1, NobodyAssumption DEF PromiseKept
    <3>2. n = m
      BY <2>1, <3>1 DEF TypeOK
    <3> QED BY <1>0, <1>2, <2>1, <3>2 DEF TypeOK
  <2>2. CASE i # ip
    <3>1. i \in promised[n] /\ i \in Ip
      BY <2>2 DEF TypeOK
    <3> QED BY <1>2, <2>2, <3>1 DEF PromiseKept, TypeOK
  <2> QED BY <2>1, <2>2
<1>4. Held' = Held \cup {ip}
  BY <1>0, <1>2 DEF Held, TypeOK
<1>5. HeldInPool'
  BY <1>4 DEF HeldInPool
<1>6. RootIsHeld'
  BY <1>0, <1>1, <1>2, <1>4 DEF RootIsHeld
<1>7. FreeStart'
  BY <1>0, <1>2 DEF FreeStart, TypeOK
<1>8. freed' \/ Table!Grant(m, ip)
  BY <1>1, <1>2 DEF Table!Grant
<1> QED BY <1>0, <1>3, <1>5, <1>6, <1>7, <1>8 DEF TableStep, Table!TableNext

(* The table is left alone; at most its holder is promised an address again. *)
LEMMA KeepTable ==
    ASSUME TypeOK, TableInv, UNCHANGED treeVars, UNCHANGED now,
           \/ UNCHANGED promised
           \/ \E m \in Mac : \E ip \in Pool :
                /\ holder[ip] = m
                /\ promised' = [promised EXCEPT ![m] = @ \cup {ip}]
    PROVE  TableInv' /\ TableStep
<1> USE DEF TableInv, treeVars
<1>1. Held' = Held
  BY DEF Held
<1>2. PromiseKept'
  <2>1. CASE UNCHANGED promised
    BY <2>1 DEF PromiseKept
  <2>2. ASSUME NEW m \in Mac, NEW ip \in Pool, holder[ip] = m,
               promised' = [promised EXCEPT ![m] = @ \cup {ip}]
        PROVE  PromiseKept'
    BY <2>2 DEF PromiseKept, TypeOK
  <2> QED BY <2>1, <2>2
<1>3. HeldInPool' /\ RootIsHeld' /\ FreeStart'
  BY <1>1 DEF HeldInPool, RootIsHeld, FreeStart
<1>4. UNCHANGED Table!tableVars
  BY DEF Table!tableVars
<1> QED BY <1>2, <1>3, <1>4 DEF TableStep

(* A renewal: a Renew of the address, or nothing. *)
LEMMA RenewTable ==
    ASSUME TypeOK, TableInv, NEW m \in Mac, NEW ip, RenewLease(m, ip),
           UNCHANGED <<promised, now>>
    PROVE  TableInv' /\ TableStep
<1> USE DEF TableInv
<1>1. UNCHANGED <<holder, root, freed>>
  BY DEF RenewLease
<1>2. CASE UNCHANGED start
  BY <1>1, <1>2, KeepTable DEF treeVars
<1>3. CASE Hit(ip) /\ start' = [start EXCEPT ![ip] = now]
  <2>1. ip \in Ip /\ holder[ip] # Nobody
    BY <1>3 DEF Hit
  <2>2. Held' = Held
    BY <1>1 DEF Held
  <2>3. PromiseKept' /\ HeldInPool' /\ RootIsHeld'
    BY <1>1, <2>2 DEF PromiseKept, HeldInPool, RootIsHeld
  <2>4. FreeStart'
    BY <1>1, <1>3, <2>1 DEF FreeStart, TypeOK
  <2>5. Table!Renew(ip)
    BY <1>1, <1>3, <2>1 DEF Table!Renew
  <2> QED BY <2>1, <2>3, <2>4, <2>5 DEF TableStep, Table!TableNext
<1> QED BY <1>2, <1>3 DEF RenewLease

(* What a deletion makes the root is held, or nothing is. *)
LEMMA NewRootHeld ==
    ASSUME NEW ip, NEW rest \in SUBSET Ip, NEW r \in NewRoot(ip, rest)
    PROVE  IF rest = {} THEN r = 0 ELSE r \in rest
  BY DEF NewRoot, Successors

(* A deletion: a GiveBack, or nothing when the address was free already. *)
LEMMA DeleteTable ==
    ASSUME TypeOK, TableInv, NEW h \in Handler, Delete(h) PROVE TableInv' /\ TableStep
<1> USE DEF TableInv
<1> DEFINE ip == req[h].ip
<1>1. /\ holder' = [holder EXCEPT ![ip] = Nobody]
      /\ start' = [start EXCEPT ![ip] = 0]
      /\ promised' = [m \in Mac |-> promised[m] \ {ip}]
      /\ freed' = freed /\ now' = now
      /\ root' \in IF ip = root THEN NewRoot(ip, Held \ {ip}) ELSE {root}
  BY DEF Delete
<1> HIDE DEF ip
<1>2. Held' = Held \ {ip} /\ Held \subseteq Ip
  BY <1>1 DEF Held, TypeOK
<1>3. PromiseKept'
  BY <1>1 DEF PromiseKept, TypeOK
<1>4. HeldInPool'
  BY <1>2 DEF HeldInPool
<1>5. RootIsHeld'
  <2>1. CASE ip = root
    BY <1>1, <1>2, <2>1, NewRootHeld DEF RootIsHeld
  <2>2. CASE ip # root
    BY <1>1, <1>2, <2>2 DEF RootIsHeld
  <2> QED BY <2>1, <2>2
<1>6. FreeStart'
  BY <1>1 DEF FreeStart, TypeOK
<1>7. TableStep
  <2>1. CASE ip \in Ip /\ holder[ip] # Nobody
    BY <1>1, <2>1 DEF TableStep, Table!TableNext, Table!GiveBack
  <2>2. CASE ip \notin Ip \/ holder[ip] = Nobody
    <3>1. holder' = holder /\ start' = start
      BY <1>1, <2>2 DEF TypeOK, FreeStart
    <3> QED BY <1>1, <3>1 DEF TableStep, Table!tableVars
  <2> QED BY <2>1, <2>2
<1> QED BY <1>3, <1>4, <1>5, <1>6, <1>7

(* A sweep: a Reclaim of the expired leases. *)
LEMMA SweepTable == ASSUME TypeOK, TableInv, Sweep PROVE TableInv' /\ TableStep
<1> USE DEF TableInv
<1> DEFINE E == Expired
<1>1. /\ holder' = [ip \in Ip |-> IF ip \in E THEN Nobody ELSE holder[ip]]
      /\ start' = [ip \in Ip |-> IF ip \in E THEN 0 ELSE start[ip]]
      /\ promised' = [m \in Mac |-> promised[m] \ E]
      /\ now' = now /\ ~freed
  BY DEF Sweep, Reclaimed
<1>2. Held' = Held \ E /\ Held \subseteq Ip /\ E \subseteq Held
  BY <1>1 DEF Held, Expired
<1>3. PromiseKept'
  BY <1>1 DEF PromiseKept, TypeOK
<1>4. HeldInPool'
  BY <1>2 DEF HeldInPool
<1>5. FreeStart'
  BY <1>1 DEF FreeStart
<1>6. RootIsHeld'
  <2>1. CASE root \notin E /\ root' = root /\ freed' = freed
    BY <1>1, <1>2, <2>1 DEF RootIsHeld
  <2>2. CASE root' \in NewRoot(root, Held \ E) /\ freed' = freed
    BY <1>1, <1>2, <2>2, NewRootHeld DEF RootIsHeld
  <2>3. CASE freed' = TRUE
    BY <2>3 DEF RootIsHeld
  <2> QED BY <2>1, <2>2, <2>3 DEF Sweep
<1>7. Table!Reclaim
  <2>1. E \in SUBSET {ip \in Ip : Table!RunOut(ip)}
    BY DEF Expired, Held, Table!RunOut
  <2> HIDE DEF E
  <2> QED BY <1>1, <2>1 DEF Table!Reclaim
<1> QED BY <1>3, <1>4, <1>5, <1>6, <1>7 DEF TableStep, Table!TableNext

LEMMA DiscoverTable ==
    ASSUME TypeOK, TableInv, NEW m \in Mac, handle_dhcp_discover(m), UNCHANGED now
    PROVE  TableInv' /\ TableStep
<1>1. CASE \E ip \in Ip : Assignable(ip) /\ Insert(ip, m) /\ send_dhcp_offer(m, ip)
  <2> PICK ip \in Ip : Assignable(ip) /\ Insert(ip, m) /\ send_dhcp_offer(m, ip)
    BY <1>1
  <2>1. ip \in Pool /\ Miss(ip)
    BY SearchInPool DEF TypeOK
  <2> QED BY <2>1, InsertTable DEF send_dhcp_offer
<1>2. CASE send_dhcp_nak /\ UNCHANGED treeVars
  BY <1>2, KeepTable DEF send_dhcp_nak, historyVars
<1> QED BY <1>1, <1>2 DEF handle_dhcp_discover

LEMMA RequestTable ==
    ASSUME TypeOK, TableInv, NEW h, NEW m \in Mac, NEW ip \in Ip \cup {0},
           handle_dhcp_request(h, m, ip), UNCHANGED now
    PROVE  TableInv' /\ TableStep
<1>1. CASE ip \in Pool /\ holder[ip] = m /\ send_dhcp_ack(h, m, ip) /\ UNCHANGED treeVars
  BY <1>1, KeepTable DEF send_dhcp_ack
<1>2. CASE ip \in Pool /\ Miss(ip) /\ send_dhcp_ack(h, m, ip) /\ Insert(ip, m)
  BY <1>2, InsertTable DEF send_dhcp_ack
<1>3. CASE send_dhcp_nak /\ UNCHANGED treeVars
  BY <1>3, KeepTable DEF send_dhcp_nak, historyVars
<1> QED BY <1>1, <1>2, <1>3, RangeIsPool DEF handle_dhcp_request

LEMMA AllTable == CoreInv /\ TableInv /\ [Next]_vars => TableInv' /\ TableStep
<1> SUFFICES ASSUME CoreInv, TableInv, [Next]_vars PROVE TableInv' /\ TableStep
  OBVIOUS
<1>0. TypeOK
  BY DEF CoreInv
<1>1. CASE Sweep
  BY <1>0, <1>1, SweepTable
<1>2. ASSUME UNCHANGED <<treeVars, historyVars, now>> PROVE TableInv' /\ TableStep
  BY <1>0, <1>2, KeepTable DEF historyVars
<1>3. CASE SweepFreedRoot \/ SweepRescued \/ Ignore \/ Unblock
  BY <1>2, <1>3 DEF SweepFreedRoot, SweepRescued, Ignore, Unblock
<1>4. ASSUME NEW p \in Packet, Receive(p) PROVE TableInv' /\ TableStep
  BY <1>2, <1>4 DEF Receive, Forward, Spawn, SpawnFails, NewClient
<1>5. ASSUME NEW h \in Handler, HandlerStep(h) PROVE TableInv' /\ TableStep
  <2>1. CASE FirstDiscover(h)
    <3>1. chaddr[h] \in Mac
      BY <2>1 DEF FirstDiscover, CoreInv, RegistryInv, ClientKnown, Live
    <3> QED BY <1>0, <2>1, <3>1, DiscoverTable DEF FirstDiscover
  <2>2. CASE TakeDiscover(h)
    <3>1. Head(queue[h]).mac \in Mac
      BY <1>0, <2>2, TakeType DEF TakeDiscover
    <3> QED BY <1>0, <2>2, <3>1, DiscoverTable DEF TakeDiscover, Take
  <2>3. CASE TakeRequest(h)
    <3> DEFINE p == Head(queue[h])
    <3>1. p.mac \in Mac /\ p.ip \in Ip \cup {0} /\ UNCHANGED now
      BY <1>0, <2>3, TakeType DEF TakeRequest, Take
    <3>2. CASE RenewLease(p.mac, p.ip) /\ UNCHANGED historyVars
      <4>1. UNCHANGED <<promised, now>>
        BY <3>1, <3>2 DEF historyVars
      <4> QED BY <1>0, <3>1, <3>2, <4>1, RenewTable
    <3>3. CASE handle_dhcp_request(h, p.mac, p.ip)
      BY <1>0, <3>1, <3>3, RequestTable
    <3> QED BY <2>3, <3>2, <3>3 DEF TakeRequest
  <2>4. CASE TakeEnd(h) \/ TakeOther(h) \/ Close(h)
    BY <1>2, <2>4 DEF TakeEnd, TakeOther, Take, Close
  <2> QED BY <1>5, <2>1, <2>2, <2>3, <2>4 DEF HandlerStep
<1>6. ASSUME NEW h \in Handler, Delete(h) PROVE TableInv' /\ TableStep
  BY <1>0, <1>6, DeleteTable
<1>7. CASE Tick
  <2>1. UNCHANGED <<holder, start, root, freed, promised>>
    BY <1>7 DEF Tick, treeVars, historyVars
  <2>2. TableInv'
    BY <2>1 DEF TableInv, PromiseKept, HeldInPool, RootIsHeld, FreeStart, Held
  <2>3. Table!Tick
    BY <1>7, <2>1 DEF Tick, Table!Tick
  <2> QED BY <2>2, <2>3 DEF TableStep, Table!TableNext
<1>8. CASE UNCHANGED vars
  BY <1>2, <1>8 DEF vars
<1> QED BY <1>1, <1>3, <1>4, <1>5, <1>6, <1>7, <1>8 DEF Next, NextFor, MainStep

LEMMA TableCorrect == Spec => []TableInv
<1>1. Init => TableInv
  BY TableInit
<1>2. CoreInv /\ TableInv /\ [Next]_vars => TableInv'
  BY AllTable
<1> QED BY <1>1, <1>2, CoreCorrect, PTL DEF Spec

(* Until the root is freed, offered and ACKed addresses are held by the client  *)
(* they were promised to.                                                       *)
THEOREM Promises == Spec => []PromiseKept
<1>1. TableInv => PromiseKept
  BY DEF TableInv
<1> QED BY <1>1, TableCorrect, PTL

(* Only addresses of the pool are ever leased. *)
THEOREM PoolOnly == Spec => []HeldInPool
<1>1. TableInv => HeldInPool
  BY DEF TableInv
<1> QED BY <1>1, TableCorrect, PTL

(* assign_ip_address ends wherever its cursor is: it finds a free address of    *)
(* the pool, the first in its order, or there is none.                          *)
THEOREM SearchTerminates == Spec => []SearchDecides
<1>1. TypeOK => SearchDecides
  BY SearchEnds, SearchAgrees DEF SearchDecides
<1> QED BY <1>1, TypeCorrect, PTL

(* Until it is freed, the root is an address of the tree. *)
THEOREM RootAlive == Spec => []RootIsHeld
<1>1. TableInv => RootIsHeld
  BY DEF TableInv
<1> QED BY <1>1, TableCorrect, PTL

(* The server implements the abstract table until the root is freed. *)
THEOREM Implementation == Spec => ImplementsTable
<1>1. Init => Table!TableInit
  BY TableInit
<1>2. CoreInv /\ TableInv /\ [Next]_vars => [freed' \/ Table!TableNext]_Table!tableVars
  BY AllTable DEF TableStep
<1> QED BY <1>1, <1>2, CoreCorrect, TableCorrect, PTL DEF Spec, ImplementsTable

-----------------------------------------------------------------------------
(* A handler that has sent an ACK has its flag set, or has ended. *)
AckInv == \A h \in Handler :
    /\ Len(acks[h]) <= 1
    /\ acks[h] # <<>> => ack_sent[h] \/ thread[h] = "gone"

LEMMA AckStep == CoreInv /\ AckInv /\ [Next]_vars => AckInv'
<1> SUFFICES ASSUME CoreInv, AckInv, [Next]_vars PROVE AckInv'
  OBVIOUS
<1>0. TypeOK
  BY DEF CoreInv
<1>1. ASSUME UNCHANGED <<acks, ack_sent>>,
             \A h \in Handler : (thread[h] = "gone") => (thread'[h] = "gone")
      PROVE  AckInv'
  BY <1>1 DEF AckInv
<1>2. CASE MainStep \/ Tick \/ UNCHANGED vars
  BY <1>1, <1>2 DEF MainStep, Sweep, Reclaimed, SweepFreedRoot, SweepRescued, Ignore,
                    Unblock, Tick, vars, handlerVars, historyVars
<1>3. ASSUME NEW p \in Packet, Receive(p) PROVE AckInv'
  <2>1. UNCHANGED <<acks, ack_sent>>
    BY <1>3 DEF Receive, Forward, Spawn, SpawnFails, NewClient, handlerVars, historyVars
  <2>2. ASSUME NEW h \in Handler, thread[h] = "gone" PROVE thread'[h] = "gone"
    <3>1. CASE thread' = thread
      BY <2>2, <3>1
    <3>2. CASE Spawn(p) \/ SpawnFails(p)
      <4>1. thread[client_id_counter] = "none"
        BY <3>2 DEF Spawn, SpawnFails, NewClient, CoreInv, RegistryInv, NumbersFresh, Handler
      <4> QED BY <1>0, <2>2, <3>2, <4>1 DEF Spawn, SpawnFails, TypeOK
    <3> QED BY <1>3, <3>1, <3>2 DEF Receive, Forward, handlerVars
  <2> QED BY <1>1, <2>1, <2>2
<1>4. ASSUME NEW h \in Handler, HandlerStep(h) \/ Delete(h) PROVE AckInv'
  <2>1. CASE FirstDiscover(h) \/ TakeDiscover(h)
    <3>1. UNCHANGED <<acks, ack_sent>>
      BY <2>1 DEF FirstDiscover, TakeDiscover, handle_dhcp_discover, send_dhcp_offer,
                  send_dhcp_nak, historyVars, handlerVars
    <3>2. \A g \in Handler : (thread[g] = "gone") => (thread'[g] = "gone")
      BY <1>0, <2>1 DEF FirstDiscover, TakeDiscover, handlerVars, TypeOK
    <3> QED BY <1>1, <3>1, <3>2
  <2>2. CASE TakeEnd(h) \/ TakeOther(h) \/ Delete(h)
    <3>1. UNCHANGED <<acks, ack_sent>>
      BY <2>2 DEF TakeEnd, TakeOther, Delete, historyVars, handlerVars
    <3>2. \A g \in Handler : (thread[g] = "gone") => (thread'[g] = "gone")
      BY <1>0, <2>2 DEF TakeEnd, TakeOther, Delete, Take, handlerVars, TypeOK
    <3> QED BY <1>1, <3>1, <3>2
  <2>3. CASE TakeRequest(h)
    <3> DEFINE p == Head(queue[h])
    <3>1. thread' = thread /\ thread[h] = "loop"
      BY <2>3 DEF TakeRequest, Take
    <3>2. CASE UNCHANGED <<ack_sent, historyVars>>
      BY <1>1, <3>1, <3>2 DEF historyVars
    <3>3. CASE /\ ~ack_sent[h] /\ ack_sent' = [ack_sent EXCEPT ![h] = TRUE]
               /\ \/ acks' = acks
                  \/ acks' = [acks EXCEPT ![h] = Append(@, [mac |-> p.mac, ip |-> p.ip])]
      <4>1. acks[h] = <<>>
        BY <3>1, <3>3 DEF AckInv
      <4> DEFINE a == [mac |-> p.mac, ip |-> p.ip]
      <4>2. \A s : s = <<>> \/ s = Append(<<>>, a) => Len(s) <= 1
        OBVIOUS
      <4>3. acks'[h] = <<>> \/ acks'[h] = Append(<<>>, a)
        BY <1>0, <3>3, <4>1 DEF TypeOK
      <4>4. ack_sent'[h] = TRUE
        BY <1>0, <3>3 DEF TypeOK
      <4>5. \A g \in Handler : g # h => acks'[g] = acks[g] /\ ack_sent'[g] = ack_sent[g]
        BY <1>0, <3>3 DEF TypeOK
      <4> HIDE DEF a
      <4>6. Len(acks'[h]) <= 1
        BY <4>2, <4>3
      <4> QED BY <3>1, <4>4, <4>5, <4>6 DEF AckInv
    <3>4. handle_dhcp_request(h, p.mac, p.ip) =>
             \/ acks' = acks
             \/ acks' = [acks EXCEPT ![h] = Append(@, [mac |-> p.mac, ip |-> p.ip])]
      BY DEF handle_dhcp_request, send_dhcp_ack, send_dhcp_nak, historyVars
    <3> QED BY <2>3, <3>2, <3>3, <3>4 DEF TakeRequest, FirstRequest
  <2>4. CASE Close(h)
    BY <1>0, <2>4 DEF Close, AckInv, TypeOK, historyVars
  <2> QED BY <1>4, <2>1, <2>2, <2>3, <2>4 DEF HandlerStep
<1> QED BY <1>2, <1>3, <1>4 DEF Next, NextFor

(* A handler sends at most one ACK. *)
THEOREM OneAck == Spec => []AckAtMostOnce
<1>1. Init => AckInv
  BY DEF Init, AckInv
<1>2. AckInv => AckAtMostOnce
  BY DEF AckInv, AckAtMostOnce
<1> QED BY <1>1, <1>2, AckStep, CoreCorrect, PTL DEF Spec

-----------------------------------------------------------------------------
(* Well-behaved clients are clients: what holds of Spec holds of ClientSpec. *)
LEMMA ClientsAreSpec == ClientSpec => Spec
<1>1. [ClientNext]_vars => [Next]_vars
  BY DEF ClientNext, Next, NextFor
<1> QED BY <1>1, PTL DEF ClientSpec, Spec
=============================================================================

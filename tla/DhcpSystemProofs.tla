--------------------------- MODULE DhcpSystemProofs ---------------------------
(***************************************************************************)
(* Why no two clients of DhcpSystem use one address, for any clients,      *)
(* addresses, lease time and delay that TimingAssumption allows: at every  *)
(* moment what is under way, and what a client waits for, keeps its lease  *)
(* in the table young enough that no sweep may take it.  The network loses *)
(* what it likes; once a client whose renewal was lost may have outlived   *)
(* its lease in the table, the promise ends.                               *)
(***************************************************************************)
EXTENDS DhcpSystem, DhcpClientProofs

(* ip is leased to c, since n seconds at most. *)
Held(ip, c, n) == holder[ip] = c /\ now - start[ip] <= n

Asks(c) == pc[c] \in {"off", "asking"}

(* What holds whatever is lost: types, addresses where they are due, and that a *)
(* client that still asks has no renewal to lose.                               *)
NamedAnswer(a) == a.type \in {"OFFER", "ACK"} => a.ip \in Ip
NamedPacket(m) == m.type \in {"REQUEST", "RELEASE"} => m.ip \in Ip
Waiting == \A c \in Client : Asks(c) => fate[c] = "none"
BaseInv ==
    /\ TypeOK /\ ClientInv /\ Waiting
    /\ (\A a \in toClient : NamedAnswer(a)) /\ (\A m \in toServer : NamedPacket(m))

(* Answers on their way to a client that still asks, and REQUESTs of one. *)
FreshAnswer(a) ==
    /\ a.age <= Delay
    /\ Asks(a.to) =>
         /\ a.type = "OFFER" => Held(a.ip, a.to, a.age)
         /\ a.type = "ACK" => Held(a.ip, a.to, 2 * Delay + a.age) /\ handler[a.to] = "acked"
FreshPacket(m) ==
    /\ m.age <= Delay
    /\ m.type = "REQUEST" => (Asks(m.from) => Held(m.ip, m.from, Delay + m.age))
    /\ m.type = "RELEASE" =>
         /\ handler[m.from] = "acked"
         /\ Held(m.ip, m.from, LeaseTime + MaxLate - T1(LeaseTime) + m.age)

(* The lease of a client that has one: not yet due for renewal, or its renewal  *)
(* is on its way to the server, or was heard there, or was lost.                *)
FromServer == [lease_time |-> LeaseTime, renewal_time |-> T1(LeaseTime),
               rebind_time |-> T2(LeaseTime)]
Renews(m, c) ==
    /\ m.from = c /\ m.type = "REQUEST" /\ m.ip = offered_ip[c]
    /\ elapsed[c] < T1(LeaseTime) + Sleep + MaxLate + m.age
Unrenewed(c) == Held(offered_ip[c], c, 3 * Delay + elapsed[c])
Early(c) == elapsed[c] + rest[c] < T1(LeaseTime) + Sleep /\ Unrenewed(c)
Asked(c) == Unrenewed(c) /\ \E m \in toServer : Renews(m, c)
Renewed(c) == Held(offered_ip[c], c, elapsed[c] - T1(LeaseTime))
Kept(c) == pc[c] = "bound" =>
    /\ timers[c] = FromServer /\ handler[c] = "acked"
    /\ t1_count[c] = 0 => fate[c] = "none" /\ Early(c)
    /\ t1_count[c] = 1 =>
         /\ elapsed[c] >= T1(LeaseTime)
         /\ fate[c] = "none" => Asked(c)
         /\ fate[c] = "heard" => Renewed(c)
         /\ fate[c] = "lost" /\ ~Overdue(c) => Unrenewed(c)

(* A handler ends with the one RELEASE of its client. *)
Ended(c) == handler[c] = "ended" =>
    pc[c] = "exited" /\ \A m \in toServer : m.from = c => m.type # "RELEASE"
Lone == \A m1, m2 \in toServer :
    m1.type = "RELEASE" /\ m2.type = "RELEASE" /\ m1.from = m2.from => m1 = m2

CoverInv ==
    /\ (\A a \in toClient : FreshAnswer(a)) /\ (\A m \in toServer : FreshPacket(m))
    /\ (\A c \in Client : Kept(c)) /\ (\A c \in Client : Ended(c)) /\ Lone
SystemInv == BaseInv /\ CoverInv

(* The invariant of the system: the second half while all is quiet. *)
Always == BaseInv /\ (Quiet => CoverInv)

-----------------------------------------------------------------------------
(* The two times of the lease are natural numbers. *)
LEMMA TimesNat == T1(LeaseTime) \in Nat /\ T2(LeaseTime) \in Nat
BY TimesSet, TimingAssumption

(* Packets and answers are what they are, and name their client. *)
LEMMA Typed ==
    ASSUME BaseInv
    PROVE  /\ \A m \in toServer : m \in Packet /\ m.from \in Client /\ m.age \in Nat
           /\ \A a \in toClient : a \in Answer /\ a.to \in Client /\ a.age \in Nat
<1>1. toServer \subseteq Packet /\ toClient \subseteq Answer
  BY DEF BaseInv, ClientInv, ClientTypeOK, TypeOK
<1>2. ASSUME NEW m \in Packet PROVE m.from \in Client /\ m.age \in Nat
  BY DEF Packet
<1>3. ASSUME NEW a \in Answer PROVE a.to \in Client /\ a.age \in Nat
  BY DEF Answer
<1> QED  BY <1>1, <1>2, <1>3

(* A lease of at most LeaseTime seconds survives every step of the table but    *)
(* its own end.                                                                 *)
Spares(ip) ==
    \/ UNCHANGED tableVars
    \/ \E d \in Client, i \in Ip : Table!Grant(d, i)
    \/ \E i \in Ip : Table!Renew(i)
    \/ \E i \in Ip \ {ip} : Table!GiveBack(i)
    \/ Table!Reclaim

LEMMA HeldKept ==
    ASSUME NEW ip \in Ip, NEW c \in Client, NEW n \in Nat, n <= LeaseTime, TypeOK,
           Held(ip, c, n), Spares(ip)
    PROVE  Held(ip, c, n)'
<1>1. holder[ip] # Nobody /\ start[ip] \in 0..now /\ now \in Nat /\ LeaseTime \in Nat
  BY SystemAssumption, TimingAssumption DEF Held, TypeOK
<1>2. CASE UNCHANGED tableVars
  BY <1>2 DEF Held, tableVars
<1>3. ASSUME NEW d \in Client, NEW i \in Ip, Table!Grant(d, i) PROVE Held(ip, c, n)'
  BY <1>1, <1>3 DEF Held, Table!Grant, TypeOK
<1>4. ASSUME NEW i \in Ip, Table!Renew(i) PROVE Held(ip, c, n)'
  BY <1>1, <1>4 DEF Held, Table!Renew, TypeOK
<1>5. ASSUME NEW i \in Ip \ {ip}, Table!GiveBack(i) PROVE Held(ip, c, n)'
  BY <1>5 DEF Held, Table!GiveBack, TypeOK
<1>6. CASE Table!Reclaim
  <2>1. ~Table!RunOut(ip)
    BY <1>1 DEF Table!RunOut, Held
  <2> QED  BY <1>6, <2>1 DEF Table!Reclaim, Held
<1> QED  BY <1>2, <1>3, <1>4, <1>5, <1>6 DEF Spares

-----------------------------------------------------------------------------
(* Steps of server and network: no client moves, packets are only taken away.   *)
ServerTypeOK ==
    /\ handler \in [Client -> {"none", "serving", "acked", "ended"}]
    /\ holder \in [Ip -> Client \cup {Nobody}] /\ start \in [Ip -> 0..now] /\ now \in Nat
    /\ toClient \in SUBSET Answer
    /\ fate \in [Client -> {"none", "heard", "lost"}]

Beside == UNCHANGED <<pc, countVars, leaseVars, fits>> /\ toServer' \subseteq toServer

LEMMA BesideClients ==
    ASSUME ClientInv, Beside
    PROVE  ClientInv'
<1>1. ClientTypeOK'
  BY DEF Beside, ClientInv, ClientTypeOK, leaseVars, countVars
<1>2. \A c \in Client : Good(c)'
  BY DEF Beside, ClientInv, Good, Refused, Roomy, LooksInTime, leaseVars, countVars
<1>3. ReleaseLast'
  BY DEF Beside, ClientInv, ReleaseLast, leaseVars
<1> QED  BY <1>1, <1>2, <1>3 DEF ClientInv

LEMMA BesideBase ==
    ASSUME BaseInv, Beside, ServerTypeOK',
           \A c \in Client : fate'[c] = fate[c] \/ pc[c] = "bound",
           \A a \in toClient' : a \in toClient \/ NamedAnswer(a)
    PROVE  BaseInv'
<1>1. ClientInv' /\ TypeOK'
  BY BesideClients DEF BaseInv, TypeOK, ClientInv, ServerTypeOK
<1>2. Waiting'
  BY DEF BaseInv, Waiting, Asks, Beside
<1>3. \A m \in toServer' : NamedPacket(m)'
  BY DEF BaseInv, Beside, NamedPacket
<1>4. \A a \in toClient' : NamedAnswer(a)'
  BY DEF BaseInv, NamedAnswer
<1> QED  BY <1>1, <1>2, <1>3, <1>4 DEF BaseInv

LEMMA TableTypes ==
    ASSUME TypeOK,
           \/ UNCHANGED tableVars
           \/ \E d \in Client, i \in Ip : Table!Grant(d, i)
           \/ \E i \in Ip : Table!Renew(i)
           \/ \E i \in Ip : Table!GiveBack(i)
           \/ Table!Reclaim
    PROVE  /\ now' = now /\ now \in Nat
           /\ holder' \in [Ip -> Client \cup {Nobody}] /\ start' \in [Ip -> 0..now]
<1> USE DEF TypeOK
<1>1. CASE UNCHANGED tableVars
  BY <1>1 DEF tableVars
<1>2. ASSUME NEW d \in Client, NEW i \in Ip, Table!Grant(d, i)
      PROVE /\ now' = now /\ holder' \in [Ip -> Client \cup {Nobody}]
            /\ start' \in [Ip -> 0..now]
  BY <1>2 DEF Table!Grant
<1>3. ASSUME NEW i \in Ip, Table!Renew(i)
      PROVE /\ now' = now /\ holder' \in [Ip -> Client \cup {Nobody}]
            /\ start' \in [Ip -> 0..now]
  BY <1>3 DEF Table!Renew
<1>4. ASSUME NEW i \in Ip, Table!GiveBack(i)
      PROVE /\ now' = now /\ holder' \in [Ip -> Client \cup {Nobody}]
            /\ start' \in [Ip -> 0..now]
  BY <1>4 DEF Table!GiveBack
<1>5. CASE Table!Reclaim
  BY <1>5 DEF Table!Reclaim
<1> QED  BY <1>1, <1>2, <1>3, <1>4, <1>5

LEMMA ReplyNamed ==
    ASSUME TypeOK, NEW c \in Client, NEW type \in {"OFFER", "ACK", "NAK"},
           NEW ip \in Ip \cup {NoIp}, Reply(c, type, ip), type # "NAK" => ip \in Ip
    PROVE  /\ toClient' \in SUBSET Answer
           /\ \A a \in toClient' : a \in toClient \/ NamedAnswer(a)
<1>1. PICK i \in Info : toClient' = toClient \cup
        {[to |-> c, type |-> type, ip |-> ip, info |-> i, age |-> 0]}
  BY DEF Reply
<1> DEFINE new == [to |-> c, type |-> type, ip |-> ip, info |-> i, age |-> 0]
<1>2. new \in Answer /\ new.type = type /\ new.ip = ip
  BY DEF Answer
<1> HIDE DEF new
<1>3. toClient' = toClient \cup {new} /\ toClient \in SUBSET Answer
  BY <1>1 DEF new, TypeOK
<1> QED  BY <1>2, <1>3 DEF NamedAnswer

(* What the fate of a renewal may become. *)
LEMMA MeetsFate ==
    ASSUME TypeOK, NEW m, m.from \in Client, NEW end \in {"heard", "lost"}, Meets(m, end)
    PROVE  /\ fate' \in [Client -> {"none", "heard", "lost"}]
           /\ \A c \in Client :
                \/ fate'[c] = fate[c] /\ (Renewal(m) /\ m.from = c => fate[c] # "none")
                \/ fate'[c] = end /\ fate[c] = "none" /\ Renewal(m) /\ m.from = c
BY DEF Meets, TypeOK

LEMMA DiscoverBase ==
    ASSUME BaseInv, NEW m \in toServer,
           ServeFirst(m) \/ \E g \in Client : ServeDiscover(m, g)
    PROVE  /\ BaseInv' /\ Beside /\ ServerTypeOK' /\ fate' = fate
           /\ now' = now /\ now \in Nat
           /\ UNCHANGED tableVars \/ \E ip \in Ip : Table!Grant(m.from, ip)
<1>1. /\ toServer' = toServer \ {m} /\ Offer(m.from) /\ fate' = fate
      /\ UNCHANGED <<pc, countVars, leaseVars, fits>>
      /\ \/ handler' = handler
         \/ handler' = [handler EXCEPT ![m.from] = "serving"]
  BY DEF ServeFirst, ServeDiscover, ServedBy
<1>2. m.from \in Client /\ TypeOK
  BY Typed DEF BaseInv
<1>3. Beside
  BY <1>1 DEF Beside
<1>4. UNCHANGED tableVars \/ \E ip \in Ip : Table!Grant(m.from, ip)
  BY <1>1 DEF Offer
<1>5. /\ now' = now /\ now \in Nat
      /\ holder' \in [Ip -> Client \cup {Nobody}] /\ start' \in [Ip -> 0..now]
  BY <1>2, <1>4, TableTypes
<1>6. /\ toClient' \in SUBSET Answer
      /\ \A a \in toClient' : a \in toClient \/ NamedAnswer(a)
  BY <1>1, <1>2, ReplyNamed DEF Offer, Refuse
<1>7. ServerTypeOK'
  BY <1>1, <1>2, <1>5, <1>6 DEF ServerTypeOK, TypeOK
<1> QED  BY <1>1, <1>3, <1>4, <1>5, <1>6, <1>7, BesideBase

LEMMA RequestBase ==
    ASSUME BaseInv, NEW m \in toServer, NEW g \in Client, ServeRequest(m, g)
    PROVE  /\ BaseInv' /\ Beside /\ ServerTypeOK' /\ fate' = fate
           /\ now' = now /\ now \in Nat /\ m.ip \in Ip
           /\ UNCHANGED tableVars \/ Table!Grant(m.from, m.ip)
<1>1. /\ toServer' = toServer \ {m} /\ m.type = "REQUEST" /\ fate' = fate
      /\ UNCHANGED <<pc, countVars, leaseVars, fits>>
      /\ handler' = [handler EXCEPT ![g] = "acked"]
  BY DEF ServeRequest, ServedBy
<1>2. m.from \in Client /\ TypeOK /\ m.ip \in Ip
  BY <1>1, Typed DEF BaseInv, NamedPacket
<1>3. Beside
  BY <1>1 DEF Beside
<1>4. UNCHANGED tableVars \/ Table!Grant(m.from, m.ip)
  BY DEF ServeRequest
<1>5. /\ now' = now /\ now \in Nat
      /\ holder' \in [Ip -> Client \cup {Nobody}] /\ start' \in [Ip -> 0..now]
  BY <1>2, <1>4, TableTypes
<1>6. /\ toClient' \in SUBSET Answer
      /\ \A a \in toClient' : a \in toClient \/ NamedAnswer(a)
  BY <1>2, ReplyNamed DEF ServeRequest, Refuse
<1>7. ServerTypeOK'
  BY <1>1, <1>2, <1>5, <1>6 DEF ServerTypeOK, TypeOK
<1> QED  BY <1>1, <1>2, <1>3, <1>4, <1>5, <1>6, <1>7, BesideBase

LEMMA RenewalBase ==
    ASSUME BaseInv, NEW m \in toServer, NEW g \in Client, ServeRenewal(m, g)
    PROVE  /\ BaseInv' /\ Beside /\ ServerTypeOK' /\ Meets(m, "heard")
           /\ now' = now /\ now \in Nat /\ m.ip \in Ip
           /\ IF holder[m.ip] = m.from THEN Table!Renew(m.ip) ELSE UNCHANGED tableVars
<1>1. /\ toServer' = toServer \ {m} /\ m.type = "REQUEST" /\ Meets(m, "heard")
      /\ UNCHANGED <<handler, toClient, pc, countVars, leaseVars, fits>>
      /\ IF holder[m.ip] = m.from THEN Table!Renew(m.ip) ELSE UNCHANGED tableVars
  BY DEF ServeRenewal, ServedBy, RenewStart
<1>2. m.from \in Client /\ TypeOK /\ m.ip \in Ip
  BY <1>1, Typed DEF BaseInv, NamedPacket
<1>3. Beside
  BY <1>1 DEF Beside
<1>4. /\ now' = now /\ now \in Nat
      /\ holder' \in [Ip -> Client \cup {Nobody}] /\ start' \in [Ip -> 0..now]
  BY <1>1, <1>2, TableTypes
<1>5. /\ fate' \in [Client -> {"none", "heard", "lost"}]
      /\ \A c \in Client : fate'[c] = fate[c] \/ pc[c] = "bound"
  BY <1>1, <1>2, MeetsFate DEF Renewal
<1>6. ServerTypeOK'
  BY <1>1, <1>2, <1>4, <1>5 DEF ServerTypeOK, TypeOK
<1> QED  BY <1>1, <1>2, <1>3, <1>4, <1>5, <1>6, BesideBase

LEMMA ReleaseBase ==
    ASSUME BaseInv, NEW m \in toServer, NEW g \in Client, ServeRelease(m, g)
    PROVE  /\ BaseInv' /\ Beside /\ ServerTypeOK' /\ fate' = fate
           /\ now' = now /\ now \in Nat /\ m.ip \in Ip
           /\ IF holder[m.ip] = Nobody THEN UNCHANGED tableVars ELSE Table!GiveBack(m.ip)
<1>1. /\ toServer' = toServer \ {m} /\ m.type = "RELEASE" /\ fate' = fate
      /\ UNCHANGED <<toClient, pc, countVars, leaseVars, fits>>
      /\ handler' = [handler EXCEPT ![g] = "ended"]
      /\ IF holder[m.ip] = Nobody THEN UNCHANGED tableVars ELSE Table!GiveBack(m.ip)
  BY DEF ServeRelease, ServedBy
<1>2. TypeOK /\ m.ip \in Ip
  BY <1>1, Typed DEF BaseInv, NamedPacket
<1>3. Beside
  BY <1>1 DEF Beside
<1>4. /\ now' = now /\ now \in Nat
      /\ holder' \in [Ip -> Client \cup {Nobody}] /\ start' \in [Ip -> 0..now]
  BY <1>1, <1>2, TableTypes
<1>5. ServerTypeOK'
  BY <1>1, <1>2, <1>4 DEF ServerTypeOK, TypeOK
<1> QED  BY <1>1, <1>2, <1>3, <1>4, <1>5, BesideBase

(* The sweep, the losses, and nothing at all. *)
LEMMA SweepBase ==
    ASSUME BaseInv, Sweep
    PROVE  /\ BaseInv' /\ Beside /\ ServerTypeOK' /\ fate' = fate
           /\ now' = now /\ now \in Nat
<1>1. Table!Reclaim /\ UNCHANGED <<handler, toClient, fate, clientVars>>
  BY DEF Sweep
<1>2. TypeOK
  BY DEF BaseInv
<1>3. Beside
  BY <1>1 DEF Beside, clientVars
<1>4. /\ now' = now /\ now \in Nat
      /\ holder' \in [Ip -> Client \cup {Nobody}] /\ start' \in [Ip -> 0..now]
  BY <1>1, <1>2, TableTypes
<1>5. ServerTypeOK'
  BY <1>1, <1>2, <1>4 DEF ServerTypeOK, TypeOK
<1> QED  BY <1>1, <1>3, <1>4, <1>5, BesideBase

LEMMA LoseBase ==
    ASSUME BaseInv, NEW m \in toServer, Lose(m)
    PROVE  BaseInv' /\ Beside /\ ServerTypeOK' /\ Meets(m, "lost")
<1>1. /\ toServer' = toServer \ {m} /\ Meets(m, "lost")
      /\ UNCHANGED <<pc, countVars, leaseVars, fits, handler, tableVars, toClient>>
  BY DEF Lose
<1>2. m.from \in Client /\ TypeOK
  BY Typed DEF BaseInv
<1>3. Beside
  BY <1>1 DEF Beside
<1>4. /\ fate' \in [Client -> {"none", "heard", "lost"}]
      /\ \A c \in Client : fate'[c] = fate[c] \/ pc[c] = "bound"
  BY <1>1, <1>2, MeetsFate DEF Renewal
<1>5. ServerTypeOK'
  BY <1>1, <1>2, <1>4 DEF ServerTypeOK, TypeOK, tableVars
<1> QED  BY <1>1, <1>3, <1>4, <1>5, BesideBase

LEMMA RestBase ==
    ASSUME BaseInv, (\E a \in toClient : LoseAnswer(a)) \/ UNCHANGED vars
    PROVE  /\ BaseInv' /\ Beside /\ ServerTypeOK' /\ fate' = fate /\ toServer' = toServer
           /\ UNCHANGED <<handler, tableVars>> /\ toClient' \subseteq toClient
<1>1. /\ toClient' \subseteq toClient /\ UNCHANGED <<clientVars, handler, tableVars, fate>>
  BY DEF LoseAnswer, vars, serverVars
<1>2. Beside /\ toServer' = toServer
  BY <1>1 DEF Beside, clientVars
<1>3. ServerTypeOK'
  BY <1>1 DEF ServerTypeOK, BaseInv, TypeOK, tableVars
<1> QED  BY <1>1, <1>2, <1>3, BesideBase

(* Steps of a client: the server stands still. *)
LEMMA ClientsBase ==
    ASSUME BaseInv, ClientInv', NEW c \in Client, Others(c), Asks(c)' => Asks(c),
           UNCHANGED <<handler, tableVars, fate>>, toClient' \subseteq toClient,
           \A m \in toServer' : NamedPacket(m)
    PROVE  BaseInv'
<1>1. TypeOK'
  BY DEF BaseInv, TypeOK, ClientInv, tableVars
<1>2. Waiting'
  BY DEF BaseInv, Waiting, Asks, Others
<1>3. (\A a \in toClient' : NamedAnswer(a)') /\ (\A m \in toServer' : NamedPacket(m)')
  BY DEF BaseInv, NamedAnswer, NamedPacket
<1> QED  BY <1>1, <1>2, <1>3 DEF BaseInv

LEMMA SentNamed ==
    ASSUME BaseInv, NEW c \in Client, NEW ip,
           NEW type \in {"DISCOVER", "REQUEST", "DECLINE", "RELEASE"},
           Send(c, type, ip) \/ UNCHANGED toServer,
           type \in {"REQUEST", "RELEASE"} => ip \in Ip
    PROVE  \A m \in toServer' : NamedPacket(m)
<1> DEFINE new == [from |-> c, type |-> type, ip |-> ip, age |-> 0]
<1>1. new.type = type /\ new.ip = ip
  OBVIOUS
<1>2. toServer' = toServer \cup {new} \/ toServer' = toServer
  BY DEF Send
<1> HIDE DEF new
<1> QED  BY <1>1, <1>2 DEF BaseInv, NamedPacket

LEMMA AskBase ==
    ASSUME BaseInv, NEW c \in Client, Start(c) \/ Fail(c) \/ TimeOut(c), UNCHANGED serverVars
    PROVE  /\ BaseInv' /\ Others(c) /\ Asks(c) /\ pc'[c] \in {"asking", "failed"}
           /\ UNCHANGED <<handler, tableVars, fate>> /\ toClient' = toClient
           /\ Send(c, "DISCOVER", NoIp) \/ UNCHANGED toServer
<1>1. /\ UNCHANGED <<handler, tableVars, fate>> /\ toClient' = toClient
      /\ Send(c, "DISCOVER", NoIp) \/ UNCHANGED toServer
      /\ Asks(c)
  BY DEF serverVars, Start, Fail, TimeOut, Asks
<1>2. ClientInv /\ ClientInv'
  BY AskingKept DEF BaseInv
<1>3. Others(c) /\ pc'[c] \in {"asking", "failed"}
  BY <1>2 DEF Start, Fail, TimeOut, Others, ClientInv, ClientTypeOK, countVars, leaseVars
<1>4. \A m \in toServer' : NamedPacket(m)
  BY <1>1, SentNamed
<1> QED  BY <1>1, <1>2, <1>3, <1>4, ClientsBase

LEMMA WakeBase ==
    ASSUME BaseInv, NEW c \in Client, Wake(c), UNCHANGED serverVars
    PROVE  /\ BaseInv' /\ Others(c) /\ pc[c] = "bound" /\ rest[c] <= 0
           /\ UNCHANGED <<handler, tableVars, fate, toClient, offered_ip, timers, elapsed>>
           /\ offered_ip[c] \in Ip /\ elapsed[c] \in Nat /\ t1_count[c] \in 0..1
           /\ Ends(c) => pc'[c] = "exited"
<1>1. /\ pc[c] = "bound" /\ rest[c] <= 0
      /\ UNCHANGED <<handler, tableVars, fate, toClient, offered_ip, timers, elapsed>>
  BY DEF Wake, serverVars
<1>2. /\ ClientInv /\ ClientInv' /\ t1_count[c] \in 0..1 /\ elapsed[c] \in Nat
      /\ offered_ip[c] \in Ip
  BY <1>1, WakeKept DEF BaseInv, ClientInv, ClientTypeOK, Good
<1>3. Others(c)
  BY <1>2 DEF Wake, Ends, GoesOn, Others, ClientInv, ClientTypeOK, countVars
<1>4. ~Asks(c)' /\ (Ends(c) => pc'[c] = "exited")
  BY <1>1, <1>2 DEF Wake, Ends, GoesOn, Asks, ClientInv, ClientTypeOK
<1>5. PICK ip \in Ip : ip = offered_ip[c]
  BY <1>2
<1>6. \A m \in toServer' : NamedPacket(m)
  <2>1. Send(c, "REQUEST", ip) \/ Send(c, "RELEASE", ip) \/ UNCHANGED toServer
    BY <1>5 DEF Wake, Ends, GoesOn, SendBroadcast
  <2> QED  BY <2>1, SentNamed
<1> QED  BY <1>1, <1>2, <1>3, <1>4, <1>6, ClientsBase

(* An answer heard is one of three. *)
Heard(a) == [type |-> a.type, ip |-> a.ip, lease |-> LeaseTime, info |-> a.info]
LEMMA HearBase ==
    ASSUME BaseInv, NEW a \in toClient, NEW c \in Client, c = a.to, NEW p, p = Heard(a), Hear(a)
    PROVE  /\ BaseInv' /\ Others(c) /\ pc[c] = "asking" /\ Asks(c)
           /\ UNCHANGED <<handler, tableVars, fate>> /\ toClient' \subseteq toClient
           /\ p.type = a.type /\ p.ip = a.ip
           /\ \/ /\ handle_dhcp_offer(c, p) /\ p.type = "OFFER" /\ p.ip \in Ip
                 /\ Send(c, "REQUEST", p.ip) \/ UNCHANGED toServer
                 /\ UNCHANGED <<pc, countVars, leaseVars>>
              \/ /\ handle_dhcp_ack(c, p) /\ p.type = "ACK" /\ p.ip \in Ip
                 /\ toServer' = toServer
                 /\ pc'[c] = "bound" /\ offered_ip'[c] = p.ip /\ timers'[c] = FromServer
                 /\ elapsed'[c] = 0 /\ rest'[c] = 0 /\ t1_count'[c] = 0
              \/ /\ handle_dhcp_nak(c, p) /\ p.type = "NAK"
                 /\ Send(c, "DISCOVER", NoIp) \/ UNCHANGED toServer
                 /\ offered_ip'[c] = NoIp /\ pc'[c] # "bound"
<1>1. /\ Receive(c, p) /\ pc[c] = "asking" /\ UNCHANGED <<handler, tableVars, fate>>
      /\ toClient' \subseteq toClient
  BY DEF Hear, Receive, Heard
<1>2. /\ a \in Answer /\ ClientInv /\ NamedAnswer(a) /\ Asks(c)
      /\ p.type = a.type /\ p.ip = a.ip /\ p.lease = LeaseTime /\ p.lease # Missing
  BY <1>1, Typed, SystemAssumption, ClientAssumption DEF BaseInv, Asks, Heard
<1>3. Readable(p)
  BY <1>2, SystemAssumption DEF Readable, NamedAnswer, Answer, Received, Heard
<1>4. ClientInv'
  BY <1>1, <1>2, <1>3, ReceiveKept
<1>5. CASE handle_dhcp_offer(c, p)
  <2>1. /\ p.type = "OFFER" /\ UNCHANGED <<pc, countVars, leaseVars>>
        /\ Send(c, "REQUEST", p.ip) \/ UNCHANGED toServer
    BY <1>5, SystemAssumption DEF handle_dhcp_offer, SendAstray
  <2>2. p.ip \in Ip
    BY <1>2, <2>1 DEF NamedAnswer
  <2>3. Others(c) /\ \A m \in toServer' : NamedPacket(m)
    BY <2>1, <2>2, SentNamed DEF Others, countVars, leaseVars
  <2>4. BaseInv'
    BY <1>1, <1>2, <1>4, <2>3, ClientsBase
  <2> QED  BY <1>1, <1>2, <1>5, <2>1, <2>2, <2>3, <2>4
<1>6. CASE handle_dhcp_ack(c, p)
  <2>1. /\ p.type = "ACK" /\ toServer' = toServer
        /\ pc' = [pc EXCEPT ![c] = "bound"]
        /\ offered_ip' = [offered_ip EXCEPT ![c] = p.ip]
        /\ timers' = [timers EXCEPT ![c] = FromServer]
        /\ elapsed' = [elapsed EXCEPT ![c] = 0] /\ rest' = [rest EXCEPT ![c] = 0]
        /\ t1_count' = [t1_count EXCEPT ![c] = 0]
    BY <1>2, <1>6 DEF handle_dhcp_ack, FromServer
  <2>2. /\ pc'[c] = "bound" /\ offered_ip'[c] = p.ip /\ timers'[c] = FromServer
        /\ elapsed'[c] = 0 /\ rest'[c] = 0 /\ t1_count'[c] = 0
    BY <1>2, <2>1 DEF ClientInv, ClientTypeOK
  <2>3. p.ip \in Ip
    BY <1>2, <2>1 DEF NamedAnswer
  <2>4. Others(c)
    BY <1>2, <1>6 DEF handle_dhcp_ack, Others, ClientInv, ClientTypeOK, countVars
  <2>5. \A m \in toServer' : NamedPacket(m)
    BY <2>1 DEF BaseInv
  <2>6. BaseInv'
    BY <1>1, <1>2, <1>4, <2>4, <2>5, ClientsBase
  <2> QED  BY <1>1, <1>2, <1>6, <2>1, <2>2, <2>3, <2>4, <2>6
<1>7. CASE handle_dhcp_nak(c, p)
  <2>1. p.type = "NAK" /\ (Send(c, "DISCOVER", NoIp) \/ UNCHANGED toServer)
    BY <1>7 DEF handle_dhcp_nak, SendAstray
  <2>2. Others(c) /\ offered_ip'[c] = NoIp /\ pc'[c] # "bound"
    BY <1>1, <1>2, <1>7 DEF handle_dhcp_nak, Others, ClientInv, ClientTypeOK
  <2>3. \A m \in toServer' : NamedPacket(m)
    BY <2>1, SentNamed
  <2>4. BaseInv'
    BY <1>1, <1>2, <1>4, <2>2, <2>3, ClientsBase
  <2> QED  BY <1>1, <1>2, <1>7, <2>1, <2>2, <2>4
<1>8. ~HandleDecline(c, p) /\ ~Unexpected(c, p)
  BY <1>2 DEF HandleDecline, Unexpected, Answer
<1> QED  BY <1>1, <1>5, <1>6, <1>7, <1>8 DEF Receive

-----------------------------------------------------------------------------
(* A second passes: a lease, the packets and the clients that have one get older. *)
LEMMA TickTimes ==
    ASSUME BaseInv, Tick
    PROVE  /\ UNCHANGED <<handler, fate, pc, countVars, offered_ip, timers, info, t1_count,
                          t2_count, fits, holder, start>>
           /\ now \in Nat /\ now' = now + 1
           /\ \A c \in Client : pc[c] = "bound" =>
                /\ elapsed[c] \in Nat /\ elapsed'[c] = elapsed[c] + 1
                /\ rest[c] \in Int /\ rest[c] > -MaxLate /\ rest'[c] = rest[c] - 1
           /\ \A c \in Client : pc[c] # "bound" =>
                elapsed'[c] = elapsed[c] /\ rest'[c] = rest[c]
           /\ \A ip \in Ip, c \in Client, n \in Int : Held(ip, c, n) => Held(ip, c, n + 1)'
<1>1. /\ UNCHANGED <<handler, fate, pc, countVars, offered_ip, timers, info, t1_count,
                     t2_count, fits, holder, start>>
      /\ now \in Nat /\ now' = now + 1
  BY DEF Tick, Table!Tick, BaseInv, TypeOK
<1>2. ASSUME NEW c \in Client PROVE elapsed[c] \in Nat /\ rest[c] \in Int
  <2>1. elapsed[c] \in Nat /\ rest[c] \in (-MaxLate)..Sleep
    BY DEF BaseInv, ClientInv, ClientTypeOK
  <2> QED  BY <2>1, ClientAssumption
<1>3. \A c \in Client : pc[c] = "bound" =>
         elapsed'[c] = elapsed[c] + 1 /\ rest'[c] = rest[c] - 1 /\ rest[c] > -MaxLate
  BY DEF Tick
<1>4. \A c \in Client : pc[c] # "bound" => elapsed'[c] = elapsed[c] /\ rest'[c] = rest[c]
  BY DEF Tick
<1>5. ASSUME NEW ip \in Ip, NEW c \in Client, NEW n \in Int, Held(ip, c, n)
      PROVE  Held(ip, c, n + 1)'
  BY <1>1, <1>5 DEF Held, BaseInv, TypeOK
<1> QED  BY <1>1, <1>2, <1>3, <1>4, <1>5

(* Each packet under way is one of before, a second older. *)
LEMMA TickPackets ==
    ASSUME BaseInv, Tick
    PROVE  /\ \A m \in toServer : /\ [m EXCEPT !.age = @ + 1] \in toServer'
                                  /\ [m EXCEPT !.age = @ + 1] \in Packet
                                  /\ m.age \in Nat
           /\ \A m \in toServer' : \E o \in toServer :
                /\ m = [o EXCEPT !.age = @ + 1] /\ m \in Packet
                /\ m.from = o.from /\ m.type = o.type /\ m.ip = o.ip /\ m.age = o.age + 1
                /\ o.age \in Nat /\ o.age < Delay
           /\ \A a \in toClient' : \E o \in toClient :
                /\ a \in Answer
                /\ a.to = o.to /\ a.type = o.type /\ a.ip = o.ip /\ a.age = o.age + 1
                /\ o.age \in Nat /\ o.age < Delay
<1>1. toServer \subseteq Packet /\ toClient \subseteq Answer
  BY DEF BaseInv, ClientInv, ClientTypeOK, TypeOK
<1>2. /\ toServer' = {[m EXCEPT !.age = @ + 1] : m \in toServer}
      /\ toClient' = {[m EXCEPT !.age = @ + 1] : m \in toClient}
      /\ \A m \in toServer \cup toClient : m.age < Delay
  BY DEF Tick, Older
<1>3. ASSUME NEW m \in Packet
      PROVE  /\ [m EXCEPT !.age = @ + 1] \in Packet /\ m.age \in Nat
             /\ [m EXCEPT !.age = @ + 1].from = m.from /\ [m EXCEPT !.age = @ + 1].type = m.type
             /\ [m EXCEPT !.age = @ + 1].ip = m.ip /\ [m EXCEPT !.age = @ + 1].age = m.age + 1
  BY DEF Packet
<1>4. ASSUME NEW a \in Answer
      PROVE  /\ [a EXCEPT !.age = @ + 1] \in Answer /\ a.age \in Nat
             /\ [a EXCEPT !.age = @ + 1].to = a.to /\ [a EXCEPT !.age = @ + 1].type = a.type
             /\ [a EXCEPT !.age = @ + 1].ip = a.ip /\ [a EXCEPT !.age = @ + 1].age = a.age + 1
  BY DEF Answer
<1>5. ASSUME NEW m \in toServer
      PROVE  /\ [m EXCEPT !.age = @ + 1] \in toServer'
             /\ [m EXCEPT !.age = @ + 1] \in Packet /\ m.age \in Nat
  BY <1>1, <1>2, <1>3
<1>6. ASSUME NEW m \in toServer'
      PROVE  \E o \in toServer :
               /\ m = [o EXCEPT !.age = @ + 1] /\ m \in Packet
               /\ m.from = o.from /\ m.type = o.type /\ m.ip = o.ip /\ m.age = o.age + 1
               /\ o.age \in Nat /\ o.age < Delay
  <2>1. PICK o \in toServer : m = [o EXCEPT !.age = @ + 1]
    BY <1>2
  <2> QED  BY <1>1, <1>2, <1>3, <2>1
<1>7. ASSUME NEW a \in toClient'
      PROVE  \E o \in toClient :
               /\ a \in Answer
               /\ a.to = o.to /\ a.type = o.type /\ a.ip = o.ip /\ a.age = o.age + 1
               /\ o.age \in Nat /\ o.age < Delay
  <2>1. PICK o \in toClient : a = [o EXCEPT !.age = @ + 1]
    BY <1>2
  <2> QED  BY <1>1, <1>2, <1>4, <2>1
<1> QED  BY <1>5, <1>6, <1>7

LEMMA TickClients ==
    ASSUME BaseInv, Tick
    PROVE  ClientInv'
<1> USE TickTimes
<1>1. ClientTypeOK /\ ClientInv
  BY DEF BaseInv, ClientInv
<1>2. ClientTypeOK'
  <2>1. toServer' \in SUBSET Packet
    BY TickPackets
  <2>2. elapsed' \in [Client -> Nat]
    <3>1. elapsed' = [c \in Client |-> IF pc[c] = "bound" THEN elapsed[c] + 1 ELSE elapsed[c]]
      BY DEF Tick
    <3> QED  BY <1>1, <3>1 DEF ClientTypeOK
  <2>3. rest' \in [Client -> (-MaxLate)..Sleep]
    <3>1. rest' = [c \in Client |-> IF pc[c] = "bound" THEN rest[c] - 1 ELSE rest[c]]
      BY DEF Tick
    <3>2. \A c \in Client : (IF pc[c] = "bound" THEN rest[c] - 1 ELSE rest[c])
                              \in (-MaxLate)..Sleep
      BY <1>1, ClientAssumption DEF ClientTypeOK
    <3> QED  BY <3>1, <3>2
  <2> QED  BY <1>1, <2>1, <2>2, <2>3 DEF ClientTypeOK, countVars
<1>3. ASSUME NEW c \in Client PROVE Good(c)'
  <2>1. Good(c)
    BY <1>1 DEF ClientInv
  <2>2. Refused(c)' = Refused(c)
    BY DEF Refused, countVars
  <2>3. CASE pc[c] = "bound"
    <3>1. elapsed'[c] + rest'[c] = elapsed[c] + rest[c]
      BY <2>3
    <3>2. LooksInTime(c) => LooksInTime(c)'
      BY <3>1 DEF LooksInTime
    <3> QED  BY <2>1, <2>2, <2>3, <3>1, <3>2 DEF Good
  <2>4. CASE pc[c] # "bound"
    BY <2>1, <2>2, <2>4 DEF Good
  <2> QED  BY <2>3, <2>4
<1>4. ReleaseLast'
  <2> SUFFICES ASSUME NEW m \in toServer', m.type = "RELEASE"
               PROVE /\ pc'[m.from] = "exited" /\ m.ip = offered_ip'[m.from]
                     /\ elapsed'[m.from] >= timers'[m.from].lease_time
    BY DEF ReleaseLast
  <2>1. PICK o \in toServer : m.from = o.from /\ m.type = o.type /\ m.ip = o.ip
    BY TickPackets
  <2>2. o.from \in Client
    BY <1>1 DEF ClientTypeOK, Packet
  <2> QED  BY <1>1, <2>1, <2>2 DEF ClientInv, ReleaseLast
<1> QED  BY <1>2, <1>3, <1>4 DEF ClientInv

LEMMA TickBase ==
    ASSUME BaseInv, Tick
    PROVE  BaseInv'
<1> USE TickTimes
<1>1. ClientInv' /\ TypeOK'
  <2>1. toClient' \in SUBSET Answer
    BY TickPackets
  <2>2. start' \in [Ip -> 0..now']
    BY DEF BaseInv, TypeOK
  <2> QED  BY <2>1, <2>2, TickClients DEF BaseInv, TypeOK, ClientInv
<1>2. Waiting'
  BY DEF BaseInv, Waiting, Asks
<1>3. (\A a \in toClient' : NamedAnswer(a)') /\ (\A m \in toServer' : NamedPacket(m)')
  <2>1. ASSUME NEW a \in toClient' PROVE NamedAnswer(a)'
    <3>1. PICK o \in toClient : a.type = o.type /\ a.ip = o.ip
      BY TickPackets
    <3> QED  BY <3>1 DEF BaseInv, NamedAnswer
  <2>2. ASSUME NEW m \in toServer' PROVE NamedPacket(m)'
    <3>1. PICK o \in toServer : m.type = o.type /\ m.ip = o.ip
      BY TickPackets
    <3> QED  BY <3>1 DEF BaseInv, NamedPacket
  <2> QED  BY <2>1, <2>2
<1> QED  BY <1>1, <1>2, <1>3 DEF BaseInv

-----------------------------------------------------------------------------
LEMMA ServeBase ==
    ASSUME BaseInv, NEW m \in toServer, Serve(m)
    PROVE  /\ BaseInv' /\ Beside
           /\ \A c \in Client : fate'[c] = fate[c] \/ pc[c] = "bound"
<1>1. TypeOK /\ m.from \in Client
  BY Typed DEF BaseInv
<1>2. CASE ServeFirst(m) \/ \E g \in Client : ServeDiscover(m, g)
  BY <1>2, DiscoverBase
<1>3. ASSUME NEW g \in Client, ServeRequest(m, g) PROVE BaseInv' /\ Beside /\ fate' = fate
  BY <1>3, RequestBase
<1>4. ASSUME NEW g \in Client, ServeRelease(m, g) PROVE BaseInv' /\ Beside /\ fate' = fate
  BY <1>4, ReleaseBase
<1>5. ASSUME NEW g \in Client, ServeRenewal(m, g)
      PROVE BaseInv' /\ Beside /\ \A c \in Client : fate'[c] = fate[c] \/ pc[c] = "bound"
  BY <1>1, <1>5, RenewalBase, MeetsFate DEF Renewal
<1> QED  BY <1>2, <1>3, <1>4, <1>5 DEF Serve

(* A client that has left, or failed, stays where it is. *)
LEMMA LeftStays ==
    ASSUME BaseInv, [Next]_vars, NEW c \in Client, pc[c] # "bound", ~Asks(c)
    PROVE  pc'[c] = pc[c] /\ fate'[c] = fate[c]
<1>1. ASSUME Beside, \A d \in Client : fate'[d] = fate[d] \/ pc[d] = "bound"
      PROVE  pc'[c] = pc[c] /\ fate'[c] = fate[c]
  BY <1>1 DEF Beside
<1>2. ASSUME NEW d \in Client, Act(d) PROVE pc'[c] = pc[c] /\ fate'[c] = fate[c]
  <2>1. Others(d) /\ (Asks(d) \/ pc[d] = "bound") /\ fate' = fate
    BY <1>2, AskBase, WakeBase DEF Act
  <2> QED  BY <2>1 DEF Others
<1>3. ASSUME NEW m \in toServer, Serve(m) PROVE pc'[c] = pc[c] /\ fate'[c] = fate[c]
  BY <1>1, <1>3, ServeBase
<1>4. ASSUME NEW m \in toServer, Lose(m) PROVE pc'[c] = pc[c] /\ fate'[c] = fate[c]
  <2>1. TypeOK /\ m.from \in Client
    BY Typed DEF BaseInv
  <2> QED  BY <1>1, <1>4, <2>1, LoseBase, MeetsFate DEF Renewal
<1>5. ASSUME NEW a \in toClient, Hear(a) PROVE pc'[c] = pc[c] /\ fate'[c] = fate[c]
  <2>1. PICK d \in Client : d = a.to
    BY Typed
  <2>2. PICK p : p = Heard(a)
    OBVIOUS
  <2>3. Others(d) /\ Asks(d) /\ UNCHANGED <<handler, tableVars, fate>>
    BY <1>5, <2>1, <2>2, HearBase
  <2> QED  BY <2>3 DEF Others
<1>6. CASE Sweep \/ (\E a \in toClient : LoseAnswer(a)) \/ UNCHANGED vars
  BY <1>1, <1>6, SweepBase, RestBase
<1>7. CASE Tick
  BY <1>7, TickTimes
<1> QED  BY <1>2, <1>3, <1>4, <1>5, <1>6, <1>7 DEF Next

(* Once a client that was overdue has left, it is never quiet again. *)
LEMMA QuietBack ==
    ASSUME BaseInv, [Next]_vars, Quiet'
    PROVE  Quiet
<1> SUFFICES ASSUME NEW c \in Client, Overdue(c), pc[c] # "bound" PROVE FALSE
  BY DEF Quiet
<1>1. fate[c] = "lost" /\ ~Asks(c)
  BY DEF Overdue, BaseInv, Waiting
<1>2. pc'[c] = pc[c] /\ fate'[c] = fate[c]
  BY <1>1, LeftStays
<1> QED  BY <1>1, <1>2 DEF Quiet, Overdue

LEMMA BaseStep ==
    ASSUME BaseInv, [Next]_vars
    PROVE  BaseInv'
<1>1. ASSUME NEW c \in Client, Act(c) PROVE BaseInv'
  BY <1>1, AskBase, WakeBase DEF Act
<1>2. ASSUME NEW m \in toServer, Serve(m) \/ Lose(m) PROVE BaseInv'
  BY <1>2, ServeBase, LoseBase
<1>3. ASSUME NEW a \in toClient, Hear(a) PROVE BaseInv'
  <2>1. PICK c \in Client : c = a.to
    BY Typed
  <2>2. PICK p : p = Heard(a)
    OBVIOUS
  <2> QED  BY <1>3, <2>1, <2>2, HearBase
<1>4. CASE Sweep \/ Tick \/ (\E a \in toClient : LoseAnswer(a)) \/ UNCHANGED vars
  BY <1>4, SweepBase, TickBase, RestBase
<1> QED  BY <1>1, <1>2, <1>3, <1>4 DEF Next

-----------------------------------------------------------------------------
(* How old each lease of the invariant may be. *)
LEMMA AnswerYoung ==
    ASSUME NEW a \in Answer, a.age <= Delay
    PROVE  /\ a.age \in Nat /\ 2 * Delay + a.age \in Nat
           /\ a.age <= LeaseTime /\ 2 * Delay + a.age <= LeaseTime
BY TimingAssumption, ClientAssumption, TimesNat DEF Answer

LEMMA PacketYoung ==
    ASSUME NEW m \in Packet, m.age <= Delay
    PROVE  /\ m.age \in Nat
           /\ Delay + m.age \in Nat /\ Delay + m.age <= LeaseTime
           /\ LeaseTime + MaxLate - T1(LeaseTime) + m.age \in Nat
           /\ LeaseTime + MaxLate - T1(LeaseTime) + m.age <= LeaseTime
BY TimingAssumption, ClientAssumption, TimesNat DEF Packet

LEMMA LeaseYoung ==
    ASSUME SystemInv, NEW c \in Client, pc[c] = "bound"
    PROVE  /\ offered_ip[c] \in Ip
           /\ elapsed[c] \in Nat /\ rest[c] \in Int /\ rest[c] >= -MaxLate
           /\ elapsed[c] + rest[c] <= LeaseTime
           /\ 3 * Delay + elapsed[c] \in Nat
           /\ t1_count[c] = 0 =>
                elapsed[c] < T1(LeaseTime) + Sleep + MaxLate /\ 3 * Delay + elapsed[c] <= LeaseTime
           /\ t1_count[c] = 1 /\ Asked(c) =>
                elapsed[c] < LeaseTime /\ 3 * Delay + elapsed[c] <= LeaseTime
           /\ fate[c] = "lost" /\ ~Overdue(c) => 3 * Delay + elapsed[c] <= LeaseTime
           /\ t1_count[c] = 1 => /\ elapsed[c] - T1(LeaseTime) \in Nat
                                 /\ elapsed[c] - T1(LeaseTime) <= LeaseTime + MaxLate - T1(LeaseTime)
                                 /\ elapsed[c] - T1(LeaseTime) <= LeaseTime
<1>1. /\ offered_ip[c] \in Ip /\ elapsed[c] \in Nat /\ rest[c] \in Int /\ rest[c] >= -MaxLate
      /\ elapsed[c] + rest[c] <= LeaseTime
  <2>1. timers[c].lease_time = LeaseTime
    BY DEF SystemInv, CoverInv, Kept, FromServer
  <2>2. Good(c) /\ elapsed[c] \in Nat /\ rest[c] \in (-MaxLate)..Sleep
    BY DEF SystemInv, BaseInv, ClientInv, ClientTypeOK
  <2> QED  BY <2>1, <2>2, ClientAssumption DEF Good
<1>2. 3 * Delay + elapsed[c] \in Nat
  BY <1>1, TimingAssumption
<1>3. t1_count[c] = 0 =>
         elapsed[c] < T1(LeaseTime) + Sleep + MaxLate /\ 3 * Delay + elapsed[c] <= LeaseTime
  <2>1. t1_count[c] = 0 => elapsed[c] + rest[c] < T1(LeaseTime) + Sleep
    BY DEF SystemInv, CoverInv, Kept, Early
  <2> QED  BY <1>1, <2>1, TimingAssumption, ClientAssumption, TimesNat
<1>4. t1_count[c] = 1 /\ Asked(c) =>
         elapsed[c] < LeaseTime /\ 3 * Delay + elapsed[c] <= LeaseTime
  <2> SUFFICES ASSUME Asked(c)
               PROVE elapsed[c] < LeaseTime /\ 3 * Delay + elapsed[c] <= LeaseTime
    OBVIOUS
  <2>1. PICK m \in toServer : Renews(m, c)
    BY DEF Asked
  <2>2. m.age \in Nat /\ m.age <= Delay
    BY Typed DEF SystemInv, CoverInv, FreshPacket
  <2>3. elapsed[c] < T1(LeaseTime) + Sleep + MaxLate + m.age
    BY <2>1 DEF Renews
  <2> QED  BY <1>1, <2>2, <2>3, TimingAssumption, ClientAssumption, TimesNat
<1>5. fate[c] = "lost" /\ ~Overdue(c) => 3 * Delay + elapsed[c] <= LeaseTime
  <2>1. fate[c] = "lost" /\ ~Overdue(c) => ~(elapsed[c] + 3 * Delay > LeaseTime)
    BY DEF Overdue
  <2> QED  BY <1>1, <2>1, TimingAssumption
<1>6. t1_count[c] = 1 => /\ elapsed[c] - T1(LeaseTime) \in Nat
                         /\ elapsed[c] - T1(LeaseTime) <= LeaseTime + MaxLate - T1(LeaseTime)
                         /\ elapsed[c] - T1(LeaseTime) <= LeaseTime
  <2>1. t1_count[c] = 1 => elapsed[c] >= T1(LeaseTime)
    BY DEF SystemInv, CoverInv, Kept
  <2> QED  BY <1>1, <2>1, TimingAssumption, ClientAssumption, TimesNat
<1> QED  BY <1>1, <1>2, <1>3, <1>4, <1>5, <1>6

(* A client that has a lease, and is not overdue, has it in the table. *)
LEMMA Covered ==
    ASSUME SystemInv, NEW c \in Client, pc[c] = "bound", ~Overdue(c)
    PROVE  holder[offered_ip[c]] = c
<1>1. t1_count[c] \in 0..1 /\ fate[c] \in {"none", "heard", "lost"} /\ Kept(c)
  BY DEF SystemInv, BaseInv, CoverInv, TypeOK, ClientInv, ClientTypeOK
<1> QED  BY <1>1 DEF Kept, Early, Asked, Unrenewed, Renewed, Held

-----------------------------------------------------------------------------
(* A client that has not left, or whose RELEASE is still under way. *)
Around(c) == pc[c] # "exited" \/ \E m \in toServer' : m.from = c /\ m.type = "RELEASE"

(* What a step of server or network may do to a client that is around. *)
SparesAll == \A c \in Client, ip \in Ip, n \in Nat :
    Around(c) /\ n <= LeaseTime /\ Held(ip, c, n) => Held(ip, c, n)'
AcksStay == \A c \in Client : Around(c) /\ handler[c] = "acked" => handler'[c] = "acked"
FatesGoOn == \A c \in Client : pc[c] = "bound" =>
    \/ fate'[c] = fate[c]
    \/ t1_count[c] = 1 /\ fate[c] = "none" /\ fate'[c] = "lost"
    \/ t1_count[c] = 1 /\ fate[c] = "none" /\ fate'[c] = "heard" /\ Renewed(c)'
RenewalsStay == \A c \in Client : \A m \in toServer :
    pc[c] = "bound" /\ t1_count[c] = 1 /\ fate'[c] = "none" /\ Renews(m, c) => m \in toServer'

LEMMA BesideKept ==
    ASSUME SystemInv, BaseInv', Beside, SparesAll, AcksStay, FatesGoOn, RenewalsStay,
           \A a \in toClient' : a \in toClient \/ FreshAnswer(a)',
           \A c \in Client : Ended(c)'
    PROVE  SystemInv'
<1>1. /\ pc' = pc /\ offered_ip' = offered_ip /\ timers' = timers /\ elapsed' = elapsed
      /\ rest' = rest /\ t1_count' = t1_count /\ t2_count' = t2_count
      /\ toServer' \subseteq toServer
  BY DEF Beside, leaseVars
<1>2. BaseInv
  BY DEF SystemInv
<1>3. ASSUME NEW a \in toClient' PROVE FreshAnswer(a)'
  <2>1. CASE a \in toClient
    <3>1. a \in Answer /\ a.to \in Client /\ FreshAnswer(a)
      BY <1>2, <2>1, Typed DEF SystemInv, CoverInv
    <3>2. /\ a.age \in Nat /\ 2 * Delay + a.age \in Nat
          /\ a.age <= LeaseTime /\ 2 * Delay + a.age <= LeaseTime
      BY <3>1, AnswerYoung DEF FreshAnswer
    <3>3. Asks(a.to)' => Asks(a.to) /\ Around(a.to)
      BY <1>1 DEF Asks, Around
    <3>4. a.type \in {"OFFER", "ACK"} => a.ip \in Ip
      BY <1>2, <2>1 DEF BaseInv, NamedAnswer
    <3> QED  BY <3>1, <3>2, <3>3, <3>4 DEF FreshAnswer, SparesAll, AcksStay
  <2> QED  BY <2>1
<1>4. ASSUME NEW m \in toServer' PROVE FreshPacket(m)'
  <2>1. m \in Packet /\ m.from \in Client /\ FreshPacket(m) /\ NamedPacket(m)
    BY <1>1, <1>2, Typed DEF SystemInv, CoverInv, BaseInv
  <2>2. /\ m.age \in Nat
        /\ Delay + m.age \in Nat /\ Delay + m.age <= LeaseTime
        /\ LeaseTime + MaxLate - T1(LeaseTime) + m.age \in Nat
        /\ LeaseTime + MaxLate - T1(LeaseTime) + m.age <= LeaseTime
    BY <2>1, PacketYoung DEF FreshPacket
  <2>3. /\ Asks(m.from)' => Asks(m.from) /\ Around(m.from)
        /\ m.type = "RELEASE" => Around(m.from)
    BY <1>1 DEF Asks, Around
  <2> QED  BY <2>1, <2>2, <2>3 DEF FreshPacket, NamedPacket, SparesAll, AcksStay
<1>5. ASSUME NEW c \in Client PROVE Kept(c)'
  <2> SUFFICES ASSUME pc[c] = "bound" PROVE Kept(c)'
    BY <1>1 DEF Kept
  <2>1. /\ offered_ip[c] \in Ip /\ elapsed[c] \in Nat /\ 3 * Delay + elapsed[c] \in Nat
        /\ t1_count[c] = 0 => 3 * Delay + elapsed[c] <= LeaseTime
        /\ t1_count[c] = 1 /\ Asked(c) => 3 * Delay + elapsed[c] <= LeaseTime
        /\ fate[c] = "lost" /\ ~Overdue(c) => 3 * Delay + elapsed[c] <= LeaseTime
        /\ t1_count[c] = 1 => /\ elapsed[c] - T1(LeaseTime) \in Nat
                              /\ elapsed[c] - T1(LeaseTime) <= LeaseTime
    BY LeaseYoung
  <2>2. Kept(c) /\ Around(c) /\ handler[c] = "acked"
    BY DEF SystemInv, CoverInv, Kept, Around
  <2>3. timers'[c] = FromServer' /\ handler'[c] = "acked"
    BY <1>1, <2>2 DEF Kept, AcksStay, FromServer
  <2>4. Unrenewed(c) /\ 3 * Delay + elapsed[c] <= LeaseTime => Unrenewed(c)'
    BY <1>1, <2>1, <2>2 DEF Unrenewed, SparesAll, Held
  <2>5. ASSUME t1_count[c] = 0 PROVE fate'[c] = "none" /\ Early(c)'
    <3>1. fate[c] = "none" /\ Early(c)
      BY <2>2, <2>5 DEF Kept
    <3>2. fate'[c] = "none"
      BY <2>5, <3>1 DEF FatesGoOn
    <3> QED  BY <1>1, <2>1, <2>4, <2>5, <3>1, <3>2 DEF Early
  <2>6. ASSUME t1_count[c] = 1, fate'[c] = "none" PROVE Asked(c)'
    <3>1. fate[c] = "none" /\ Asked(c)
      BY <2>2, <2>6 DEF Kept, FatesGoOn
    <3>2. PICK m \in toServer : Renews(m, c)
      BY <3>1 DEF Asked
    <3>3. m \in toServer'
      BY <2>6, <3>2 DEF RenewalsStay
    <3>4. Renews(m, c)'
      BY <1>1, <3>2 DEF Renews
    <3> QED  BY <2>1, <2>4, <2>6, <3>1, <3>3, <3>4 DEF Asked
  <2>7. ASSUME t1_count[c] = 1, fate'[c] = "heard" PROVE Renewed(c)'
    <3>1. CASE fate[c] = "heard"
      <4>1. Held(offered_ip[c], c, elapsed[c] - T1(LeaseTime))
        BY <2>2, <2>7, <3>1 DEF Kept, Renewed
      <4>2. Held(offered_ip[c], c, elapsed[c] - T1(LeaseTime))'
        BY <1>1, <2>1, <2>2, <2>7, <4>1 DEF SparesAll, Held
      <4> QED  BY <4>2 DEF Renewed, Held
    <3>2. CASE fate[c] # "heard"
      BY <2>7, <3>2 DEF FatesGoOn
    <3> QED  BY <3>1, <3>2
  <2>8. ASSUME t1_count[c] = 1, fate'[c] = "lost", ~Overdue(c)' PROVE Unrenewed(c)'
    <3>1. ~(elapsed[c] + 3 * Delay > LeaseTime)
      BY <1>1, <2>8 DEF Overdue
    <3>2. 3 * Delay + elapsed[c] <= LeaseTime
      BY <2>1, <3>1, TimingAssumption
    <3>3. ~Overdue(c)
      BY <3>1 DEF Overdue
    <3>4. Unrenewed(c)
      <4>1. fate[c] \in {"none", "lost"}
        BY <2>8 DEF FatesGoOn
      <4> QED  BY <2>2, <2>8, <3>3, <4>1 DEF Kept, Asked
    <3> QED  BY <2>4, <3>2, <3>4
  <2>9. t1_count[c] = 1 => elapsed[c] >= T1(LeaseTime)
    BY <2>2 DEF Kept
  <2> QED  BY <1>1, <2>3, <2>5, <2>6, <2>7, <2>8, <2>9 DEF Kept
<1>6. Lone'
  BY <1>1 DEF SystemInv, CoverInv, Lone
<1> QED  BY <1>3, <1>4, <1>5, <1>6 DEF SystemInv, CoverInv

(* A step of the table that spares every address is a step of Beside's kind. *)
LEMMA TableSpares ==
    ASSUME TypeOK, \A ip \in Ip : Spares(ip)
    PROVE  SparesAll
BY HeldKept DEF SparesAll

(* A packet that is taken, and is no REQUEST, leaves the renewals. *)
LEMMA FateStays ==
    ASSUME fate' = fate
    PROVE  /\ FatesGoOn
           /\ (\A m \in toServer : m \in toServer' \/ m.type # "REQUEST") => RenewalsStay
BY DEF FatesGoOn, RenewalsStay, Renews

(* A packet that is taken, and is no RELEASE, leaves those of clients that have left. *)
LEMMA TakenEnds ==
    ASSUME SystemInv, Beside
    PROVE  \A c \in Client : handler'[c] # "ended" \/ handler'[c] = handler[c] => Ended(c)'
BY DEF Beside, SystemInv, CoverInv, Ended

(* The handler that serves a packet of a client that has not left is its own. *)
LEMMA OwnHandler ==
    ASSUME SystemInv, NEW m \in toServer, NEW g \in Client, ServedBy(m, g),
           pc[m.from] # "exited" \/ handler[m.from] = "acked"
    PROVE  g = m.from
<1>1. m.from \in Client
  BY Typed DEF SystemInv
<1> QED  BY <1>1 DEF ServedBy, SystemInv, CoverInv, Ended

LEMMA DiscoverKept ==
    ASSUME SystemInv, NEW m \in toServer,
           ServeFirst(m) \/ \E g \in Client : ServeDiscover(m, g)
    PROVE  SystemInv'
<1>1. /\ toServer' = toServer \ {m} /\ m.type = "DISCOVER" /\ Offer(m.from)
      /\ UNCHANGED <<pc, countVars, leaseVars, fits>>
  BY DEF ServeFirst, ServeDiscover, ServedBy
<1>2. m.from \in Client /\ TypeOK /\ Delay \in Nat
  BY Typed, TimingAssumption DEF SystemInv, BaseInv
<1>3. /\ BaseInv' /\ Beside /\ fate' = fate
      /\ UNCHANGED tableVars \/ \E ip \in Ip : Table!Grant(m.from, ip)
  BY DiscoverBase DEF SystemInv
<1>4. SparesAll
  BY <1>2, <1>3, TableSpares DEF Spares
<1>5. \/ handler' = handler
      \/ handler[m.from] = "none" /\ handler' = [handler EXCEPT ![m.from] = "serving"]
  BY DEF ServeFirst, ServeDiscover
<1>6. AcksStay
  BY <1>2, <1>5 DEF AcksStay, TypeOK
<1>7. \A c \in Client : Ended(c)'
  <2>1. \A c \in Client : handler'[c] = handler[c] \/ handler'[c] = "serving"
    BY <1>2, <1>5 DEF TypeOK
  <2> QED  BY <1>3, <2>1, TakenEnds
<1>8. FatesGoOn /\ RenewalsStay
  BY <1>1, <1>3, FateStays
<1>9. \A a \in toClient' : a \in toClient \/ FreshAnswer(a)'
  <2>1. ASSUME NEW ip \in Ip, Table!Grant(m.from, ip), Reply(m.from, "OFFER", ip)
        PROVE  \A a \in toClient' : a \in toClient \/ FreshAnswer(a)'
    <3>1. PICK i \in Info : toClient' = toClient \cup
            {[to |-> m.from, type |-> "OFFER", ip |-> ip, info |-> i, age |-> 0]}
      BY <2>1 DEF Reply
    <3>2. Held(ip, m.from, 0)'
      BY <1>2, <2>1 DEF Table!Grant, Held, TypeOK
    <3> QED  BY <1>2, <3>1, <3>2 DEF FreshAnswer, Held
  <2>2. ASSUME Refuse(m.from)
        PROVE  \A a \in toClient' : a \in toClient \/ FreshAnswer(a)'
    BY <1>2, <2>2 DEF Refuse, Reply, FreshAnswer
  <2> QED  BY <1>1, <2>1, <2>2 DEF Offer
<1> QED  BY <1>3, <1>4, <1>6, <1>7, <1>8, <1>9, BesideKept

LEMMA RequestKept ==
    ASSUME SystemInv, NEW m \in toServer, NEW g \in Client, ServeRequest(m, g)
    PROVE  SystemInv'
<1>1. /\ toServer' = toServer \ {m} /\ m.type = "REQUEST" /\ ServedBy(m, g)
      /\ UNCHANGED <<pc, countVars, leaseVars, fits>>
      /\ handler[g] = "serving" /\ handler' = [handler EXCEPT ![g] = "acked"]
  BY DEF ServeRequest, ServedBy
<1>2. /\ m \in Packet /\ m.from \in Client /\ m.age \in Nat /\ TypeOK /\ FreshPacket(m)
      /\ BaseInv
  BY Typed DEF SystemInv, BaseInv, CoverInv
<1>3. /\ BaseInv' /\ Beside /\ fate' = fate /\ m.ip \in Ip
      /\ UNCHANGED tableVars \/ Table!Grant(m.from, m.ip)
  BY <1>2, RequestBase
<1>4. SparesAll
  BY <1>2, <1>3, TableSpares DEF Spares
<1>5. AcksStay
  BY <1>1, <1>2 DEF AcksStay, TypeOK
<1>6. \A c \in Client : Ended(c)'
  <2>1. \A c \in Client : handler'[c] = handler[c] \/ handler'[c] = "acked"
    BY <1>1, <1>2 DEF TypeOK
  <2> QED  BY <1>3, <2>1, TakenEnds
<1>7. pc[m.from] # "bound"
  <2>1. pc[m.from] = "bound" => handler[m.from] = "acked"
    BY <1>2 DEF SystemInv, CoverInv, Kept
  <2> QED  BY <1>1, <2>1, OwnHandler
<1>8. FatesGoOn /\ RenewalsStay
  BY <1>1, <1>3, <1>7 DEF FatesGoOn, RenewalsStay, Renews
<1>9. \A a \in toClient' : a \in toClient \/ FreshAnswer(a)'
  <2>1. PICK i \in Info, type \in {"ACK", "NAK"}, ip \in {m.ip, NoIp} :
          /\ toClient' = toClient \cup
               {[to |-> m.from, type |-> type, ip |-> ip, info |-> i, age |-> 0]}
          /\ type = "ACK" => ip = m.ip
    BY DEF ServeRequest, Reply, Refuse
  <2> DEFINE new == [to |-> m.from, type |-> type, ip |-> ip, info |-> i, age |-> 0]
  <2>2. ASSUME Asks(m.from), type = "ACK"
        PROVE  Held(m.ip, m.from, 2 * Delay)' /\ handler'[m.from] = "acked"
    <3>1. Held(m.ip, m.from, Delay + m.age) /\ m.age <= Delay
      BY <1>1, <1>2, <2>2 DEF FreshPacket
    <3>2. UNCHANGED tableVars
      BY <1>2, <1>3, <3>1, SystemAssumption DEF Held, Table!Grant
    <3>3. Held(m.ip, m.from, 2 * Delay)'
      BY <1>2, <1>3, <3>1, <3>2, TimingAssumption DEF Held, tableVars, TypeOK
    <3>4. g = m.from
      BY <1>1, <2>2, OwnHandler DEF Asks
    <3> QED  BY <1>1, <1>2, <3>3, <3>4 DEF TypeOK
  <2>3. FreshAnswer(new)'
    <3>1. /\ new.to = m.from /\ new.type = type /\ new.ip = ip /\ new.age = 0
          /\ 0 <= Delay /\ 2 * Delay + 0 = 2 * Delay
      BY TimingAssumption
    <3>2. Asks(m.from)' = Asks(m.from)
      BY <1>1 DEF Asks
    <3> HIDE DEF new
    <3> QED  BY <1>2, <2>1, <2>2, <3>1, <3>2 DEF FreshAnswer
  <2> QED  BY <2>1, <2>3
<1> QED  BY <1>3, <1>4, <1>5, <1>6, <1>8, <1>9, BesideKept

LEMMA RenewalKept ==
    ASSUME SystemInv, NEW m \in toServer, NEW g \in Client, ServeRenewal(m, g)
    PROVE  SystemInv'
<1>1. /\ toServer' = toServer \ {m} /\ m.type = "REQUEST"
      /\ UNCHANGED <<pc, countVars, leaseVars, fits>>
      /\ handler' = handler /\ toClient' = toClient
  BY DEF ServeRenewal, ServedBy
<1>2. m.from \in Client /\ TypeOK
  BY Typed DEF SystemInv, BaseInv
<1>3. /\ BaseInv' /\ Beside /\ Meets(m, "heard") /\ m.ip \in Ip
      /\ IF holder[m.ip] = m.from THEN Table!Renew(m.ip) ELSE UNCHANGED tableVars
  BY RenewalBase DEF SystemInv
<1>4. SparesAll
  BY <1>2, <1>3, TableSpares DEF Spares
<1>5. \A c \in Client :
         \/ fate'[c] = fate[c] /\ (Renewal(m) /\ m.from = c => fate[c] # "none")
         \/ fate'[c] = "heard" /\ fate[c] = "none" /\ Renewal(m) /\ m.from = c
  BY <1>2, <1>3, MeetsFate
<1>6. FatesGoOn
  <2> SUFFICES ASSUME NEW c \in Client, pc[c] = "bound", fate'[c] = "heard", fate[c] = "none",
                      Renewal(m), m.from = c
               PROVE  t1_count[c] = 1 /\ Renewed(c)'
    BY <1>5 DEF FatesGoOn
  <2>1. m.ip = offered_ip[c] /\ t1_count[c] = 1
    BY DEF Renewal
  <2>2. holder[m.ip] = c
    BY <2>1, Covered DEF Overdue
  <2>3. Table!Renew(m.ip)
    BY <1>3, <2>2
  <2>4. holder'[m.ip] = c /\ now' - start'[m.ip] = 0
    BY <1>2, <1>3, <2>2, <2>3 DEF Table!Renew, TypeOK
  <2>5. elapsed[c] \in Nat /\ elapsed[c] - T1(LeaseTime) \in Nat
    BY <2>1, LeaseYoung
  <2> QED  BY <1>1, <2>1, <2>4, <2>5 DEF Renewed, Held, leaseVars
<1>7. RenewalsStay
  <2> SUFFICES ASSUME NEW c \in Client, pc[c] = "bound", t1_count[c] = 1, fate'[c] = "none",
                      Renews(m, c)
               PROVE  FALSE
    BY <1>1 DEF RenewalsStay
  <2>1. Renewal(m) /\ m.from = c
    BY DEF Renews, Renewal
  <2> QED  BY <1>5, <2>1
<1>8. AcksStay /\ \A c \in Client : Ended(c)'
  BY <1>1, <1>3, TakenEnds DEF AcksStay
<1> QED  BY <1>1, <1>3, <1>4, <1>6, <1>7, <1>8, BesideKept

LEMMA ReleaseKept ==
    ASSUME SystemInv, NEW m \in toServer, NEW g \in Client, ServeRelease(m, g)
    PROVE  SystemInv'
<1>1. /\ toServer' = toServer \ {m} /\ m.type = "RELEASE" /\ ServedBy(m, g)
      /\ UNCHANGED <<pc, countVars, leaseVars, fits>>
      /\ handler' = [handler EXCEPT ![g] = "ended"] /\ toClient' = toClient
  BY DEF ServeRelease, ServedBy
<1>2. m.from \in Client /\ TypeOK /\ FreshPacket(m) /\ pc[m.from] = "exited"
  BY <1>1, Typed DEF SystemInv, BaseInv, CoverInv, ClientInv, ReleaseLast
<1>3. /\ BaseInv' /\ Beside /\ fate' = fate /\ m.ip \in Ip
      /\ IF holder[m.ip] = Nobody THEN UNCHANGED tableVars ELSE Table!GiveBack(m.ip)
  BY ReleaseBase DEF SystemInv
<1>4. holder[m.ip] = m.from /\ g = m.from
  BY <1>1, <1>2, OwnHandler DEF FreshPacket, Held
<1>5. Table!GiveBack(m.ip)
  BY <1>2, <1>3, <1>4, SystemAssumption
<1>6. \A c \in Client : Around(c) => c # m.from
  BY <1>1, <1>2 DEF Around, SystemInv, CoverInv, Lone
<1>7. SparesAll
  <2> SUFFICES ASSUME NEW c \in Client, NEW ip \in Ip, NEW n \in Nat,
                      Around(c), n <= LeaseTime, Held(ip, c, n)
               PROVE  Held(ip, c, n)'
    BY DEF SparesAll
  <2>1. Spares(ip)
    BY <1>3, <1>4, <1>5, <1>6 DEF Spares, Held
  <2> QED  BY <1>2, <2>1, HeldKept
<1>8. AcksStay
  BY <1>1, <1>2, <1>4, <1>6 DEF AcksStay, TypeOK
<1>9. \A c \in Client : Ended(c)'
  <2>1. Ended(m.from)'
    BY <1>1, <1>2 DEF Ended, SystemInv, CoverInv, Lone
  <2>2. \A c \in Client \ {m.from} : handler'[c] = handler[c]
    BY <1>1, <1>2, <1>4 DEF TypeOK
  <2> QED  BY <1>3, <2>1, <2>2, TakenEnds
<1>10. FatesGoOn /\ RenewalsStay
  BY <1>1, <1>3, FateStays
<1> QED  BY <1>1, <1>3, <1>7, <1>8, <1>9, <1>10, BesideKept

(* The sweep, the losses, and nothing at all. *)
LEMMA SweepKept ==
    ASSUME SystemInv, Sweep
    PROVE  SystemInv'
<1>1. Table!Reclaim /\ UNCHANGED <<handler, toClient, toServer>>
  BY DEF Sweep, clientVars
<1>2. BaseInv' /\ Beside /\ fate' = fate /\ TypeOK
  BY SweepBase DEF SystemInv, BaseInv
<1>3. SparesAll
  BY <1>1, <1>2, TableSpares DEF Spares
<1>4. AcksStay /\ FatesGoOn /\ RenewalsStay
  BY <1>1, <1>2, FateStays DEF AcksStay
<1>5. \A c \in Client : Ended(c)'
  BY <1>1, <1>2, TakenEnds
<1> QED  BY <1>1, <1>2, <1>3, <1>4, <1>5, BesideKept

LEMMA LoseKept ==
    ASSUME SystemInv, NEW m \in toServer, Lose(m)
    PROVE  SystemInv'
<1>1. toServer' = toServer \ {m} /\ UNCHANGED <<handler, tableVars, toClient>>
  BY DEF Lose
<1>2. BaseInv' /\ Beside /\ Meets(m, "lost") /\ TypeOK /\ m.from \in Client
  BY Typed, LoseBase DEF SystemInv, BaseInv
<1>3. \A c \in Client :
         \/ fate'[c] = fate[c] /\ (Renewal(m) /\ m.from = c => fate[c] # "none")
         \/ fate'[c] = "lost" /\ fate[c] = "none" /\ Renewal(m) /\ m.from = c
  BY <1>2, MeetsFate
<1>4. FatesGoOn
  BY <1>3 DEF FatesGoOn, Renewal
<1>5. RenewalsStay
  <2> SUFFICES ASSUME NEW c \in Client, pc[c] = "bound", t1_count[c] = 1, fate'[c] = "none",
                      Renews(m, c)
               PROVE  FALSE
    BY <1>1 DEF RenewalsStay
  <2>1. Renewal(m) /\ m.from = c
    BY DEF Renews, Renewal
  <2> QED  BY <1>3, <2>1
<1>6. SparesAll /\ AcksStay
  BY <1>1 DEF SparesAll, Held, AcksStay, tableVars
<1>7. \A c \in Client : Ended(c)'
  BY <1>1, <1>2, TakenEnds
<1> QED  BY <1>1, <1>2, <1>4, <1>5, <1>6, <1>7, BesideKept

LEMMA RestKept ==
    ASSUME SystemInv, (\E a \in toClient : LoseAnswer(a)) \/ UNCHANGED vars
    PROVE  SystemInv'
<1>1. /\ BaseInv' /\ Beside /\ fate' = fate /\ toServer' = toServer
      /\ UNCHANGED <<handler, tableVars>> /\ toClient' \subseteq toClient
  BY RestBase DEF SystemInv
<1>2. SparesAll /\ AcksStay /\ FatesGoOn /\ RenewalsStay
  BY <1>1, FateStays DEF SparesAll, Held, AcksStay, tableVars
<1>3. \A c \in Client : Ended(c)'
  BY <1>1, TakenEnds
<1> QED  BY <1>1, <1>2, <1>3, BesideKept

-----------------------------------------------------------------------------
(* Steps of a client: the server stands still, packets of that client are added. *)
LEMMA ActedKept ==
    ASSUME SystemInv, BaseInv', NEW c \in Client, Others(c),
           UNCHANGED <<handler, tableVars, fate>>, toClient' \subseteq toClient,
           toServer \subseteq toServer',
           pc[c] # "exited", Asks(c)' => Asks(c), Kept(c)',
           \A m \in toServer' : m \in toServer \/ (m.from = c /\ FreshPacket(m)'),
           \A m1, m2 \in toServer' \ toServer : m1 = m2
    PROVE  SystemInv'
<1>1. /\ handler' = handler /\ holder' = holder /\ start' = start /\ now' = now /\ fate' = fate
      /\ BaseInv
  BY DEF tableVars, SystemInv
<1>2. \A d \in Client : Asks(d)' => Asks(d)
  BY DEF Others, Asks
<1>3. ASSUME NEW a \in toClient' PROVE FreshAnswer(a)'
  <2>1. a.to \in Client /\ FreshAnswer(a)
    BY <1>1, Typed DEF SystemInv, CoverInv
  <2> QED  BY <1>1, <1>2, <2>1 DEF FreshAnswer, Held
<1>4. ASSUME NEW m \in toServer' PROVE FreshPacket(m)'
  <2>1. CASE m \in toServer
    <3>1. m.from \in Client /\ FreshPacket(m)
      BY <1>1, <2>1, Typed DEF SystemInv, CoverInv
    <3> QED  BY <1>1, <1>2, <3>1 DEF FreshPacket, Held
  <2> QED  BY <2>1
<1>5. ASSUME NEW d \in Client \ {c} PROVE Kept(d)'
  <2>1. Kept(d)
    BY DEF SystemInv, CoverInv
  <2>2. /\ pc'[d] = pc[d] /\ offered_ip'[d] = offered_ip[d] /\ timers'[d] = timers[d]
        /\ elapsed'[d] = elapsed[d] /\ rest'[d] = rest[d] /\ t1_count'[d] = t1_count[d]
    BY DEF Others
  <2>3. /\ Unrenewed(d) => Unrenewed(d)'
        /\ Renewed(d) => Renewed(d)'
        /\ Overdue(d)' = Overdue(d)
    BY <1>1, <2>2 DEF Unrenewed, Renewed, Held, Overdue
  <2>4. Asked(d) => Asked(d)'
    BY <2>2, <2>3 DEF Asked, Renews
  <2>5. Early(d) => Early(d)'
    BY <2>2, <2>3 DEF Early
  <2>6. FromServer' = FromServer
    BY DEF FromServer
  <2> QED  BY <1>1, <2>1, <2>2, <2>3, <2>4, <2>5, <2>6 DEF Kept
<1>6. ASSUME NEW d \in Client PROVE Ended(d)'
  <2>1. Ended(d) /\ Ended(c)
    BY DEF SystemInv, CoverInv
  <2> QED  BY <1>1, <2>1 DEF Ended, Others
<1>7. Lone'
  <2>1. \A m \in toServer : m.type = "RELEASE" => m.from # c
    BY DEF SystemInv, BaseInv, ClientInv, ReleaseLast
  <2> QED  BY <2>1 DEF SystemInv, CoverInv, Lone
<1> QED  BY <1>3, <1>4, <1>5, <1>6, <1>7 DEF SystemInv, CoverInv

(* A packet of an asking client, or a REQUEST of one that has a lease, is fresh. *)
LEMMA SentFresh ==
    ASSUME NEW c \in Client, NEW type \in {"DISCOVER", "REQUEST", "DECLINE"}, NEW ip,
           Send(c, type, ip) \/ UNCHANGED toServer,
           type = "REQUEST" => (Asks(c)' => Held(ip, c, Delay)')
    PROVE  /\ toServer \subseteq toServer'
           /\ \A m \in toServer' : m \in toServer \/ (m.from = c /\ FreshPacket(m)')
           /\ \A m1, m2 \in toServer' \ toServer : m1 = m2
<1> DEFINE new == [from |-> c, type |-> type, ip |-> ip, age |-> 0]
<1>1. toServer' = toServer \cup {new} \/ toServer' = toServer
  BY DEF Send
<1>2. /\ new.from = c /\ new.type = type /\ new.ip = ip /\ new.age = 0
      /\ 0 <= Delay /\ Delay + 0 = Delay
  BY TimingAssumption
<1> HIDE DEF new
<1>3. FreshPacket(new)'
  BY <1>2 DEF FreshPacket
<1> QED  BY <1>1, <1>2, <1>3

LEMMA HearKept ==
    ASSUME SystemInv, NEW a \in toClient, Hear(a)
    PROVE  SystemInv'
<1>1. PICK c \in Client : c = a.to
  BY Typed DEF SystemInv
<1>2. PICK p : p = Heard(a)
  OBVIOUS
<1>3. /\ BaseInv /\ BaseInv' /\ Others(c) /\ pc[c] = "asking" /\ Asks(c)
      /\ UNCHANGED <<handler, tableVars, fate>> /\ toClient' \subseteq toClient
      /\ p.type = a.type /\ p.ip = a.ip
  BY <1>1, <1>2, HearBase DEF SystemInv
<1>4. /\ FreshAnswer(a) /\ a.age \in Nat /\ Delay \in Nat /\ a.age <= Delay /\ TypeOK
      /\ fate[c] = "none"
  BY <1>3, Typed, TimingAssumption DEF SystemInv, BaseInv, CoverInv, FreshAnswer, Waiting
<1>5. CASE /\ p.type = "OFFER" /\ p.ip \in Ip /\ UNCHANGED <<pc, countVars, leaseVars>>
           /\ Send(c, "REQUEST", p.ip) \/ UNCHANGED toServer
  <2>1. Held(p.ip, c, Delay)
    BY <1>1, <1>3, <1>4, <1>5 DEF FreshAnswer, Held, TypeOK
  <2>2. Held(p.ip, c, Delay)'
    BY <1>3, <2>1 DEF Held, tableVars
  <2>3. Asks(c)' /\ Kept(c)'
    BY <1>3, <1>5 DEF Asks, Kept
  <2> QED  BY <1>3, <1>5, <2>2, <2>3, SentFresh, ActedKept
<1>6. CASE /\ p.type = "ACK" /\ p.ip \in Ip /\ toServer' = toServer
           /\ pc'[c] = "bound" /\ offered_ip'[c] = p.ip /\ timers'[c] = FromServer
           /\ elapsed'[c] = 0 /\ rest'[c] = 0 /\ t1_count'[c] = 0
  <2>1. Held(p.ip, c, 2 * Delay + a.age) /\ handler[c] = "acked"
    BY <1>1, <1>3, <1>4, <1>6 DEF FreshAnswer
  <2>2. Held(p.ip, c, 3 * Delay + 0)'
    BY <1>3, <1>4, <1>6, <2>1 DEF Held, TypeOK, tableVars
  <2>3. 0 + 0 < T1(LeaseTime) + Sleep
    BY TimesNat, ClientAssumption
  <2>4. Early(c)'
    BY <1>6, <2>2, <2>3 DEF Early, Unrenewed, Held
  <2>5. Kept(c)'
    BY <1>3, <1>4, <1>6, <2>1, <2>4 DEF Kept, FromServer
  <2>6. ~Asks(c)'
    BY <1>6 DEF Asks
  <2> QED  BY <1>3, <1>6, <2>5, <2>6, ActedKept
<1>7. CASE /\ Send(c, "DISCOVER", NoIp) \/ UNCHANGED toServer
           /\ pc'[c] # "bound"
  <2>1. Kept(c)'
    BY <1>7 DEF Kept
  <2> QED  BY <1>3, <1>7, <2>1, SentFresh, ActedKept
<1> QED  BY <1>1, <1>2, <1>3, <1>5, <1>6, <1>7, HearBase

-----------------------------------------------------------------------------
(* A client wakes with a lease at hand. *)
LEMMA WakeFacts ==
    ASSUME SystemInv, NEW c \in Client, Wake(c), UNCHANGED serverVars
    PROVE  /\ pc[c] = "bound" /\ rest[c] <= 0 /\ Others(c) /\ Kept(c) /\ BaseInv'
           /\ UNCHANGED <<handler, tableVars, fate, toClient, offered_ip, timers, elapsed>>
           /\ offered_ip[c] \in Ip /\ elapsed[c] \in Nat /\ t1_count[c] \in 0..1
           /\ fate[c] \in {"none", "heard", "lost"}
           /\ t1_count[c] = 0 => elapsed[c] < T1(LeaseTime) + Sleep + MaxLate
           /\ t1_count[c] = 1 /\ Asked(c) => elapsed[c] < LeaseTime
           /\ elapsed[c] <= LeaseTime + MaxLate
           /\ timers[c].lease_time = LeaseTime /\ timers[c].renewal_time = T1(LeaseTime)
           /\ timers[c].rebind_time = T2(LeaseTime)
<1>1. /\ BaseInv' /\ Others(c) /\ pc[c] = "bound" /\ rest[c] <= 0
      /\ UNCHANGED <<handler, tableVars, fate, toClient, offered_ip, timers, elapsed>>
      /\ offered_ip[c] \in Ip /\ elapsed[c] \in Nat /\ t1_count[c] \in 0..1
  BY WakeBase DEF SystemInv
<1>2. Kept(c) /\ fate[c] \in {"none", "heard", "lost"}
  BY DEF SystemInv, BaseInv, CoverInv, TypeOK
<1>3. /\ rest[c] \in Int /\ rest[c] >= -MaxLate
      /\ elapsed[c] + rest[c] <= LeaseTime
      /\ t1_count[c] = 0 => elapsed[c] < T1(LeaseTime) + Sleep + MaxLate
      /\ t1_count[c] = 1 /\ Asked(c) => elapsed[c] < LeaseTime
  BY <1>1, LeaseYoung
<1>4. elapsed[c] <= LeaseTime + MaxLate
  BY <1>1, <1>3, ClientAssumption, TimingAssumption
<1>5. /\ timers[c].lease_time = LeaseTime /\ timers[c].renewal_time = T1(LeaseTime)
      /\ timers[c].rebind_time = T2(LeaseTime)
  BY <1>1, <1>2 DEF Kept, FromServer
<1> QED  BY <1>1, <1>2, <1>3, <1>4, <1>5

(* A client that leaves, and is not overdue, has been heard by the server, or    *)
(* else the table would have lost its lease.                                    *)
LEMMA EndsKeeps ==
    ASSUME SystemInv, NEW c \in Client, Wake(c), Ends(c), UNCHANGED serverVars, Quiet'
    PROVE  SystemInv'
<1> USE WakeFacts
<1>1. elapsed[c] >= LeaseTime /\ pc'[c] = "exited"
  BY WakeBase DEF Ends, Over, SystemInv
<1>2. t1_count[c] = 1 /\ Renewed(c) /\ handler[c] = "acked"
  <2>1. t1_count[c] # 0
    BY <1>1, TimingAssumption, TimesNat, ClientAssumption
  <2>2. t1_count[c] = 1
    BY <2>1
  <2>3. ~Asked(c)
    BY <1>1, <2>2, TimingAssumption
  <2>4. fate[c] # "lost"
    BY <1>1 DEF Quiet, Overdue
  <2> QED  BY <2>2, <2>3, <2>4 DEF Kept
<1> PICK ip \in Ip : ip = offered_ip[c]
  OBVIOUS
<1>3. Held(ip, c, elapsed[c] - T1(LeaseTime))
  BY <1>2 DEF Renewed
<1>4. now - start[ip] \in Int
  BY DEF SystemInv, BaseInv, TypeOK
<1>5. Held(ip, c, LeaseTime + MaxLate - T1(LeaseTime) + 0)
  BY <1>3, <1>4, TimesNat, TimingAssumption, ClientAssumption DEF Held
<1> DEFINE new == [from |-> c, type |-> "RELEASE", ip |-> ip, age |-> 0]
<1>6. toServer' = toServer \cup {new}
  BY DEF Ends, Send
<1>7. new.from = c /\ new.type = "RELEASE" /\ new.ip = ip /\ new.age = 0
  OBVIOUS
<1> HIDE DEF new
<1>8. FreshPacket(new)'
  <2>1. 0 <= Delay
    BY TimingAssumption
  <2> QED  BY <1>2, <1>5, <1>7, <2>1 DEF FreshPacket, Held, tableVars
<1>9. Kept(c)' /\ ~Asks(c)'
  BY <1>1 DEF Kept, Asks
<1> QED  BY <1>6, <1>7, <1>8, <1>9, ActedKept

(* The REQUEST at T1 is sent before the client may be too late with it. *)
LEMMA GoesOnKeeps ==
    ASSUME SystemInv, NEW c \in Client, Wake(c), GoesOn(c), UNCHANGED serverVars
    PROVE  SystemInv'
<1> USE WakeFacts
<1>1. /\ pc' = pc /\ rest'[c] = NextRest(c)
      /\ t1_count'[c] = IF RenewDue(c) /\ ~RebindDue(c) THEN t1_count[c] + 1 ELSE t1_count[c]
  BY DEF GoesOn, SystemInv, BaseInv, ClientInv, ClientTypeOK
<1> PICK ip \in Ip : ip = offered_ip[c]
  OBVIOUS
<1>2. Send(c, "REQUEST", ip) \/ UNCHANGED toServer
  BY DEF GoesOn, SendBroadcast
<1>3. ~Asks(c)'
  BY <1>1 DEF Asks
<1>4. timers'[c] = FromServer' /\ handler'[c] = "acked" /\ fate'[c] = fate[c]
  BY DEF Kept, FromServer
<1>5. Unrenewed(c) => Unrenewed(c)'
  BY DEF Unrenewed, Held, tableVars
<1>6. ASSUME t1_count[c] = 0, ~RenewDue(c)
      PROVE  Kept(c)'
  <2>1. t1_count'[c] = 0 /\ elapsed[c] < T1(LeaseTime) /\ fate[c] = "none" /\ Early(c)
    BY <1>1, <1>6, TimesNat DEF RenewDue, Kept
  <2>2. NextRest(c) \in Int /\ NextRest(c) <= Sleep
    BY ClientAssumption, TimingAssumption DEF NextRest, Smaller
  <2>3. elapsed[c] + NextRest(c) < T1(LeaseTime) + Sleep
    BY <2>1, <2>2, TimesNat, ClientAssumption
  <2>4. Early(c)'
    BY <1>1, <1>5, <2>1, <2>3 DEF Early
  <2> QED  BY <1>4, <2>1, <2>4 DEF Kept
<1>7. ASSUME t1_count[c] = 0, RenewDue(c)
      PROVE  Kept(c)'
  <2>1. ~RebindDue(c)
    BY <1>7, TimesNat, TimingAssumption, ClientAssumption DEF RebindDue
  <2>2. t1_count'[c] = 1 /\ elapsed[c] >= T1(LeaseTime) /\ fate[c] = "none" /\ Early(c)
    BY <1>1, <1>7, <2>1 DEF RenewDue, Kept
  <2> DEFINE new == [from |-> c, type |-> "REQUEST", ip |-> ip, age |-> 0]
  <2>3. new \in toServer'
    BY <1>7, <2>1 DEF GoesOn, Send
  <2>4. new.from = c /\ new.type = "REQUEST" /\ new.ip = ip /\ new.age = 0
    OBVIOUS
  <2> HIDE DEF new
  <2>5. elapsed'[c] < T1(LeaseTime) + Sleep + MaxLate + 0
    BY <1>7, TimesNat, ClientAssumption
  <2>6. Renews(new, c)'
    BY <2>4, <2>5 DEF Renews
  <2>7. Asked(c)'
    BY <1>5, <2>2, <2>3, <2>6 DEF Asked, Early
  <2> QED  BY <1>4, <2>2, <2>7 DEF Kept
<1>8. ASSUME t1_count[c] = 1
      PROVE  Kept(c)'
  <2>1. t1_count'[c] = 1
    BY <1>1, <1>8 DEF RenewDue
  <2>2. toServer \subseteq toServer'
    BY <1>2 DEF Send
  <2>3. Asked(c) => Asked(c)'
    BY <1>5, <2>2 DEF Asked, Renews
  <2>4. Renewed(c) => Renewed(c)'
    BY DEF Renewed, Held, tableVars
  <2>5. Overdue(c)' = Overdue(c)
    BY <1>1 DEF Overdue
  <2>6. /\ elapsed[c] >= T1(LeaseTime)
        /\ fate[c] = "none" => Asked(c)
        /\ fate[c] = "heard" => Renewed(c)
        /\ fate[c] = "lost" /\ ~Overdue(c) => Unrenewed(c)
    BY <1>8 DEF Kept
  <2> QED  BY <1>4, <1>5, <2>1, <2>3, <2>4, <2>5, <2>6 DEF Kept
<1>9. Kept(c)'
  BY <1>6, <1>7, <1>8
<1> QED  BY <1>2, <1>3, <1>9, SentFresh, ActedKept

LEMMA ActKept ==
    ASSUME SystemInv, NEW c \in Client, Act(c), Quiet'
    PROVE  SystemInv'
<1>1. CASE Start(c) \/ Fail(c) \/ TimeOut(c)
  <2>1. /\ BaseInv' /\ Others(c) /\ Asks(c) /\ pc'[c] \in {"asking", "failed"}
        /\ UNCHANGED <<handler, tableVars, fate>> /\ toClient' = toClient
        /\ Send(c, "DISCOVER", NoIp) \/ UNCHANGED toServer
    BY <1>1, AskBase DEF Act, SystemInv
  <2>2. Kept(c)' /\ pc[c] # "exited"
    BY <2>1 DEF Kept, Asks
  <2> QED  BY <2>1, <2>2, SentFresh, ActedKept
<1>2. CASE Wake(c)
  BY <1>2, EndsKeeps, GoesOnKeeps DEF Act, Wake
<1> QED  BY <1>1, <1>2 DEF Act

-----------------------------------------------------------------------------
LEMMA TickKept ==
    ASSUME SystemInv, Tick
    PROVE  SystemInv'
<1> BaseInv
  BY DEF SystemInv
<1> USE TickTimes
<1>1. BaseInv'
  BY TickBase
<1>2. ASSUME NEW a \in toClient' PROVE FreshAnswer(a)'
  <2>1. PICK o \in toClient : /\ a.to = o.to /\ a.type = o.type /\ a.ip = o.ip
                              /\ a.age = o.age + 1 /\ o.age \in Nat /\ o.age < Delay
    BY TickPackets
  <2>2. FreshAnswer(o) /\ NamedAnswer(o) /\ o.to \in Client
    BY Typed DEF SystemInv, CoverInv, BaseInv
  <2>3. /\ Delay \in Nat /\ 2 * Delay + o.age \in Int
        /\ 2 * Delay + a.age = (2 * Delay + o.age) + 1
    BY <2>1, TimingAssumption
  <2>4. a.age <= Delay
    BY <2>1, <2>3
  <2>5. Asks(a.to)' = Asks(o.to)
    BY <2>1 DEF Asks
  <2> QED  BY <2>1, <2>2, <2>3, <2>4, <2>5 DEF FreshAnswer, NamedAnswer
<1>3. ASSUME NEW m \in toServer' PROVE FreshPacket(m)'
  <2>1. PICK o \in toServer : /\ m.from = o.from /\ m.type = o.type /\ m.ip = o.ip
                              /\ m.age = o.age + 1 /\ o.age \in Nat /\ o.age < Delay
    BY TickPackets
  <2>2. FreshPacket(o) /\ NamedPacket(o) /\ o.from \in Client
    BY Typed DEF SystemInv, CoverInv, BaseInv
  <2>3. /\ Delay \in Nat /\ Delay + o.age \in Int /\ Delay + m.age = (Delay + o.age) + 1
        /\ LeaseTime + MaxLate - T1(LeaseTime) + o.age \in Int
        /\ LeaseTime + MaxLate - T1(LeaseTime) + m.age
              = (LeaseTime + MaxLate - T1(LeaseTime) + o.age) + 1
    BY <2>1, TimingAssumption, ClientAssumption, TimesNat
  <2>4. m.age <= Delay
    BY <2>1, <2>3
  <2>5. Asks(m.from)' = Asks(o.from)
    BY <2>1 DEF Asks
  <2> QED  BY <2>1, <2>2, <2>3, <2>4, <2>5 DEF FreshPacket, NamedPacket
<1>4. ASSUME NEW c \in Client, pc[c] = "bound" PROVE Kept(c)'
  <2>1. Kept(c) /\ offered_ip[c] \in Ip /\ elapsed[c] \in Nat /\ elapsed'[c] = elapsed[c] + 1
    BY <1>4, LeaseYoung DEF SystemInv, CoverInv
  <2>2. /\ 3 * Delay + elapsed[c] \in Int
        /\ 3 * Delay + elapsed'[c] = (3 * Delay + elapsed[c]) + 1
        /\ elapsed[c] - T1(LeaseTime) \in Int
        /\ elapsed'[c] - T1(LeaseTime) = (elapsed[c] - T1(LeaseTime)) + 1
    BY <1>4, <2>1, TimingAssumption, TimesNat
  <2>3. Unrenewed(c) => Unrenewed(c)'
    BY <2>1, <2>2 DEF Unrenewed, Held
  <2>4. Early(c) => Early(c)'
    <3>1. elapsed'[c] + rest'[c] = elapsed[c] + rest[c]
      BY <1>4
    <3> QED  BY <2>3, <3>1 DEF Early
  <2>5. Asked(c) => Asked(c)'
    <3> SUFFICES ASSUME Asked(c) PROVE Asked(c)'
      OBVIOUS
    <3>1. PICK o \in toServer : Renews(o, c)
      BY DEF Asked
    <3>2. PICK m \in toServer' : m = [o EXCEPT !.age = @ + 1]
      BY TickPackets
    <3>3. /\ m.from = o.from /\ m.type = o.type /\ m.ip = o.ip /\ m.age = o.age + 1
          /\ o.age \in Nat
      BY <3>2, Typed DEF Packet
    <3>4. Renews(m, c)'
      BY <1>4, <2>1, <3>1, <3>3, TimesNat, ClientAssumption DEF Renews
    <3> QED  BY <2>3, <3>4 DEF Asked
  <2>6. Renewed(c) => Renewed(c)'
    BY <2>1, <2>2 DEF Renewed, Held
  <2>7. elapsed[c] >= T1(LeaseTime) => elapsed'[c] >= T1(LeaseTime)
    BY <2>1, TimesNat
  <2>8. Overdue(c) => Overdue(c)'
    BY <1>4, <2>1, TimingAssumption DEF Overdue
  <2> QED  BY <1>4, <2>1, <2>3, <2>4, <2>5, <2>6, <2>7, <2>8 DEF Kept, FromServer
<1>5. ASSUME NEW c \in Client PROVE Kept(c)'
  BY <1>4 DEF Kept
<1>6. ASSUME NEW c \in Client PROVE Ended(c)'
  <2>1. Ended(c)
    BY DEF SystemInv, CoverInv
  <2>2. \A m \in toServer' : \E o \in toServer : m.from = o.from /\ m.type = o.type
    BY TickPackets
  <2> QED  BY <2>1, <2>2 DEF Ended
<1>7. Lone'
  <2> SUFFICES ASSUME NEW m1 \in toServer', NEW m2 \in toServer',
                      m1.type = "RELEASE", m2.type = "RELEASE", m1.from = m2.from
               PROVE  m1 = m2
    BY DEF Lone
  <2>1. PICK o1 \in toServer : /\ m1 = [o1 EXCEPT !.age = @ + 1]
                               /\ m1.from = o1.from /\ m1.type = o1.type
    BY TickPackets
  <2>2. PICK o2 \in toServer : /\ m2 = [o2 EXCEPT !.age = @ + 1]
                               /\ m2.from = o2.from /\ m2.type = o2.type
    BY TickPackets
  <2>3. o1 = o2
    BY <2>1, <2>2 DEF SystemInv, CoverInv, Lone
  <2> QED  BY <2>1, <2>2, <2>3
<1> QED  BY <1>1, <1>2, <1>3, <1>5, <1>6, <1>7 DEF SystemInv, CoverInv

-----------------------------------------------------------------------------
LEMMA SystemStart == Init => Always
<1> SUFFICES ASSUME Init PROVE BaseInv /\ CoverInv
  BY DEF Always
<1>1. ClientInv
  BY ClientStart DEF Init
<1>2. /\ pc = [c \in Client |-> "off"] /\ handler = [c \in Client |-> "none"]
      /\ fate = [c \in Client |-> "none"] /\ toServer = {} /\ toClient = {}
  BY DEF Init, ClientInit
<1>3. TypeOK
  BY <1>1, <1>2 DEF TypeOK, ClientInv, Init, Table!TableInit
<1> QED  BY <1>1, <1>2, <1>3 DEF BaseInv, Waiting, CoverInv, Kept, Ended, Lone

LEMMA CoverStep ==
    ASSUME SystemInv, [Next]_vars, Quiet'
    PROVE  SystemInv'
<1>1. ASSUME NEW c \in Client, Act(c) PROVE SystemInv'
  BY <1>1, ActKept
<1>2. ASSUME NEW m \in toServer, Serve(m) PROVE SystemInv'
  BY <1>2, DiscoverKept, RequestKept, RenewalKept, ReleaseKept DEF Serve
<1>3. ASSUME NEW m \in toServer, Lose(m) PROVE SystemInv'
  BY <1>3, LoseKept
<1>4. ASSUME NEW a \in toClient, Hear(a) PROVE SystemInv'
  BY <1>4, HearKept
<1>5. CASE Sweep \/ Tick
  BY <1>5, SweepKept, TickKept
<1>6. CASE (\E a \in toClient : LoseAnswer(a)) \/ UNCHANGED vars
  BY <1>6, RestKept
<1> QED  BY <1>1, <1>2, <1>3, <1>4, <1>5, <1>6 DEF Next

LEMMA SystemStep == Always /\ [Next]_vars => Always'
<1> SUFFICES ASSUME Always, [Next]_vars PROVE Always'
  OBVIOUS
<1>1. BaseInv /\ BaseInv'
  BY BaseStep DEF Always
<1>2. ASSUME Quiet' PROVE CoverInv'
  <2>1. SystemInv
    BY <1>1, <1>2, QuietBack DEF Always, SystemInv
  <2> QED  BY <1>2, <2>1, CoverStep DEF SystemInv
<1> QED  BY <1>1, <1>2 DEF Always

(* The leases in the table stay ahead of what clients and packets rest on, while *)
(* all is quiet.                                                                *)
THEOREM SystemAlways == Spec => []Always
BY SystemStart, SystemStep, PTL DEF Spec

(* Every variable of clients, network and server keeps its type. *)
THEOREM SystemTypes == Spec => []TypeOK
<1>1. Always => TypeOK
  BY DEF Always, BaseInv
<1> QED  BY <1>1, SystemAlways, PTL

(* The table has the address of a client down to it for as long as the client    *)
(* holds its lease, although it starts it with the OFFER and the client with the *)
(* ACK, the server answers no renewal and the network may lose it: until a       *)
(* client whose renewal was lost may have outlived its lease in the table        *)
(* (handle_dhcp_request, handle_lease_renewal, check_expired_leases).  Under     *)
(* TimingAssumption, and with no packet relayed that goes to an uninitialised    *)
(* address (SystemAssumption).                                                   *)
THEOREM CoveredAlways == Spec => []LeaseCovered
<1>1. Always => LeaseCovered
  BY Covered DEF LeaseCovered, Always, SystemInv
<1> QED  BY <1>1, SystemAlways, PTL

(* A RELEASE deletes no other client's lease, although its handler deletes by    *)
(* address: as long as no client leaves overdue, its renewal lost                *)
(* (handle_dhcp_release, release_ip_address).  Under the same assumptions.       *)
THEOREM OwnReleases == Spec => []ReleasesOwn
<1>1. Always => ReleasesOwn
  BY DEF Always, CoverInv, FreshPacket, ReleasesOwn, Held
<1> QED  BY <1>1, SystemAlways, PTL

-----------------------------------------------------------------------------
(* The system implements AddressUse: an ACK heard is Take, the end of a lease is *)
(* Leave, and every other step leaves users and past as they are.               *)

(* Nobody starts or stops using an address. *)
LEMMA UseStays ==
    ASSUME \A d \in Client :
             /\ pc[d] = "bound" \/ pc'[d] = "bound" =>
                  pc'[d] = pc[d] /\ offered_ip'[d] = offered_ip[d]
             /\ pc[d] = "exited" => pc'[d] = "exited" /\ offered_ip'[d] = offered_ip[d]
             /\ pc'[d] = "exited" /\ pc[d] # "exited" => offered_ip'[d] = NoIp
    PROVE  UNCHANGED Use!useVars
<1>1. \A ip \in Ip, d \in Client :
         (pc[d] = "bound" /\ offered_ip[d] = ip) <=> (pc'[d] = "bound" /\ offered_ip'[d] = ip)
  OBVIOUS
<1>2. Users' = Users
  BY <1>1 DEF Users
<1>3. Past' = Past
  BY DEF Past
<1> QED  BY <1>2, <1>3 DEF Use!useVars

(* While two clients cannot both be down for an address, they cannot both use it. *)
LEMMA TakeStep ==
    ASSUME SystemInv, \A d \in Client : ~Overdue(d),
           NEW c \in Client, NEW ip \in Ip, Others(c), holder[ip] = c,
           pc[c] = "asking", pc'[c] = "bound", offered_ip'[c] = ip
    PROVE  Use!Take(c, ip)
<1>1. \A d \in Client : pc[d] = "bound" => offered_ip[d] # ip
  BY Covered
<1>2. c \notin Past /\ (\A i \in Ip : c \notin Users[i]) /\ Users[ip] = {}
  BY <1>1 DEF Past, Users
<1>3. \A i \in Ip : Users'[i] = IF i = ip THEN {c} ELSE Users[i]
  BY <1>1 DEF Users, Others
<1>4. Users' = [Users EXCEPT ![ip] = {c}]
  <2>1. Users = [i \in Ip |-> Users[i]] /\ Users' = [i \in Ip |-> Users'[i]]
    BY DEF Users
  <2> HIDE DEF Users
  <2> QED  BY <1>3, <2>1
<1>5. Past' = Past
  BY DEF Past, Others
<1> QED  BY <1>2, <1>4, <1>5 DEF Use!Take

LEMMA LeaveStep ==
    ASSUME SystemInv, \A d \in Client : ~Overdue(d),
           NEW c \in Client, NEW ip \in Ip, Others(c), ip = offered_ip[c],
           pc[c] = "bound", pc'[c] = "exited", UNCHANGED offered_ip
    PROVE  Use!Leave(c, ip)
<1>1. \A d \in Client : pc[d] = "bound" /\ offered_ip[d] = ip => d = c
  BY Covered
<1>2. Users[ip] = {c}
  BY <1>1 DEF Users
<1>3. \A i \in Ip : Users'[i] = IF i = ip THEN {} ELSE Users[i]
  BY <1>1 DEF Users, Others
<1>4. Users' = [Users EXCEPT ![ip] = {}]
  <2>1. Users = [i \in Ip |-> Users[i]] /\ Users' = [i \in Ip |-> Users'[i]]
    BY DEF Users
  <2> HIDE DEF Users
  <2> QED  BY <1>3, <2>1
<1>5. Past' = Past \cup {c}
  BY ClientAssumption DEF Past, Others
<1> QED  BY <1>2, <1>4, <1>5 DEF Use!Leave

LEMMA HearUses ==
    ASSUME SystemInv, \A d \in Client : ~Overdue(d)', NEW a \in toClient, Hear(a)
    PROVE  Use!UseNext \/ UNCHANGED Use!useVars
<1>1. PICK c \in Client : c = a.to
  BY Typed DEF SystemInv
<1>2. PICK p : p = Heard(a)
  OBVIOUS
<1>3. /\ Others(c) /\ pc[c] = "asking" /\ Asks(c) /\ fate' = fate
      /\ p.type = a.type /\ p.ip = a.ip
  BY <1>1, <1>2, HearBase DEF SystemInv
<1>4. \A d \in Client : ~Overdue(d)
  <2>1. ~Overdue(c)
    BY <1>3 DEF Overdue, SystemInv, BaseInv, Waiting
  <2>2. \A d \in Client \ {c} : Overdue(d)' = Overdue(d)
    BY <1>3 DEF Overdue, Others
  <2> QED  BY <2>1, <2>2
<1>5. CASE UNCHANGED <<pc, countVars, leaseVars>>
  BY <1>5, UseStays DEF leaseVars
<1>6. CASE p.type = "ACK" /\ p.ip \in Ip /\ pc'[c] = "bound" /\ offered_ip'[c] = p.ip
  <2>1. FreshAnswer(a)
    BY DEF SystemInv, CoverInv
  <2>2. holder[p.ip] = c
    BY <1>1, <1>3, <1>6, <2>1 DEF FreshAnswer, Held
  <2> QED  BY <1>3, <1>4, <1>6, <2>2, TakeStep DEF Use!UseNext
<1>7. CASE offered_ip'[c] = NoIp /\ pc'[c] # "bound"
  BY <1>3, <1>7, UseStays DEF Others
<1> QED  BY <1>1, <1>2, <1>5, <1>6, <1>7, HearBase DEF SystemInv

LEMMA ActUses ==
    ASSUME SystemInv, \A d \in Client : ~Overdue(d)', NEW c \in Client, Act(c)
    PROVE  Use!UseNext \/ UNCHANGED Use!useVars
<1>1. UNCHANGED serverVars /\ BaseInv
  BY DEF Act, SystemInv
<1>2. CASE Start(c) \/ Fail(c) \/ TimeOut(c)
  <2>1. Others(c) /\ Asks(c) /\ pc'[c] \in {"asking", "failed"}
    BY <1>1, <1>2, AskBase
  <2> QED  BY <2>1, UseStays DEF Others, Asks
<1>3. CASE Wake(c) /\ GoesOn(c)
  BY <1>3, UseStays DEF Wake, GoesOn
<1>4. CASE Wake(c) /\ Ends(c)
  <2>1. /\ Others(c) /\ pc[c] = "bound" /\ pc'[c] = "exited" /\ fate' = fate
        /\ offered_ip' = offered_ip /\ offered_ip[c] \in Ip
    BY <1>1, <1>4, WakeBase
  <2>2. \A d \in Client : ~Overdue(d)
    <3>1. ~Overdue(c)
      BY <2>1 DEF Overdue
    <3>2. \A d \in Client \ {c} : Overdue(d)' = Overdue(d)
      BY <2>1 DEF Overdue, Others
    <3> QED  BY <3>1, <3>2
  <2>3. PICK ip \in Ip : ip = offered_ip[c]
    BY <2>1
  <2> QED  BY <2>1, <2>2, <2>3, LeaveStep DEF Use!UseNext
<1> QED  BY <1>2, <1>3, <1>4 DEF Act, Wake

LEMMA UseStep ==
    ASSUME Always, [Next]_vars
    PROVE  (\E c \in Client : Overdue(c)') \/ Use!UseNext \/ UNCHANGED Use!useVars
<1> SUFFICES ASSUME \A c \in Client : ~Overdue(c)'
             PROVE  Use!UseNext \/ UNCHANGED Use!useVars
  OBVIOUS
<1>1. SystemInv
  <2>1. Quiet'
    BY DEF Quiet
  <2> QED  BY <2>1, QuietBack DEF Always, SystemInv
<1>2. CASE pc' = pc /\ offered_ip' = offered_ip
  BY <1>2, UseStays
<1>3. CASE \E c \in Client : Act(c)
  BY <1>1, <1>3, ActUses
<1>4. CASE \E a \in toClient : Hear(a)
  BY <1>1, <1>4, HearUses
<1>5. ASSUME NEW m \in toServer, Serve(m) PROVE pc' = pc /\ offered_ip' = offered_ip
  BY <1>5 DEF Serve, ServeFirst, ServeDiscover, ServeRequest, ServeRenewal, ServeRelease, leaseVars
<1>6. CASE \/ (\E m \in toServer : Lose(m)) \/ (\E a \in toClient : LoseAnswer(a))
           \/ Sweep \/ Tick \/ UNCHANGED vars
  BY <1>2, <1>6 DEF Lose, LoseAnswer, Sweep, Tick, vars, clientVars, leaseVars
<1> QED  BY <1>2, <1>3, <1>4, <1>5, <1>6 DEF Next

(* The system implements AddressUse: until a client whose renewal was lost may   *)
(* have outlived its lease in the table, no address has two users, whatever else *)
(* is lost, in any order of offers, renewals, releases and sweeps                *)
(* (handle_dhcp_ack of the client, client_handler of the server).  Under         *)
(* TimingAssumption and SystemAssumption.                                        *)
THEOREM OneUserEach == Spec => ImplementsUse
<1>1. Init => Use!UseInit
  <2> SUFFICES ASSUME Init PROVE Use!UseInit
    OBVIOUS
  <2>1. pc = [c \in Client |-> "off"]
    BY DEF Init, ClientInit
  <2> QED  BY <2>1 DEF Use!UseInit, Users, Past
<1>2. Always /\ [Next]_vars
        => [(\E c \in Client : Overdue(c)') \/ Use!UseNext]_Use!useVars
  BY UseStep
<1> QED  BY <1>1, <1>2, SystemAlways, PTL DEF Spec, ImplementsUse
=============================================================================

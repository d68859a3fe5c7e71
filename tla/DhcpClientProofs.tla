--------------------------- MODULE DhcpClientProofs ---------------------------
(***************************************************************************)
(* What DhcpClient promises for any clients, packets, leases and lateness. *)
(***************************************************************************)
EXTENDS DhcpClient, TLAPS

(* The next look at the clock comes before T1 or T2 has been missed. *)
LooksInTime(c) ==
    /\ t1_count[c] = 0 => /\ t2_count[c] = 0
                          /\ elapsed[c] + rest[c] < timers[c].renewal_time + Sleep
    /\ t2_count[c] = 0 => elapsed[c] + rest[c] < timers[c].rebind_time + Sleep

(* LeavesForCause and AskedTwice of one client, and what they rest on. *)
Good(c) ==
    /\ pc[c] \in {"off", "asking", "bound"} => ~Refused(c)
    /\ pc[c] = "bound" => /\ offered_ip[c] \in Ip
                          /\ elapsed[c] + rest[c] <= timers[c].lease_time
                          /\ Roomy(timers[c]) => LooksInTime(c)
    /\ pc[c] = "exited" => \/ Refused(c)
                           \/ /\ offered_ip[c] # NoIp
                              /\ elapsed[c] >= timers[c].lease_time
    /\ pc[c] = "exited" /\ ~Refused(c) /\ Roomy(timers[c])
          => t1_count[c] = 1 /\ t2_count[c] = 1

ClientInv == ClientTypeOK /\ (\A c \in Client : Good(c)) /\ ReleaseLast

(* A step of client c leaves the others alone. *)
Others(c) == \A d \in Client \ {c} :
    /\ pc'[d] = pc[d] /\ nak_attempts'[d] = nak_attempts[d]
    /\ decline_attempts'[d] = decline_attempts[d] /\ offered_ip'[d] = offered_ip[d]
    /\ timers'[d] = timers[d] /\ elapsed'[d] = elapsed[d] /\ rest'[d] = rest[d]
    /\ t1_count'[d] = t1_count[d] /\ t2_count'[d] = t2_count[d]

-----------------------------------------------------------------------------
(* The times an ACK sets are natural numbers, whatever the lease and the width. *)
LEMMA TimesSet ==
    ASSUME NEW lease \in Nat
    PROVE  T1(lease) \in Nat /\ T2(lease) \in Nat
<1>1. T1(lease) \in Nat
  BY DEF T1
<1>2. (lease * 7) % UINT32 \in Nat
  BY ClientAssumption
<1>3. T2(lease) \in Nat
  <2> DEFINE r == (lease * 7) % UINT32
  <2>1. r \in Nat
    BY <1>2
  <2> HIDE DEF r
  <2>2. r \div 8 \in Nat
    BY <2>1
  <2> QED  BY <2>2 DEF T2, r
<1> QED  BY <1>1, <1>3

(* What Good says of a client stays true while nothing of that client changes. *)
LEMMA OthersKeep ==
    ASSUME NEW c \in Client, Others(c), \A d \in Client : Good(d), Good(c)'
    PROVE  \A d \in Client : Good(d)'
<1> SUFFICES ASSUME NEW d \in Client, d # c PROVE Good(d)'
  OBVIOUS
<1> QED  BY DEF Others, Good, Refused, Roomy, LooksInTime

(* A step of a client that has not left, and that sends no RELEASE, keeps ReleaseLast. *)
LEMMA ReleasesKeep ==
    ASSUME NEW c \in Client, Others(c), ReleaseLast, ClientTypeOK, pc[c] # "exited",
           \A m \in toServer' : m \in toServer \/ m.type # "RELEASE"
    PROVE  ReleaseLast'
<1> SUFFICES ASSUME NEW m \in toServer', m.type = "RELEASE"
             PROVE /\ pc'[m.from] = "exited" /\ m.ip = offered_ip'[m.from]
                   /\ elapsed'[m.from] >= timers'[m.from].lease_time
  BY DEF ReleaseLast
<1>1. m \in toServer
  OBVIOUS
<1>2. m.from \in Client /\ m.from # c
  BY <1>1 DEF ReleaseLast, ClientTypeOK, Packet
<1> QED  BY <1>1, <1>2 DEF ReleaseLast, Others

-----------------------------------------------------------------------------
(* A packet sent is a packet. *)
LEMMA Sent ==
    ASSUME NEW c \in Client, NEW type \in {"DISCOVER", "REQUEST", "DECLINE", "RELEASE"},
           NEW ip \in Ip \cup {NoIp}, toServer \in SUBSET Packet,
           Send(c, type, ip) \/ UNCHANGED toServer
    PROVE  /\ toServer' \in SUBSET Packet
           /\ \A m \in toServer' :
                m \in toServer \/ m = [from |-> c, type |-> type, ip |-> ip, age |-> 0]
BY DEF Send, Packet

(* Start, Fail and TimeOut keep the invariant. *)
LEMMA AskingKept ==
    ASSUME ClientInv, NEW c \in Client, Start(c) \/ Fail(c) \/ TimeOut(c)
    PROVE  ClientInv'
<1> USE DEF ClientInv
<1>1. Send(c, "DISCOVER", NoIp) \/ UNCHANGED toServer
  BY DEF Start, Fail, TimeOut
<1>2. toServer' \in SUBSET Packet /\ \A m \in toServer' : m \in toServer \/ m.type # "RELEASE"
  BY <1>1, Sent DEF ClientTypeOK
<1>3. ClientTypeOK' /\ Others(c) /\ pc[c] # "exited"
  BY <1>2 DEF ClientTypeOK, Start, Fail, TimeOut, Others, countVars, leaseVars
<1>4. Good(c)'
  BY DEF Good, ClientTypeOK, Start, Fail, TimeOut, countVars, leaseVars, Refused, Roomy
<1> QED  BY <1>2, <1>3, <1>4, OthersKeep, ReleasesKeep

(* A packet that comes keeps it: an OFFER or ACK names an address, a NAK need not. *)
Readable(p) ==
    /\ p \in [type : Received, ip : Ip \cup {NoIp}, lease : Lease \cup {Missing}, info : Info]
    /\ p.type \in {"OFFER", "ACK"} => p.ip \in Ip

LEMMA OfferKept ==
    ASSUME ClientInv, NEW c \in Client, NEW p, Readable(p), pc[c] = "asking",
           handle_dhcp_offer(c, p) \/ Unexpected(c, p)
    PROVE  ClientInv'
<1> USE DEF ClientInv
<1>1. p.type = "OFFER" \/ UNCHANGED clientVars
  BY DEF handle_dhcp_offer, Unexpected
<1>2. CASE UNCHANGED clientVars
  BY <1>2 DEF clientVars, leaseVars, countVars, ClientTypeOK, Good, ReleaseLast, Refused,
              Roomy, LooksInTime
<1>3. CASE p.type = "OFFER" /\ ~UNCHANGED clientVars
  <2>1. handle_dhcp_offer(c, p) /\ p.ip \in Ip
    BY <1>3 DEF Unexpected, Readable
  <2>2. \/ Send(c, "REQUEST", p.ip) \/ UNCHANGED toServer
        \/ Send(c, "DECLINE", p.ip) \/ UNCHANGED toServer
    BY <2>1 DEF handle_dhcp_offer, SendAstray
  <2>3. /\ toServer' \in SUBSET Packet
        /\ \A m \in toServer' : m \in toServer \/ m.type # "RELEASE"
    BY <2>1, <2>2, Sent DEF ClientTypeOK
  <2>4. ClientTypeOK' /\ Others(c)
    BY <2>1, <2>3 DEF ClientTypeOK, handle_dhcp_offer, Others, countVars, leaseVars
  <2>5. Good(c)'
    BY <2>1 DEF Good, ClientTypeOK, handle_dhcp_offer, countVars, leaseVars, Refused, Roomy
  <2> QED  BY <2>3, <2>4, <2>5, OthersKeep, ReleasesKeep
<1> QED  BY <1>1, <1>2, <1>3

LEMMA AckKept ==
    ASSUME ClientInv, NEW c \in Client, NEW p, Readable(p), pc[c] = "asking",
           handle_dhcp_ack(c, p)
    PROVE  ClientInv'
<1> USE DEF ClientInv
<1> DEFINE read == [lease_time |-> p.lease, renewal_time |-> T1(p.lease),
                    rebind_time |-> T2(p.lease)]
<1>1. p.ip \in Ip /\ p.info \in Info /\ (p.lease # Missing => read \in Times)
  BY TimesSet, ClientAssumption DEF handle_dhcp_ack, Readable, Times
<1>2. timers'[c] \in Times /\ timers' \in [Client -> Times]
  <2>1. timers' = [timers EXCEPT ![c] = IF p.lease = Missing THEN timers[c] ELSE read]
    BY DEF handle_dhcp_ack
  <2> HIDE DEF read
  <2> QED  BY <1>1, <2>1 DEF ClientTypeOK
<1>3. Others(c)
  BY DEF handle_dhcp_ack, Others, ClientTypeOK, countVars
<1>4. ClientTypeOK'
  BY <1>1, <1>2, ClientAssumption DEF ClientTypeOK, handle_dhcp_ack, countVars
<1>5. Good(c)'
  <2>1. /\ pc'[c] = "bound" /\ offered_ip'[c] = p.ip /\ elapsed'[c] = 0 /\ rest'[c] = 0
        /\ t1_count'[c] = 0 /\ t2_count'[c] = 0 /\ Refused(c)' = Refused(c)
    BY DEF handle_dhcp_ack, ClientTypeOK, countVars, Refused
  <2>2. /\ timers'[c].lease_time \in Nat /\ timers'[c].renewal_time \in Nat
        /\ timers'[c].rebind_time \in Nat
    BY <1>2 DEF Times
  <2>3. LooksInTime(c)'
    BY <2>1, <2>2, ClientAssumption DEF LooksInTime
  <2> QED  BY <1>1, <2>1, <2>2, <2>3 DEF Good
<1>6. \A m \in toServer' : m \in toServer \/ m.type # "RELEASE"
  BY DEF handle_dhcp_ack
<1> QED  BY <1>3, <1>4, <1>5, <1>6, OthersKeep, ReleasesKeep

(* Two refusals end a client that has had none or one. *)
LEMMA RefusalKept ==
    ASSUME ClientInv, NEW c \in Client, NEW p, Readable(p), pc[c] = "asking",
           handle_dhcp_nak(c, p) \/ HandleDecline(c, p)
    PROVE  ClientInv'
<1> USE DEF ClientInv
<1>1. Send(c, "DISCOVER", NoIp) \/ UNCHANGED toServer
  BY DEF handle_dhcp_nak, HandleDecline, SendAstray
<1>2. toServer' \in SUBSET Packet /\ \A m \in toServer' : m \in toServer \/ m.type # "RELEASE"
  BY <1>1, Sent DEF ClientTypeOK
<1>3. nak_attempts[c] \in 0..1 /\ decline_attempts[c] \in 0..1
  BY DEF Good, Refused, ClientTypeOK
<1>4. Others(c)
  BY DEF handle_dhcp_nak, HandleDecline, Others, ClientTypeOK, leaseVars
<1>5. CASE handle_dhcp_nak(c, p)
  <2>1. ClientTypeOK'
    BY <1>2, <1>3, <1>5 DEF ClientTypeOK, handle_dhcp_nak
  <2>2. Good(c)'
    BY <1>3, <1>5 DEF Good, Refused, ClientTypeOK, handle_dhcp_nak, TooMany
  <2> QED  BY <1>2, <1>4, <2>1, <2>2, OthersKeep, ReleasesKeep
<1>6. CASE HandleDecline(c, p)
  <2>1. ClientTypeOK'
    BY <1>2, <1>3, <1>6 DEF ClientTypeOK, HandleDecline, leaseVars
  <2>2. Good(c)'
    BY <1>3, <1>6 DEF Good, Refused, ClientTypeOK, HandleDecline, TooMany, leaseVars
  <2> QED  BY <1>2, <1>4, <2>1, <2>2, OthersKeep, ReleasesKeep
<1> QED  BY <1>5, <1>6

LEMMA ReceiveKept ==
    ASSUME ClientInv, NEW c \in Client, NEW p, Readable(p), Receive(c, p)
    PROVE  ClientInv'
BY OfferKept, AckKept, RefusalKept DEF Receive

-----------------------------------------------------------------------------
(* The renewal loop. *)
LEMMA EndsKept ==
    ASSUME ClientInv, NEW c \in Client, Wake(c), Ends(c)
    PROVE  ClientInv'
<1> USE DEF ClientInv
<1> DEFINE last == [from |-> c, type |-> "RELEASE", ip |-> offered_ip[c], age |-> 0]
<1>1. pc[c] = "bound" /\ ~Refused(c) /\ offered_ip[c] \in Ip /\ elapsed[c] >= timers[c].lease_time
  BY DEF Wake, Ends, Over, Good
<1>2. toServer' \in SUBSET Packet /\ \A m \in toServer' : m \in toServer \/ m = last
  <2>1. Send(c, "RELEASE", offered_ip[c])
    BY DEF Ends
  <2> QED  BY <1>1, <2>1, Sent DEF ClientTypeOK
<1>3. ClientTypeOK' /\ Others(c)
  BY <1>2 DEF ClientTypeOK, Wake, Ends, Others, countVars
<1>4. /\ pc'[c] = "exited" /\ offered_ip'[c] = offered_ip[c] /\ Refused(c)' = Refused(c)
      /\ timers'[c] = timers[c] /\ elapsed'[c] = elapsed[c]
      /\ t1_count'[c] = t1_count[c] /\ t2_count'[c] = t2_count[c]
  BY DEF Wake, Ends, ClientTypeOK, countVars, Refused
<1>5. Good(c)'
  <2>1. ASSUME Roomy(timers[c]) PROVE t1_count[c] = 1 /\ t2_count[c] = 1
    <3>1. LooksInTime(c) /\ elapsed[c] \in Nat /\ rest[c] \in Int /\ rest[c] >= -MaxLate
      BY <1>1, <2>1, ClientAssumption DEF Good, ClientTypeOK
    <3>2. /\ timers[c].lease_time \in Nat /\ timers[c].renewal_time \in Nat
          /\ timers[c].rebind_time \in Nat
      BY DEF ClientTypeOK, Times
    <3>3. t2_count[c] # 0 /\ t1_count[c] # 0
      BY <1>1, <2>1, <3>1, <3>2, ClientAssumption DEF LooksInTime, Roomy
    <3> QED  BY <3>3 DEF ClientTypeOK
  <2> QED  BY <1>1, <1>4, <2>1, ClientAssumption DEF Good, Roomy
<1>6. ReleaseLast'
  <2> SUFFICES ASSUME NEW m \in toServer', m.type = "RELEASE"
               PROVE /\ pc'[m.from] = "exited" /\ m.ip = offered_ip'[m.from]
                     /\ elapsed'[m.from] >= timers'[m.from].lease_time
    BY DEF ReleaseLast
  <2>1. CASE m = last
    BY <1>1, <1>4, <2>1
  <2>2. CASE m \in toServer
    <3>1. m.from \in Client /\ m.from # c
      BY <1>1, <2>2 DEF ReleaseLast, ClientTypeOK, Packet
    <3> QED  BY <1>3, <2>2, <3>1 DEF ReleaseLast, Others
  <2> QED  BY <1>2, <2>1, <2>2
<1> QED  BY <1>3, <1>5, <1>6, OthersKeep

LEMMA GoesOnKept ==
    ASSUME ClientInv, NEW c \in Client, Wake(c), GoesOn(c)
    PROVE  ClientInv'
<1> USE DEF ClientInv
<1>1. /\ pc[c] = "bound" /\ offered_ip[c] \in Ip /\ ~Refused(c)
      /\ elapsed[c] < timers[c].lease_time /\ rest[c] <= 0
  <2>1. elapsed[c] \in Nat /\ timers[c].lease_time \in Nat
    BY DEF ClientTypeOK, Times
  <2> QED  BY <2>1 DEF Wake, GoesOn, Over, Good
<1>2. /\ toServer' \in SUBSET Packet
      /\ \A m \in toServer' : m \in toServer \/ m.type # "RELEASE"
  <2>1. Send(c, "REQUEST", offered_ip[c]) \/ UNCHANGED toServer
    BY DEF GoesOn, SendBroadcast
  <2> QED  BY <1>1, <2>1, Sent DEF ClientTypeOK
<1>3. /\ NextRest(c) \in (-MaxLate)..Sleep /\ NextRest(c) <= Sleep
      /\ elapsed[c] + NextRest(c) <= timers[c].lease_time
  <2>1. elapsed[c] \in Nat /\ timers[c].lease_time \in Nat
    BY DEF ClientTypeOK, Times
  <2> QED  BY <1>1, <2>1, ClientAssumption DEF NextRest, Smaller
<1>4. Others(c)
  BY DEF Wake, GoesOn, Others, ClientTypeOK, countVars
<1>5. ClientTypeOK'
  <2>1. rest' \in [Client -> (-MaxLate)..Sleep]
    BY <1>3 DEF ClientTypeOK, GoesOn
  <2>2. t1_count' \in [Client -> 0..1] /\ t2_count' \in [Client -> 0..1]
    BY DEF ClientTypeOK, GoesOn, RenewDue, RebindDue
  <2> QED  BY <1>2, <2>1, <2>2 DEF ClientTypeOK, Wake, GoesOn, countVars
<1>6. /\ pc'[c] = "bound" /\ offered_ip'[c] = offered_ip[c] /\ Refused(c)' = Refused(c)
      /\ timers'[c] = timers[c] /\ elapsed'[c] = elapsed[c] /\ rest'[c] = NextRest(c)
      /\ t2_count'[c] = IF RebindDue(c) THEN t2_count[c] + 1 ELSE t2_count[c]
      /\ t1_count'[c] = IF RenewDue(c) /\ ~RebindDue(c) THEN t1_count[c] + 1 ELSE t1_count[c]
  BY <1>1 DEF Wake, GoesOn, ClientTypeOK, countVars, Refused
<1>7. ASSUME Roomy(timers[c]) PROVE LooksInTime(c)'
  <2>1. /\ LooksInTime(c) /\ elapsed[c] \in Nat /\ rest[c] \in Int /\ rest[c] >= -MaxLate
        /\ t1_count[c] \in 0..1 /\ t2_count[c] \in 0..1
    BY <1>1, <1>7, ClientAssumption DEF Good, ClientTypeOK
  <2>2. timers[c].renewal_time \in Nat /\ timers[c].rebind_time \in Nat
    BY DEF ClientTypeOK, Times
  <2>3. NextRest(c) \in Int
    BY <1>3, ClientAssumption
  <2>4. t1_count[c] = 0 => ~RebindDue(c)
    BY <1>7, <2>1, <2>2, ClientAssumption DEF LooksInTime, RebindDue, Roomy
  <2>5. /\ t1_count'[c] = 0 => /\ t2_count'[c] = 0
                               /\ elapsed[c] + NextRest(c) < timers[c].renewal_time + Sleep
        /\ t2_count'[c] = 0 => elapsed[c] + NextRest(c) < timers[c].rebind_time + Sleep
    BY <1>3, <1>6, <2>1, <2>2, <2>3, <2>4, ClientAssumption
       DEF LooksInTime, RebindDue, RenewDue
  <2> QED  BY <1>6, <2>5 DEF LooksInTime
<1>8. Good(c)'
  BY <1>1, <1>3, <1>6, <1>7 DEF Good
<1> QED  BY <1>1, <1>2, <1>4, <1>5, <1>8, OthersKeep, ReleasesKeep

LEMMA WakeKept ==
    ASSUME ClientInv, NEW c \in Client, Wake(c)
    PROVE  ClientInv'
BY EndsKept, GoesOnKept DEF Wake

LEMMA PassKept ==
    ASSUME ClientInv, NEW c \in Client, Pass(c)
    PROVE  ClientInv'
<1> USE DEF ClientInv
<1>1. /\ pc[c] = "bound" /\ elapsed[c] \in Nat /\ rest[c] \in Int /\ rest[c] > -MaxLate
      /\ rest[c] <= Sleep
  BY ClientAssumption DEF Pass, ClientTypeOK
<1>2. Others(c)
  BY DEF Pass, Others, ClientTypeOK, countVars
<1>3. elapsed' \in [Client -> Nat] /\ rest' \in [Client -> (-MaxLate)..Sleep]
  BY <1>1, ClientAssumption DEF Pass, ClientTypeOK
<1>4. ClientTypeOK'
  BY <1>3 DEF Pass, ClientTypeOK, countVars
<1>5. /\ pc'[c] = pc[c] /\ offered_ip'[c] = offered_ip[c] /\ Refused(c)' = Refused(c)
      /\ timers'[c] = timers[c] /\ elapsed'[c] + rest'[c] = elapsed[c] + rest[c]
      /\ t1_count'[c] = t1_count[c] /\ t2_count'[c] = t2_count[c]
  BY <1>1 DEF Pass, ClientTypeOK, countVars, Refused
<1>6. Good(c)'
  BY <1>1, <1>5 DEF Good, LooksInTime
<1>7. \A m \in toServer' : m \in toServer \/ m.type # "RELEASE"
  BY DEF Pass
<1> QED  BY <1>1, <1>2, <1>4, <1>6, <1>7, OthersKeep, ReleasesKeep

-----------------------------------------------------------------------------
LEMMA ClientStart == ClientInit => ClientInv
<1> SUFFICES ASSUME ClientInit PROVE ClientInv
  OBVIOUS
<1>1. ClientTypeOK
  BY ClientAssumption DEF ClientInit, ClientTypeOK
<1>2. ASSUME NEW c \in Client PROVE Good(c)
  <2>1. pc[c] = "off" /\ nak_attempts[c] = 0 /\ decline_attempts[c] = 0
    BY DEF ClientInit
  <2> QED  BY <2>1 DEF Good, Refused
<1>3. ReleaseLast
  BY DEF ClientInit, ReleaseLast
<1> QED  BY <1>1, <1>2, <1>3 DEF ClientInv

LEMMA ClientStep == ClientInv /\ [ClientNext]_clientVars => ClientInv'
<1> SUFFICES ASSUME ClientInv, [ClientNext]_clientVars PROVE ClientInv'
  OBVIOUS
<1>1. CASE UNCHANGED clientVars
  BY <1>1 DEF clientVars, leaseVars, countVars, ClientInv, ClientTypeOK, Good, ReleaseLast,
              Refused, Roomy, LooksInTime
<1>2. ASSUME NEW c \in Client, Acts(c) PROVE ClientInv'
  BY <1>2, AskingKept, WakeKept DEF Acts
<1>3. ASSUME NEW c \in Client, Pass(c) PROVE ClientInv'
  BY <1>3, PassKept
<1>4. ASSUME NEW c \in Client, NEW p \in Incoming, Receive(c, p) PROVE ClientInv'
  BY <1>4, ReceiveKept DEF Readable, Incoming
<1>5. ASSUME NEW m \in toServer, Arrive(m) PROVE ClientInv'
  BY <1>5 DEF Arrive, leaseVars, countVars, ClientInv, ClientTypeOK, Good, ReleaseLast,
              Refused, Roomy, LooksInTime
<1> QED  BY <1>1, <1>2, <1>3, <1>4, <1>5 DEF ClientNext, ClientNextFor

THEOREM ClientAlways == ClientSpec => []ClientInv
BY ClientStart, ClientStep, PTL DEF ClientSpec

(* Every variable of a client keeps its type: dhcp_client_t, the counters, the   *)
(* sleep of the renewal loop.                                                   *)
THEOREM TypeCorrect == ClientSpec => []ClientTypeOK
<1>1. ClientInv => ClientTypeOK
  BY DEF ClientInv
<1> QED  BY <1>1, ClientAlways, PTL

(* A client leaves refused or at the end of its lease, whatever comes and when   *)
(* (exit of handle_dhcp_nak, handle_dhcp_protocol and handle_lease_renewal).     *)
THEOREM Causes == ClientSpec => []LeavesForCause
<1>1. ClientInv => LeavesForCause
  BY DEF ClientInv, Good, LeavesForCause
<1> QED  BY <1>1, ClientAlways, PTL

(* A RELEASE under way is of a client that has stopped using the address         *)
(* (send_dhcp_release).                                                         *)
THEOREM LastWord == ClientSpec => []ReleaseLast
<1>1. ClientInv => ReleaseLast
  BY DEF ClientInv
<1> QED  BY <1>1, ClientAlways, PTL

(* However late it is woken, a client with a roomy lease has asked at T1 and at  *)
(* T2 when it ends (handle_lease_renewal).                                      *)
THEOREM AskedInTime == ClientSpec => []AskedTwice
<1>1. ClientInv => AskedTwice
  BY DEF ClientInv, Good, AskedTwice
<1> QED  BY <1>1, ClientAlways, PTL
=============================================================================

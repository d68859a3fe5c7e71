------------------------------ MODULE DhcpClient ------------------------------
(***************************************************************************)
(* A DHCP client: it asks for an address until it gets an ACK, then keeps  *)
(* it, deaf to the network, until the lease of that ACK is over, sends a   *)
(* RELEASE and ends.  A packet it receives is what find_dhcp_option reads  *)
(* of it: see DhcpOptions.  The network is external: any packet may come   *)
(* at any time, and what the client sends may be lost.                     *)
(***************************************************************************)
EXTENDS Integers

CONSTANTS
    Client,     \* the clients, each a process and a hardware address
    Ip,         \* the addresses
    NoIp,       \* 0.0.0.0
    Info,       \* what an ACK may say of mask, gateway and name server
    Unread,     \* no ACK read yet
    Lease,      \* what option 51 may say
    Missing,    \* the packet has no option 51
    Garbage,    \* times an uninitialised dhcp_client_t may hold
    Stray,      \* where a packet to its uninitialised server_addr may get: "lost", "relay"
    UINT32,     \* values of a uint32_t
    Sleep,      \* longest time handle_lease_renewal sleeps, in seconds
    MaxLate     \* bound: seconds the system lets it oversleep

Received == {"OFFER", "ACK", "NAK", "DECLINE", "OTHER"}
Times == [lease_time : Nat, renewal_time : Nat, rebind_time : Nat]
Incoming == [type : Received, ip : Ip, lease : Lease \cup {Missing}, info : Info]

ASSUME ClientAssumption ==
    /\ NoIp \notin Ip /\ Unread \notin Info
    /\ Lease \subseteq Nat /\ Missing \notin Lease
    /\ Garbage \subseteq Times /\ Garbage # {}
    /\ Stray \subseteq {"lost", "relay"} /\ Stray # {}
    /\ UINT32 \in Nat \ {0} /\ Sleep \in Nat \ {0} /\ MaxLate \in Nat

VARIABLES
    pc,                \* "off", "asking", "bound", "exited"; "failed" for an error of the system
    nak_attempts,      \* counts of NAKs and DECLINEs received
    decline_attempts,
    offered_ip,        \* the address of the ACK
    fits,              \* addresses that pass validate_offered_ip, whose mask nobody has set
    timers,            \* lease_time, renewal_time and rebind_time
    info,              \* mask, gateway and name server as the client shows them
    elapsed,           \* elapsed_time, since the ACK
    rest,              \* seconds until its select returns, below 0 when late
    t1_count, t2_count, \* REQUESTs sent to renew and to rebind
    toServer           \* packets of the clients under way, with their age

leaseVars == <<offered_ip, timers, info, elapsed, rest, t1_count, t2_count>>
countVars == <<nak_attempts, decline_attempts>>
clientVars == <<pc, countVars, leaseVars, fits, toServer>>

Packet == [from : Client, type : {"DISCOVER", "REQUEST", "DECLINE", "RELEASE"},
           ip : Ip \cup {NoIp}, age : Nat]

Smaller(m, n) == IF m < n THEN m ELSE n
T1(lease) == lease \div 2
T2(lease) == ((lease * 7) % UINT32) \div 8

-----------------------------------------------------------------------------
(* A send that fails is only printed: it is a packet that gets lost at once.   *)
Send(c, type, ip) ==
    toServer' = toServer \cup {[from |-> c, type |-> type, ip |-> ip, age |-> 0]}
SendBroadcast(c, type, ip) == Send(c, type, ip) \/ UNCHANGED toServer
SendAstray(c, type, ip) ==
    \/ "relay" \in Stray /\ Send(c, type, ip)
    \/ "lost" \in Stray /\ UNCHANGED toServer

(* init_dhcp_client, and the DISCOVER before the loop. *)
Start(c) ==
    /\ pc[c] = "off"
    /\ pc' = [pc EXCEPT ![c] = "asking"]
    /\ Send(c, "DISCOVER", NoIp)
    /\ UNCHANGED <<countVars, leaseVars, fits>>

(* socket, bind or select fails. *)
Fail(c) ==
    /\ pc[c] \in {"off", "asking"}
    /\ pc' = [pc EXCEPT ![c] = "failed"]
    /\ UNCHANGED <<countVars, leaseVars, fits, toServer>>

(* select times out: discovery_sent is set, so a DISCOVER is sent again. *)
TimeOut(c) ==
    /\ pc[c] = "asking"
    /\ Send(c, "DISCOVER", NoIp)
    /\ UNCHANGED <<pc, countVars, leaseVars, fits>>

handle_dhcp_offer(c, p) ==
    /\ p.type = "OFFER"
    /\ IF p.ip \in fits[c] THEN Send(c, "REQUEST", p.ip) ELSE SendAstray(c, "DECLINE", p.ip)
    /\ UNCHANGED <<pc, countVars, leaseVars, fits>>

(* Without option 51 the three times stay what they were, uninitialised. *)
handle_dhcp_ack(c, p) ==
    /\ p.type = "ACK"
    /\ pc' = [pc EXCEPT ![c] = "bound"]
    /\ offered_ip' = [offered_ip EXCEPT ![c] = p.ip]
    /\ info' = [info EXCEPT ![c] = p.info]
    /\ timers' = [timers EXCEPT ![c] =
          IF p.lease = Missing THEN @
          ELSE [lease_time |-> p.lease, renewal_time |-> T1(p.lease),
                rebind_time |-> T2(p.lease)]]
    /\ elapsed' = [elapsed EXCEPT ![c] = 0] /\ rest' = [rest EXCEPT ![c] = 0]
    /\ t1_count' = [t1_count EXCEPT ![c] = 0] /\ t2_count' = [t2_count EXCEPT ![c] = 0]
    /\ UNCHANGED <<countVars, fits, toServer>>

ThirdTime(attempts) == attempts > 2    \* mutant: one more attempt
TooMany(attempts) == attempts > 1

handle_dhcp_nak(c, p) ==
    /\ p.type = "NAK"
    /\ offered_ip' = [offered_ip EXCEPT ![c] = NoIp]
    /\ nak_attempts' = [nak_attempts EXCEPT ![c] = @ + 1]
    /\ \/ TooMany(nak_attempts'[c]) /\ pc' = [pc EXCEPT ![c] = "exited"] /\ UNCHANGED toServer
       \/ ~TooMany(nak_attempts'[c]) /\ SendAstray(c, "DISCOVER", NoIp) /\ UNCHANGED pc
    /\ UNCHANGED <<decline_attempts, timers, info, elapsed, rest, t1_count, t2_count, fits>>

(* A DECLINE that comes back. *)
HandleDecline(c, p) ==
    /\ p.type = "DECLINE"
    /\ decline_attempts' = [decline_attempts EXCEPT ![c] = @ + 1]
    /\ \/ /\ TooMany(decline_attempts'[c])
          /\ pc' = [pc EXCEPT ![c] = "exited"] /\ UNCHANGED toServer
       \/ ~TooMany(decline_attempts'[c]) /\ Send(c, "DISCOVER", NoIp) /\ UNCHANGED pc
    /\ UNCHANGED <<nak_attempts, leaseVars, fits>>

(* Another type, or none. *)
Unexpected(c, p) == p.type = "OTHER" /\ UNCHANGED clientVars

Receive(c, p) ==
    /\ pc[c] = "asking"
    /\ \/ handle_dhcp_offer(c, p) \/ handle_dhcp_ack(c, p) \/ handle_dhcp_nak(c, p)
       \/ HandleDecline(c, p) \/ Unexpected(c, p)

-----------------------------------------------------------------------------
(* handle_lease_renewal, one round of its loop: it looks at the clock, sends    *)
(* what is due, and sleeps.                                                     *)
OverAtRebind(c) ==      \* mutant: T2 ends the lease
    elapsed[c] >= timers[c].rebind_time
OverOnceRenewed(c) ==   \* mutant: the end is looked at only after a renewal
    elapsed[c] >= timers[c].lease_time /\ t1_count[c] = 1
Over(c) == elapsed[c] >= timers[c].lease_time
RebindDue(c) == elapsed[c] >= timers[c].rebind_time /\ t2_count[c] < 1
RenewAtTwice(c) ==      \* mutant: the time of T2 is compared with
    elapsed[c] >= timers[c].rebind_time /\ t1_count[c] < 1
RenewDue(c) == elapsed[c] >= timers[c].renewal_time /\ t1_count[c] < 1

Ends(c) ==
    /\ Over(c)
    /\ Send(c, "RELEASE", offered_ip[c])
    /\ pc' = [pc EXCEPT ![c] = "exited"]
    /\ UNCHANGED <<rest, t1_count, t2_count>>

FullSleep(c) == Sleep           \* mutant: the end of the lease does not shorten it
NextRest(c) == Smaller(Sleep, timers[c].lease_time - elapsed[c])
GoesOn(c) ==
    /\ ~Over(c)
    /\ \/ RebindDue(c) /\ SendBroadcast(c, "REQUEST", offered_ip[c])
       \/ ~RebindDue(c) /\ RenewDue(c) /\ Send(c, "REQUEST", offered_ip[c])
       \/ ~RebindDue(c) /\ ~RenewDue(c) /\ UNCHANGED toServer
    /\ t2_count' = [t2_count EXCEPT ![c] = IF RebindDue(c) THEN @ + 1 ELSE @]
    /\ t1_count' = [t1_count EXCEPT ![c] = IF RenewDue(c) /\ ~RebindDue(c) THEN @ + 1 ELSE @]
    /\ rest' = [rest EXCEPT ![c] = NextRest(c)]
    /\ UNCHANGED pc

Wake(c) ==
    /\ pc[c] = "bound" /\ rest[c] <= 0
    /\ Ends(c) \/ GoesOn(c)
    /\ UNCHANGED <<countVars, offered_ip, timers, info, elapsed, fits>>

Pass(c) ==
    /\ pc[c] = "bound" /\ rest[c] > -MaxLate
    /\ elapsed' = [elapsed EXCEPT ![c] = @ + 1] /\ rest' = [rest EXCEPT ![c] = @ - 1]
    /\ UNCHANGED <<pc, countVars, offered_ip, timers, info, t1_count, t2_count, fits, toServer>>

-----------------------------------------------------------------------------
ClientInit ==
    /\ pc = [c \in Client |-> "off"]
    /\ nak_attempts = [c \in Client |-> 0] /\ decline_attempts = [c \in Client |-> 0]
    /\ offered_ip = [c \in Client |-> NoIp] /\ fits \in [Client -> SUBSET Ip]
    /\ timers \in [Client -> Garbage] /\ info = [c \in Client |-> Unread]
    /\ elapsed = [c \in Client |-> 0] /\ rest = [c \in Client |-> 0]
    /\ t1_count = [c \in Client |-> 0] /\ t2_count = [c \in Client |-> 0]
    /\ toServer = {}

(* What a client does unless a packet comes; P are the packets that may come. *)
Acts(c) == Start(c) \/ Fail(c) \/ TimeOut(c) \/ Wake(c)
Arrive(m) ==
    /\ m \in toServer /\ toServer' = toServer \ {m}
    /\ UNCHANGED <<pc, countVars, leaseVars, fits>>

ClientNextFor(P) ==
    \/ \E c \in Client : Acts(c) \/ Pass(c) \/ \E p \in P : Receive(c, p)
    \/ \E m \in toServer : Arrive(m)
ClientNext == ClientNextFor(Incoming)

(* The clock goes on, and a client whose sleep is over runs. *)
ClientFairness == \A c \in Client : WF_clientVars(Wake(c)) /\ WF_clientVars(Pass(c))
ClientSpec == ClientInit /\ [][ClientNext]_clientVars /\ ClientFairness

-----------------------------------------------------------------------------
(* Every variable keeps its type (type invariant of the module). *)
ClientTypeOK ==
    /\ pc \in [Client -> {"off", "asking", "bound", "exited", "failed"}]
    /\ nak_attempts \in [Client -> 0..2] /\ decline_attempts \in [Client -> 0..2]
    /\ offered_ip \in [Client -> Ip \cup {NoIp}] /\ fits \in [Client -> SUBSET Ip]
    /\ timers \in [Client -> Times] /\ info \in [Client -> Info \cup {Unread}]
    /\ elapsed \in [Client -> Nat] /\ rest \in [Client -> (-MaxLate)..Sleep]
    /\ t1_count \in [Client -> 0..1] /\ t2_count \in [Client -> 0..1]
    /\ toServer \in SUBSET Packet

(* A client leaves for one of three reasons only: two NAKs, two DECLINEs that   *)
(* came back, or the end of its lease; and while it asks or holds a lease none  *)
(* of them holds yet, whatever packets came in which order.                     *)
Refused(c) == nak_attempts[c] = 2 \/ decline_attempts[c] = 2
LeavesForCause == \A c \in Client :
    /\ pc[c] \in {"asking", "bound"} => ~Refused(c)
    /\ pc[c] = "bound" => elapsed[c] + rest[c] <= timers[c].lease_time
    /\ pc[c] = "exited" =>
         Refused(c) \/ (offered_ip[c] # NoIp /\ elapsed[c] >= timers[c].lease_time)

(* A RELEASE is the last word of a client: it names the address of its ACK, and *)
(* its lease is over, so the client has stopped using it.                       *)
ReleaseLast == \A m \in toServer : m.type = "RELEASE" =>
    /\ pc[m.from] = "exited" /\ m.ip = offered_ip[m.from]
    /\ elapsed[m.from] >= timers[m.from].lease_time

(* When the lease is long enough for the loop to look at the clock in each of   *)
(* its parts, a client that ends with its lease has asked once at T1 and once   *)
(* at T2, in spite of looking only every Sleep seconds, or later.               *)
Roomy(t) ==
    /\ t.renewal_time + Sleep + MaxLate <= t.rebind_time
    /\ t.rebind_time + Sleep + MaxLate <= t.lease_time
AskedTwice == \A c \in Client :
    pc[c] = "exited" /\ ~Refused(c) /\ Roomy(timers[c])
        => t1_count[c] = 1 /\ t2_count[c] = 1

(* A client that holds a lease ends with a RELEASE, whatever comes or does not  *)
(* come (CHECKLIST.md:9: it releases its address when it ends).                 *)
Released(c) == pc[c] = "exited" /\ \E m \in toServer : m.from = c /\ m.type = "RELEASE"
BoundEnds == \A c \in Client : pc[c] = "bound" ~> Released(c)
=============================================================================

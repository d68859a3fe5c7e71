------------------------------ MODULE DhcpSystem ------------------------------
(***************************************************************************)
(* Clients, network and server together, on one clock: does a client that  *)
(* was told an address is its own share it with another?  The clients are  *)
(* those of DhcpClient.  The server is what its handlers do on a table     *)
(* that keeps the promise of LeaseTable.  The relay passes packets on, as  *)
(* it does while none is repeated (DhcpRelay): any packet may be lost, and *)
(* overtaken, but is under way Delay seconds at most.                      *)
(*                                                                         *)
(* Nobody repeats the REQUEST of T1, so what is promised of addresses here *)
(* is promised up to the end of a lease whose renewal was lost: fate tells *)
(* which that is.  Taken for granted are TimingAssumption, that a packet   *)
(* to an uninitialised address goes nowhere (Stray), and that the server   *)
(* finds the memory for every entry of its registry.                       *)
(***************************************************************************)
EXTENDS DhcpClient

CONSTANTS
    Nobody,       \* holder of a free address
    LeaseTime,    \* default_lease_time
    Patience,     \* seconds a client waits for a packet: 120
    Delay,        \* bound: seconds a packet is under way
    MaxTime       \* bound: seconds the clock advances

(* With the 30 seconds of dhcp_server.c and the 3 of dhcp_client.c this says    *)
(* that four packets and being late once take at most 12 seconds.               *)
ASSUME TimingAssumption ==
    /\ LeaseTime \in Nat /\ Delay \in Nat /\ Patience \in Nat /\ MaxTime \in Nat
    /\ 4 * Delay + T1(LeaseTime) + Sleep + MaxLate <= LeaseTime
    /\ Delay + MaxLate <= T1(LeaseTime)
    /\ T1(LeaseTime) + Sleep + MaxLate <= T2(LeaseTime)
ASSUME SystemAssumption ==
    /\ Nobody \notin Client
    /\ LeaseTime \in Lease /\ Stray = {"lost"}

VARIABLES
    handler,      \* handler[c]: none, "serving", "acked" (ack_sent is set) or "ended"
    holder,       \* the table, as in LeaseTable
    start,
    now,
    toClient,     \* answers under way, with their age
    fate          \* history: the first renewal of c is "heard" or "lost", or neither yet

tableVars == <<holder, start, now>>
serverVars == <<handler, tableVars, toClient, fate>>
vars == <<clientVars, serverVars>>

Table == INSTANCE LeaseTable
    WITH Mac <- Client, Nobody <- Nobody, Ip <- Ip, LeaseTime <- LeaseTime,
         holder <- holder, start <- start, now <- now

Answer == [to : Client, type : {"OFFER", "ACK", "NAK"}, ip : Ip \cup {NoIp}, info : Info,
           age : Nat]

-----------------------------------------------------------------------------
(* A renewal is a REQUEST for the lease of a client that has sent the one of T1. *)
Renewal(m) ==
    /\ m.type = "REQUEST" /\ pc[m.from] = "bound" /\ t1_count[m.from] = 1
    /\ m.ip = offered_ip[m.from]
Meets(m, end) ==
    fate' = IF Renewal(m) /\ fate[m.from] = "none" THEN [fate EXCEPT ![m.from] = end] ELSE fate

(* A packet is served by the handler of its sender, or, once that has ended, by *)
(* any running one: the registry entry then points at memory used again.        *)
Running(g) == handler[g] \in {"serving", "acked"}
ServedBy(m, g) ==
    /\ m \in toServer /\ toServer' = toServer \ {m}
    /\ Running(g) /\ (g = m.from \/ handler[m.from] = "ended")

Reply(c, type, ip) == \E i \in Info : toClient' = toClient \cup
    {[to |-> c, type |-> type, ip |-> ip, info |-> i, age |-> 0]}
Refuse(c) == Reply(c, "NAK", NoIp)

(* assign_ip_address, wherever its cursor stands. *)
Offer(c) ==
    \/ \E ip \in Ip : Table!Grant(c, ip) /\ Reply(c, "OFFER", ip)
    \/ (\A ip \in Ip : holder[ip] # Nobody) /\ Refuse(c) /\ UNCHANGED tableVars

ServeFirst(m) ==
    /\ m \in toServer /\ toServer' = toServer \ {m}
    /\ m.type = "DISCOVER" /\ handler[m.from] = "none"
    /\ handler' = [handler EXCEPT ![m.from] = "serving"]
    /\ Offer(m.from)
    /\ UNCHANGED <<fate, pc, countVars, leaseVars, fits>>

ServeDiscover(m, g) ==
    /\ m.type = "DISCOVER" /\ ServedBy(m, g)
    /\ Offer(m.from)
    /\ UNCHANGED <<handler, fate, pc, countVars, leaseVars, fits>>

ServeRequest(m, g) ==
    /\ m.type = "REQUEST" /\ ServedBy(m, g) /\ handler[g] = "serving"
    /\ handler' = [handler EXCEPT ![g] = "acked"]
    /\ \/ holder[m.ip] = m.from /\ Reply(m.from, "ACK", m.ip) /\ UNCHANGED tableVars
       \/ Table!Grant(m.from, m.ip) /\ Reply(m.from, "ACK", m.ip)
       \/ holder[m.ip] \notin {m.from, Nobody} /\ Refuse(m.from) /\ UNCHANGED tableVars
    /\ UNCHANGED <<fate, pc, countVars, leaseVars, fits>>

RenewNothing(ip) == UNCHANGED tableVars     \* mutant: lease_start is not written
RenewStart(ip) == Table!Renew(ip)
ServeRenewal(m, g) ==
    /\ m.type = "REQUEST" /\ ServedBy(m, g) /\ handler[g] = "acked"
    /\ IF holder[m.ip] = m.from THEN RenewStart(m.ip) ELSE UNCHANGED tableVars
    /\ Meets(m, "heard")
    /\ UNCHANGED <<handler, toClient, pc, countVars, leaseVars, fits>>

(* The handler ends; whoever holds the address loses it. *)
ServeRelease(m, g) ==
    /\ m.type = "RELEASE" /\ ServedBy(m, g)
    /\ handler' = [handler EXCEPT ![g] = "ended"]
    /\ IF holder[m.ip] = Nobody THEN UNCHANGED tableVars ELSE Table!GiveBack(m.ip)
    /\ UNCHANGED <<toClient, fate, pc, countVars, leaseVars, fits>>

(* The sweep, at any time and with any delay. *)
Sweep == Table!Reclaim /\ UNCHANGED <<handler, toClient, fate, clientVars>>

-----------------------------------------------------------------------------
(* The network: each packet is one datagram, which nobody acknowledges. *)
Lose(m) ==
    /\ m \in toServer /\ toServer' = toServer \ {m}
    /\ Meets(m, "lost")
    /\ UNCHANGED <<pc, countVars, leaseVars, fits, handler, tableVars, toClient>>

LoseAnswer(a) ==
    /\ a \in toClient /\ toClient' = toClient \ {a}
    /\ UNCHANGED <<clientVars, handler, tableVars, fate>>

(* An ACK brings the lease of the server: see LeaseRead in DhcpOptions. *)
Hear(a) ==
    /\ a \in toClient /\ toClient' = toClient \ {a}
    /\ Receive(a.to, [type |-> a.type, ip |-> a.ip, lease |-> LeaseTime, info |-> a.info])
    /\ UNCHANGED <<handler, tableVars, fate>>

(* select waits longer than a packet and its answer take. *)
Silent(c) ==
    /\ now >= Patience
    /\ \A m \in toServer : m.from # c
    /\ \A a \in toClient : a.to # c
Act(c) ==
    /\ Start(c) \/ Fail(c) \/ (Silent(c) /\ TimeOut(c)) \/ Wake(c)
    /\ UNCHANGED serverVars

(* A second passes, for everybody, unless a packet is due or a client must run. *)
Older(S) == {[m EXCEPT !.age = @ + 1] : m \in S}
Tick ==
    /\ now < MaxTime
    /\ \A m \in toServer \cup toClient : m.age < Delay
    /\ \A c \in Client : pc[c] = "bound" => rest[c] > -MaxLate
    /\ Table!Tick
    /\ toServer' = Older(toServer) /\ toClient' = Older(toClient)
    /\ elapsed' = [c \in Client |-> IF pc[c] = "bound" THEN elapsed[c] + 1 ELSE elapsed[c]]
    /\ rest' = [c \in Client |-> IF pc[c] = "bound" THEN rest[c] - 1 ELSE rest[c]]
    /\ UNCHANGED <<handler, fate, pc, countVars, offered_ip, timers, info, t1_count, t2_count,
                   fits>>

-----------------------------------------------------------------------------
Init ==
    /\ ClientInit /\ Table!TableInit
    /\ handler = [c \in Client |-> "none"] /\ toClient = {}
    /\ fate = [c \in Client |-> "none"]

Serve(m) ==
    \/ ServeFirst(m)
    \/ \E g \in Client : \/ ServeDiscover(m, g) \/ ServeRequest(m, g)
                         \/ ServeRenewal(m, g) \/ ServeRelease(m, g)

Next ==
    \/ \E c \in Client : Act(c)
    \/ \E m \in toServer : Serve(m) \/ Lose(m)
    \/ \E a \in toClient : Hear(a) \/ LoseAnswer(a)
    \/ Sweep \/ Tick

Spec == Init /\ [][Next]_vars

-----------------------------------------------------------------------------
(* Every variable keeps its type (type invariant of the module). *)
TypeOK ==
    /\ ClientTypeOK
    /\ handler \in [Client -> {"none", "serving", "acked", "ended"}]
    /\ holder \in [Ip -> Client \cup {Nobody}] /\ start \in [Ip -> 0..now] /\ now \in Nat
    /\ toClient \in SUBSET Answer
    /\ fate \in [Client -> {"none", "heard", "lost"}]

(* A client is overdue when its first renewal was lost and its lease, which the *)
(* server counts from the OFFER, may run out there before it does here.  While  *)
(* all is quiet no overdue client has sent its RELEASE.                         *)
Overdue(c) ==
    fate[c] = "lost" /\ (pc[c] = "bound" => elapsed[c] + 3 * Delay > LeaseTime)
Quiet == \A c \in Client : Overdue(c) => pc[c] = "bound"

(* As long as a client holds a lease by its own clock, the server's table has   *)
(* its address down to it, although the client's lease begins with the ACK and  *)
(* the server's with the OFFER: unless the client is overdue, or a client that  *)
(* was has sent a RELEASE.                                                      *)
LeaseCovered == Quiet =>
    \A c \in Client : pc[c] = "bound" /\ ~Overdue(c) => holder[offered_ip[c]] = c

(* A RELEASE under way names an address its sender still holds, so the server,  *)
(* which does not look, deletes no other client's lease by it: as long as no    *)
(* client has left overdue.                                                     *)
ReleasesOwn == Quiet => \A m \in toServer : m.type = "RELEASE" => holder[m.ip] = m.from

(* Until a client is overdue, the system implements AddressUse: an address has  *)
(* one user at a time.                                                          *)
Users == [ip \in Ip |-> {c \in Client : pc[c] = "bound" /\ offered_ip[c] = ip}]
Past == {c \in Client : pc[c] = "exited" /\ offered_ip[c] # NoIp}
Use == INSTANCE AddressUse WITH users <- Users, past <- Past
ImplementsUse ==
    Use!UseInit /\ [][(\E c \in Client : Overdue(c)') \/ Use!UseNext]_Use!useVars

-----------------------------------------------------------------------------
(* What documents say, and the code does not do. *)

(* README.md:38: no address is given twice; two clients never use one (the one  *)
(* unrepeated REQUEST of T1 and of T2).                                         *)
NoTwoUsers == \A c, d \in Client :
    pc[c] = "bound" /\ pc[d] = "bound" /\ offered_ip[c] = offered_ip[d] => c = d

(* README.md:27: the client renews its lease before it runs out, and so keeps   *)
(* its address while the renewed lease runs.                                    *)
RenewalKeepsAddress ==
    [][\A c \in Client : pc[c] = "bound" /\ pc'[c] = "exited"
          => now - start[offered_ip[c]] >= LeaseTime]_vars
=============================================================================

----------------------------- MODULE DhcpServer -----------------------------
(***************************************************************************)
(* The DHCP server: the receive loop of the main thread, one handler       *)
(* thread per client with a bounded message queue, the registry that maps  *)
(* a hardware address to its handler, and the table of leases.             *)
(*                                                                         *)
(* A call into the table is one step here: what the server does when its   *)
(* threads never meet inside the table.  What they do when they meet is    *)
(* the subject of IpAssignments.  Of the search tree this module keeps     *)
(* what a single thread can observe: the address at the root, because      *)
(* delete_ip_assignment locks the mutex once per level and so completes    *)
(* alone only at the root, and whether a sweep has freed the root, because *)
(* the main loop goes on using it.                                         *)
(***************************************************************************)
EXTENDS Integers, Sequences

CONSTANTS
    Mac,         \* clients, by hardware address (chaddr)
    Nobody,      \* holder of a free address
    StartIp,     \* first address of the configured range
    LastIp,      \* last address of the configured range
    MaxIps,      \* MAX_IPS
    LeaseTime,   \* default_lease_time
    QueueCap,    \* messages a System V queue holds before msgsnd blocks
    Block,       \* memory blocks malloc may return for a client_info_t
    Kinds,       \* kinds of packet the network delivers
    MaxClients,  \* bound: clients numbered, client_id_counter
    MaxTime      \* bound: seconds the clock advances

AllKinds == {"DISCOVER", "REQUEST", "DECLINE", "RELEASE", "OTHER"}

ASSUME RangeAssumption ==
    /\ StartIp \in Nat \ {0} /\ LastIp \in Nat /\ StartIp <= LastIp
    /\ MaxIps \in Nat \ {0}
    /\ LeaseTime \in Nat
ASSUME NobodyAssumption == Nobody \notin Mac
ASSUME KindsAssumption == Kinds \subseteq AllKinds
ASSUME BoundsAssumption ==
    /\ QueueCap \in Nat \ {0} /\ MaxClients \in Nat \ {0} /\ MaxTime \in Nat

VARIABLES
    main,               \* what the main thread does: "sweep", "recv", "send", or stopped
    pending,            \* the message main is blocked on in msgsnd, and its queue
    client_threads,     \* registry: clients whose entry is in the hash table
    client_id_counter,  \* next client number
    thread,             \* thread[h]: progress of client number h, its handler or the lack of one
    chaddr,             \* chaddr[h]: hardware address of the client of number h
    info,               \* info[h]: memory block of the client_info_t of h
    queue,              \* queue[h]: message queue of h
    ack_sent,           \* ack_sent[h]: local flag of client_handler
    req,                \* req[h]: the RELEASE or DECLINE whose deletion h executes
    holder,             \* holder[ip]: mac in the tree node of ip
    start,              \* start[ip]: lease_start in the tree node of ip
    root,               \* address in ip_assignment_root, 0 when there is none
    freed,              \* a sweep has freed the root that main still points at
    last_assigned_ip,   \* cursor of assign_ip_address
    now,                \* time(NULL)
    acks,               \* history: ACKs sent by handler h, in order
    promised            \* history: addresses offered or ACKed to a client, still leased

mainVars == <<main, pending>>
registryVars == <<client_threads, client_id_counter, chaddr, info>>
handlerVars == <<thread, ack_sent, req>>
treeVars == <<holder, start, root, freed>>
historyVars == <<acks, promised>>
vars == <<mainVars, registryVars, handlerVars, queue, treeVars, last_assigned_ip,
          now, historyVars>>

-----------------------------------------------------------------------------
(* initialize_ip_pool: the range is cut to MaxIps addresses. *)
EndIp == IF LastIp - StartIp + 1 > MaxIps THEN StartIp + MaxIps - 1 ELSE LastIp
Pool == StartIp..EndIp
PoolSize == EndIp - StartIp + 1

(* Beyond stands for every address outside the pool, 0 for no address. *)
Beyond == EndIp + 1
Ip == Pool \cup {Beyond}

(* ip: option 50 or ciaddr, which the client fills alike in a REQUEST; yiaddr *)
(* in a DECLINE; ciaddr in a RELEASE.                                         *)
Packet == {p \in [mac : Mac, type : Kinds, ip : Ip \cup {0}] :
              p.type \in {"DISCOVER", "OTHER"} => p.ip = 0}
NoPacket == [mac |-> Nobody, type |-> "OTHER", ip |-> 0]

Handler == 1..MaxClients

(* "gone": no thread and no queue.  "leaked": a queue is there and no thread,  *)
(* since pthread_create failed after msgget.                                   *)
Live(h) == thread[h] \notin {"none", "gone", "leaked"}
HasQueue(h) == Live(h) \/ thread[h] = "leaked"

(* The queue a stale or current entry leads to: the id is read through info[h] *)
(* and belongs to the number that had the block last, running or freed.        *)
LastIn(b) == {g \in Handler : thread[g] # "none" /\ info[g] = b
                 /\ \A k \in Handler : k > g /\ info[k] = b => thread[k] = "none"}
Target(h) == {g \in LastIn(info[h]) : HasQueue(g)}

-----------------------------------------------------------------------------
(* The table as one thread sees it.  With the root freed, a lookup starts at   *)
(* garbage and may miss an address that is in the tree.                        *)
Hit(ip) == ip \in Ip /\ holder[ip] # Nobody
MissExpired(ip) ==      \* mutant: a lease that has run out counts as absent
    ip \in Ip => (holder[ip] = Nobody \/ freed \/ now - start[ip] > LeaseTime)
Miss(ip) == ip \in Ip => (holder[ip] = Nobody \/ freed)
Held == {ip \in Ip : holder[ip] # Nobody}

Insert(ip, m) ==
    /\ holder' = [holder EXCEPT ![ip] = m]
    /\ start' = [start EXCEPT ![ip] = now]
    /\ root' = IF root = 0 /\ ~freed THEN ip ELSE root
    /\ UNCHANGED freed

(* The root has two subtrees exactly when addresses on both sides of it are held. *)
TwoChildren(ip, rest) == (\E i \in rest : i < ip) /\ (\E i \in rest : i > ip)
Successors(ip, rest) == {i \in rest : i > ip /\ \A j \in rest : j > ip => i <= j}

(* What may be the root once the root ip is deleted and rest is left: nothing,  *)
(* the successor of ip, or the top of the one subtree, whose shape is not kept. *)
KeepRoot(ip, rest) == {ip}      \* mutant: the value delete returns is dropped
NewRoot(ip, rest) ==
    IF rest = {} THEN {0}
    ELSE IF TwoChildren(ip, rest) THEN Successors(ip, rest) ELSE rest

-----------------------------------------------------------------------------
(* An answer is kept as what it promises; a NAK promises nothing. *)
send_dhcp_offer(m, ip) ==
    /\ promised' = [promised EXCEPT ![m] = @ \cup {ip}]
    /\ UNCHANGED acks

send_dhcp_ack(h, m, ip) ==
    /\ acks' = [acks EXCEPT ![h] = Append(@, [mac |-> m, ip |-> ip])]
    /\ promised' = [promised EXCEPT ![m] = @ \cup {ip}]

send_dhcp_nak == UNCHANGED historyVars

(* The address k places after the cursor, going round the pool. *)
Cursor == IF last_assigned_ip \in Pool THEN last_assigned_ip ELSE StartIp
NthNoWrap(k) == Cursor + k      \* mutant: potential_ip never goes back to start_ip
Nth(k) == IF Cursor + k > EndIp THEN Cursor + k - PoolSize ELSE Cursor + k
AfterNoWrap(ip) == ip + 1       \* mutant: neither does last_assigned_ip
After(ip) == IF ip + 1 > EndIp THEN StartIp ELSE ip + 1

(* assign_ip_address finds ip: the first address from the cursor on that no    *)
(* lookup finds.                                                               *)
Assignable(ip) == \E k \in 0..(PoolSize - 1) :
    ip = Nth(k) /\ Miss(ip) /\ \A j \in 0..(k - 1) : Hit(Nth(j))

NeverExhausted == FALSE         \* mutant: no bound on the attempts
Exhausted == \A ip \in Pool : Hit(ip)

(* handle_dhcp_discover with assign_ip_address: the address is in the tree     *)
(* from the OFFER on.                                                          *)
handle_dhcp_discover(m) ==
    \/ \E ip \in Ip :
         /\ Assignable(ip)
         /\ Insert(ip, m)
         /\ last_assigned_ip' = After(ip)
         /\ send_dhcp_offer(m, ip)
    \/ /\ Exhausted
       /\ send_dhcp_nak
       /\ last_assigned_ip' = Cursor
       /\ UNCHANGED treeVars

(* handle_dhcp_request: the first REQUEST a handler gets. *)
InRangeOff(ip) == StartIp <= ip /\ ip <= EndIp + 1      \* mutant: off by one
InRange(ip) == StartIp <= ip /\ ip <= EndIp

handle_dhcp_request(h, m, ip) ==
    /\ \/ /\ ~InRange(ip)                                    \* none named, or out of range
          /\ send_dhcp_nak
          /\ UNCHANGED treeVars
       \/ /\ InRange(ip) /\ holder[ip] = m                   \* its own
          /\ send_dhcp_ack(h, m, ip)
          /\ UNCHANGED treeVars
       \/ /\ InRange(ip) /\ Miss(ip)                         \* nobody's
          /\ send_dhcp_ack(h, m, ip)
          /\ Insert(ip, m)
       \/ /\ InRange(ip) /\ Hit(ip) /\ holder[ip] # m        \* another's
          /\ send_dhcp_nak
          /\ UNCHANGED treeVars
    /\ UNCHANGED last_assigned_ip

(* Every later REQUEST renews silently: no answer is sent. *)
RenewLease(m, ip) ==
    /\ \/ /\ Hit(ip) /\ holder[ip] = m
          /\ start' = [start EXCEPT ![ip] = now]
       \/ /\ Hit(ip) /\ holder[ip] = m => freed
          /\ UNCHANGED start
    /\ UNCHANGED <<holder, root, freed>>

-----------------------------------------------------------------------------
(* The main thread: handle_dhcp_protocol. *)
Up == main # "aborted"

(* check_expired_leases at the top of the loop.  The value it returns, the new *)
(* root, is dropped.                                                           *)
Expired == {ip \in Held : now - start[ip] > LeaseTime}
Reclaimed(S) ==
    /\ holder' = [ip \in Ip |-> IF ip \in S THEN Nobody ELSE holder[ip]]
    /\ promised' = [m \in Mac |-> promised[m] \ S]
    /\ start' = [ip \in Ip |-> IF ip \in S THEN 0 ELSE start[ip]]
    /\ UNCHANGED acks

Sweep ==
    /\ main = "sweep" /\ ~freed
    /\ Reclaimed(Expired)
    /\ \/ /\ root \notin Expired
          /\ main' = "recv"
          /\ UNCHANGED <<root, freed>>
       \/ /\ root \in Expired /\ TwoChildren(root, Held \ Expired)  \* second lock blocks
          /\ main' = "blocked"
          /\ root' \in NewRoot(root, Held \ Expired)
          /\ UNCHANGED freed
       \/ /\ root \in Expired /\ ~TwoChildren(root, Held \ Expired)
          /\ main' = "recv"
          /\ root' = 0 /\ freed' = TRUE
    /\ UNCHANGED <<pending, registryVars, handlerVars, queue, last_assigned_ip, now>>

(* The next sweep finds the freed root expired again and frees it twice, unless *)
(* nodes were hung on both sides of it meanwhile: then it blocks on its own     *)
(* mutex, or passes if such a deletion has revived the node.                    *)
SweepFreedRoot ==
    /\ main = "sweep" /\ freed
    /\ main' \in {"aborted", "blocked", "recv"}
    /\ UNCHANGED <<pending, registryVars, handlerVars, queue, treeVars,
                   last_assigned_ip, now, historyVars>>

(* Every find_ip_assignment begins by unlocking the mutex, whoever holds it. *)
LooksUp(h) ==
    /\ thread[h] = "loop" /\ queue[h] # <<>>
    /\ Head(queue[h]).type \in {"REQUEST", "DECLINE", "RELEASE"}

SweepRescued ==
    /\ main = "blocked"
    /\ \E h \in Handler : LooksUp(h)
    /\ main' = "recv"
    /\ UNCHANGED <<pending, registryVars, handlerVars, queue, treeVars,
                   last_assigned_ip, now, historyVars>>

(* recvfrom times out, or the packet is invalid, or it is no DISCOVER and comes *)
(* from a client without an entry, or no memory is left for a client_info_t.    *)
Ignore ==
    /\ main = "recv"
    /\ main' = "sweep"
    /\ UNCHANGED <<pending, registryVars, handlerVars, queue, treeVars,
                   last_assigned_ip, now, historyVars>>

Entry(m) == {h \in client_threads : chaddr[h] = m}

(* A packet of a client with an entry goes to the queue the entry leads to.     *)
(* When it is full, msgsnd blocks the loop; when there is none, or the id read  *)
(* from freed memory is none, msgsnd fails.                                     *)
Deliver(g, p) ==
    /\ Len(queue[g]) < QueueCap
    /\ queue' = [queue EXCEPT ![g] = Append(@, p)]
    /\ main' = "sweep"

Forward(p) ==
    /\ main = "recv"
    /\ \E h \in Entry(p.mac) :
         \/ \E g \in Target(h) : Deliver(g, p) /\ UNCHANGED pending
         \/ \E g \in Target(h) :
              /\ Len(queue[g]) >= QueueCap
              /\ main' = "send"
              /\ pending' = [to |-> g, packet |-> p]
              /\ UNCHANGED queue
         \/ /\ \A g \in Target(h) : ~Live(g)
            /\ main' = "sweep"
            /\ UNCHANGED <<queue, pending>>
    /\ UNCHANGED <<registryVars, handlerVars, treeVars, last_assigned_ip, now,
                   historyVars>>

QueueStays(g) == FALSE          \* mutant: the handler ends without msgctl(IPC_RMID)
QueueGone(g) == thread[g] = "gone"

Unblock ==
    /\ main = "send"
    /\ \/ Live(pending.to) /\ Deliver(pending.to, pending.packet)
       \/ QueueGone(pending.to) /\ main' = "sweep" /\ UNCHANGED queue
    /\ pending' = [to |-> 0, packet |-> NoPacket]
    /\ UNCHANGED <<registryVars, handlerVars, treeVars, last_assigned_ip, now,
                   historyVars>>

(* malloc returns a block that no running handler uses. *)
FreedAtStart(b) ==      \* mutant: the handler frees client_info once it has started
    \A g \in Handler : thread[g] = "start" => info[g] # b
FreeBlock(b) == \A g \in Handler : Live(g) => info[g] # b

(* A DISCOVER of a client without an entry gets a number and a block. *)
NewClient(p) ==
    /\ main = "recv" /\ p.type = "DISCOVER" /\ Entry(p.mac) = {}
    /\ client_id_counter \in Handler
    /\ \E b \in Block : FreeBlock(b) /\ info' = [info EXCEPT ![client_id_counter] = b]
    /\ client_id_counter' = client_id_counter + 1
    /\ main' = "sweep"
    /\ UNCHANGED <<pending, ack_sent, req, queue, treeVars, last_assigned_ip, now,
                   historyVars>>

(* It gets a queue and a thread, and an entry unless add_client_thread finds no *)
(* memory for one: then it returns and the thread runs without.                 *)
Spawn(p) ==
    /\ NewClient(p)
    /\ chaddr' = [chaddr EXCEPT ![client_id_counter] = p.mac]
    /\ thread' = [thread EXCEPT ![client_id_counter] = "start"]
    /\ client_threads' \in {client_threads, client_threads \cup {client_id_counter}}

(* msgget fails, or pthread_create after it.  The number is spent and the block *)
(* freed, and the queue, if there is one, is not removed.                       *)
SpawnFails(p) ==
    /\ NewClient(p)
    /\ \E end \in {"gone", "leaked"} :
          thread' = [thread EXCEPT ![client_id_counter] = end]
    /\ UNCHANGED <<client_threads, chaddr>>

-----------------------------------------------------------------------------
(* A handler thread: client_handler. *)

(* The DISCOVER that started the thread. *)
FirstDiscover(h) ==
    /\ thread[h] = "start"
    /\ handle_dhcp_discover(chaddr[h])
    /\ thread' = [thread EXCEPT ![h] = "loop"]
    /\ UNCHANGED <<mainVars, registryVars, ack_sent, req, queue, now>>

(* msgrcv takes the next message p; the handler acts on p.chaddr, not its own. *)
Take(h, kind) ==
    /\ thread[h] = "loop" /\ queue[h] # <<>>
    /\ Head(queue[h]).type = kind
    /\ queue' = [queue EXCEPT ![h] = Tail(@)]
    /\ UNCHANGED <<mainVars, registryVars, now>>

TakeDiscover(h) ==
    /\ Take(h, "DISCOVER")
    /\ handle_dhcp_discover(Head(queue[h]).mac)
    /\ UNCHANGED handlerVars

AnyRequest(h) == TRUE           \* mutant: ack_sent is not looked at
FirstRequest(h) == ~ack_sent[h]

TakeRequest(h) ==
    /\ Take(h, "REQUEST")
    /\ LET p == Head(queue[h])
       IN \/ /\ ~FirstRequest(h)
             /\ RenewLease(p.mac, p.ip)
             /\ UNCHANGED <<ack_sent, last_assigned_ip, historyVars>>
          \/ /\ FirstRequest(h)
             /\ handle_dhcp_request(h, p.mac, p.ip)
             /\ ack_sent' = [ack_sent EXCEPT ![h] = TRUE]
    /\ UNCHANGED <<thread, req>>

(* handle_dhcp_release and handle_dhcp_decline: look the address up and delete *)
(* it, whoever holds it.                                                       *)
TakeEnd(h) ==
    /\ Take(h, "RELEASE") \/ Take(h, "DECLINE")
    /\ LET p == Head(queue[h])
       IN \/ /\ Hit(p.ip)
             /\ thread' = [thread EXCEPT ![h] = "delete"]
             /\ req' = [req EXCEPT ![h] = p]
          \/ /\ Miss(p.ip)
             /\ thread' = [thread EXCEPT ![h] = "done"]
             /\ UNCHANGED req
    /\ UNCHANGED <<ack_sent, treeVars, last_assigned_ip, historyVars>>

(* delete_ip_assignment ends alone when the tree is empty, or the node is the  *)
(* root and has at most one child.  Otherwise it waits for its own lock until  *)
(* another handler's lookup unlocks the mutex.                                 *)
EndsAlone(ip) == ~freed /\ (root # 0 => ip = root /\ ~TwoChildren(ip, Held))
OthersUnlock(h) == \E g \in Handler \ {h} : LooksUp(g)

Delete(h) ==
    LET ip == req[h].ip
    IN /\ thread[h] = "delete"
       /\ EndsAlone(ip) \/ OthersUnlock(h)
       /\ holder' = [holder EXCEPT ![ip] = Nobody]
       /\ start' = [start EXCEPT ![ip] = 0]
       /\ root' \in IF ip = root THEN NewRoot(ip, Held \ {ip}) ELSE {root}
       /\ promised' = [m \in Mac |-> promised[m] \ {ip}]
       /\ thread' = [thread EXCEPT ![h] = "done"]
       /\ req' = [req EXCEPT ![h] = NoPacket]
       /\ UNCHANGED <<mainVars, registryVars, ack_sent, queue, freed,
                      last_assigned_ip, now, acks>>

TakeOther(h) ==
    /\ Take(h, "OTHER")
    /\ UNCHANGED <<handlerVars, treeVars, last_assigned_ip, historyVars>>

(* msgctl(IPC_RMID), free, pthread_exit.  The registry entry stays. *)
Close(h) ==
    /\ thread[h] = "done"
    /\ thread' = [thread EXCEPT ![h] = "gone"]
    /\ queue' = [queue EXCEPT ![h] = <<>>]
    /\ ack_sent' = [ack_sent EXCEPT ![h] = FALSE]
    /\ UNCHANGED <<mainVars, registryVars, req, treeVars, last_assigned_ip,
                   now, historyVars>>

Tick ==
    /\ now < MaxTime
    /\ now' = now + 1
    /\ UNCHANGED <<mainVars, registryVars, handlerVars, queue, treeVars,
                   last_assigned_ip, historyVars>>

-----------------------------------------------------------------------------
Init ==
    /\ main = "sweep" /\ pending = [to |-> 0, packet |-> NoPacket]
    /\ client_threads = {} /\ client_id_counter = 1
    /\ thread = [h \in Handler |-> "none"]
    /\ chaddr = [h \in Handler |-> Nobody]
    /\ info \in {[h \in Handler |-> b] : b \in Block}
    /\ queue = [h \in Handler |-> <<>>]
    /\ ack_sent = [h \in Handler |-> FALSE]
    /\ req = [h \in Handler |-> NoPacket]
    /\ holder = [ip \in Ip |-> Nobody] /\ start = [ip \in Ip |-> 0]
    /\ root = 0 /\ freed = FALSE
    /\ last_assigned_ip = 0 /\ now = 0
    /\ acks = [h \in Handler |-> <<>>]
    /\ promised = [m \in Mac |-> {}]

MainStep == Sweep \/ SweepFreedRoot \/ SweepRescued \/ Ignore \/ Unblock
Receive(p) == Forward(p) \/ Spawn(p) \/ SpawnFails(p)
HandlerStep(h) ==
    FirstDiscover(h) \/ TakeDiscover(h) \/ TakeRequest(h) \/ TakeEnd(h)
        \/ TakeOther(h) \/ Close(h)

(* Up to an abort of the process; P are the packets the network may deliver. *)
NextFor(P) ==
    /\ Up
    /\ \/ MainStep
       \/ \E p \in P : Receive(p)
       \/ \E h \in Handler : HandlerStep(h) \/ Delete(h)
       \/ Tick

Next == NextFor(Packet)
Spec == Init /\ [][Next]_vars

(* Clients as dhcp_client.c makes them: a REQUEST or DECLINE names an address  *)
(* offered to the sender, a RELEASE one it got an ACK for.                     *)
Behaves(p) ==
    CASE p.type = "REQUEST" -> p.ip \in promised[p.mac]
      [] p.type = "DECLINE" -> p.ip \in promised[p.mac]
      [] p.type = "RELEASE" -> \E h \in Handler : \E i \in DOMAIN acks[h] :
                            acks[h][i] = [mac |-> p.mac, ip |-> p.ip]
      [] OTHER -> p.type = "DISCOVER"
ClientNext == NextFor({p \in Packet : Behaves(p)})
ClientSpec == Init /\ [][ClientNext]_vars

(* The scheduler runs every thread; recvfrom returns after SO_RCVTIMEO even     *)
(* when no packet comes.  A deletion that waits on its own lock is owed         *)
(* nothing: whether another thread's unlock lets it on is a matter of luck.     *)
Fairness ==
    /\ WF_vars(Up /\ MainStep)
    /\ \A h \in Handler : WF_vars(Up /\ HandlerStep(h))
    /\ \A h \in Handler : WF_vars(Up /\ EndsAlone(req[h].ip) /\ Delete(h))
FairSpec == ClientSpec /\ Fairness

-----------------------------------------------------------------------------
(* Every variable keeps its type (type invariant of the module). *)
TypeOK ==
    /\ main \in {"sweep", "recv", "send", "blocked", "aborted"}
    /\ pending \in [to : Handler \cup {0}, packet : Packet \cup {NoPacket}]
    /\ client_threads \subseteq Handler
    /\ client_id_counter \in 1..(MaxClients + 1)
    /\ thread \in [Handler -> {"none", "start", "loop", "delete", "done", "gone",
                              "leaked"}]
    /\ chaddr \in [Handler -> Mac \cup {Nobody}]
    /\ info \in [Handler -> Block]
    /\ queue \in [Handler -> Seq(Packet)]
    /\ ack_sent \in [Handler -> BOOLEAN]
    /\ req \in [Handler -> Packet \cup {NoPacket}]
    /\ holder \in [Ip -> Mac \cup {Nobody}]
    /\ start \in [Ip -> Nat]
    /\ root \in Ip \cup {0}
    /\ freed \in BOOLEAN
    /\ last_assigned_ip \in Pool \cup {0}
    /\ now \in Nat
    /\ acks \in [Handler -> Seq([mac : Mac, ip : Ip])]
    /\ promised \in [Mac -> SUBSET Ip]

(* As long as a handler runs, its registry entry leads to its own queue,        *)
(* although entries of dead handlers keep pointers to freed blocks that malloc  *)
(* hands out again (the msgsnd of handle_dhcp_protocol).                        *)
RoutedHome == \A h \in client_threads : Live(h) => Target(h) = {h}

(* A packet comes to the queue of a number that is not its sender's, or blocks  *)
(* the loop on it, in one way only: the sender's own handler has ended, and its *)
(* block of memory was given to that number (the entries that are never removed *)
(* and the free at the end of client_handler).                                  *)
EndedInBlock(m, h) == \E g \in Entry(m) : thread[g] = "gone" /\ info[g] = info[h]
StrayedByReuse ==
    /\ \A h \in Handler : \A i \in DOMAIN queue[h] :
          queue[h][i].mac = chaddr[h] \/ EndedInBlock(queue[h][i].mac, h)
    /\ main = "send" =>
          \/ pending.packet.mac = chaddr[pending.to]
          \/ EndedInBlock(pending.packet.mac, pending.to)

(* A handler sends at most one ACK in its life: after its first REQUEST it      *)
(* only renews (ack_sent in client_handler).                                    *)
AckAtMostOnce == \A h \in Handler : Len(acks[h]) <= 1

(* Until a sweep frees the root: an address offered or ACKed to a client is     *)
(* held by that client until the address is given back or its lease is swept,   *)
(* whoever else asks for it meanwhile (handle_dhcp_request, assign_ip_address). *)
PromiseKept == ~freed =>
    \A m \in Mac : \A ip \in promised[m] : holder[ip] = m

(* No address outside the configured range is ever leased, whichever address a  *)
(* client asks for and wherever the search starts (the range check of           *)
(* handle_dhcp_request, the wraps of assign_ip_address).                        *)
HeldInPool == Held \subseteq Pool

(* The search for a free address always ends: one outcome is there, and until a *)
(* sweep frees the root only one.  Wherever the cursor is, it goes round the    *)
(* whole pool, so an address is found unless all are held, and then there is    *)
(* none to be found (the attempts and the wraps of assign_ip_address).          *)
SearchDecides ==
    /\ Exhausted \/ \E ip \in Pool : Assignable(ip)
    /\ ~freed => \A i, j \in Ip : Assignable(i) => ~Exhausted /\ (Assignable(j) => i = j)

(* Until a sweep frees it, the root is there exactly when some address is held, *)
(* and is itself held: deletions never leave the pointer on a dead address      *)
(* (insert_ip_assignment, delete_ip_assignment, check_expired_leases).          *)
RootIsHeld == ~freed => IF Held = {} THEN root = 0 ELSE root \in Held

Table == INSTANCE LeaseTable
    WITH Mac <- Mac, Nobody <- Nobody, Ip <- Ip, LeaseTime <- LeaseTime,
         holder <- holder, start <- start, now <- now

(* Until a sweep frees the root, every step of the server is a step of          *)
(* LeaseTable or leaves the table alone.                                        *)
ImplementsTable == Table!TableInit /\ [][freed' \/ Table!TableNext]_Table!tableVars

(* A handler waits for its own lock in a RELEASE or DECLINE. *)
SelfBlocked == \E h \in Handler : thread[h] = "delete" /\ ~EndsAlone(req[h].ip)

(* main is blocked on a queue whose thread was never created. *)
Abandoned == thread[pending.to] = "leaked"

(* msgsnd keeps the receive loop for ever only if a handler has locked itself   *)
(* out, or the queue is one that a failed pthread_create left behind: any other *)
(* handler whose queue is full takes a message, or ends and removes the queue.  *)
MainResumes == main = "send" ~> (main # "send" \/ SelfBlocked \/ Abandoned)

(* A client's first DISCOVER is answered, by an OFFER or a NAK, unless a handler *)
(* has locked itself out.                                                       *)
FirstAnswered ==
    \A h \in Handler : thread[h] = "start" ~> (thread[h] = "loop" \/ SelfBlocked)

-----------------------------------------------------------------------------
(* What comments and documents say, and the code does not do. *)

(* dhcp_server.c:294: a RELEASE closes the connection; the handler that takes   *)
(* one ends (the second lock of delete_ip_assignment).                          *)
ReleaseEnds ==
    \A h \in Handler : (thread[h] = "delete" /\ req[h].type = "RELEASE") ~> thread[h] = "gone"

(* README.md:41: clients release their addresses, those they hold. *)
ReleasedByHolder ==
    [][\A h \in Handler :
          ~freed /\ thread[h] = "delete" /\ req[h].type = "RELEASE" /\ thread'[h] = "done"
             => holder[req[h].ip] \in {req[h].mac, Nobody}]_vars

(* README.md:38: addresses are used again after their leases expire; the process *)
(* does not abort.                                                               *)
NeverAborted == main # "aborted"
=============================================================================

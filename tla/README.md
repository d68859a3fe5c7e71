# A verification project for AetherNet-DHCP

TLA+ models of the DHCP client, the relay, the server and its address table, the
TLC configurations that check them on small instances, and proofs for every size
that TLAPS checks. Paths are relative to the repository (`src/server/...`).

## 1. Inventory

| Component | State | Operations | Modelled by |
|---|---|---|---|
| Receive loop and registry (`src/server/dhcp_server.c:117-222, 990-1062`) | socket, `client_threads[256]` (chains of entries), `client_id_counter` | sweep, receive, dispatch to a queue, create a handler | `DhcpServer` |
| Client handlers (`dhcp_server.c:227-315, 342-467`) | one thread per hardware address: a System V queue, `client_info_t`, the local `ack_sent` | DISCOVER, first REQUEST, later REQUESTs, DECLINE, RELEASE, end | `DhcpServer` |
| Address table (`dhcp_server.c:577-800`) | binary search tree `ip_assignment_root`, `last_assigned_ip`, `ip_assignment_mutex` | assign, insert, find, delete, sweep of expired leases | `LeaseTable`, `DhcpServer`, `IpAssignments`, `CallsInTurn` |
| Packets and options (`dhcp_server.c:800-873, 910-936`, `src/client/dhcp_client.c`) | none | option layout of every packet, byte order, `find_dhcp_option` | `DhcpOptions`, `DhcpPackets` |
| Relay (`src/relay/dhcp_relay.c`) | `hash_table[256]`: chains of transactions | forward a request, forward a reply | `DhcpRelay`, `Exchange` |
| Client (`src/client/dhcp_client.c`) | socket, the accepted address, three times of the lease, counters of NAKs and DECLINEs | DISCOVER, REQUEST, DECLINE, renewal loop, RELEASE | `DhcpClient` |
| All of them together | the above | | `DhcpSystem` |
| Shutdown (`dhcp_server.c:876-908, 983-987`) | tree, mutex, socket | `handle_signal`, `cleanup` | not modelled |
| Start-up, builds, scripts | none of the protocol | sockets, environment | not modelled |

Interactions. A client sends datagrams to the relay; the relay sends them on to
the server and remembers, by transaction number (`xid`), to whom the answer
goes. The server's main thread finds or creates the handler of the packet's
hardware address and puts the packet in the handler's queue with a blocking
`msgsnd`. Handlers and main thread share the tree, its mutex, the cursor and
the memory allocator; handlers answer on the socket themselves.

Hard behaviours, each an entry of `hazards` in PROJECT.json:

* **Locking that is not locking.** `find_ip_assignment` unlocks the mutex before
  it locks it (758-759), so it ends its caller's critical section or another
  thread's. Insertions are not locked at all. `delete_ip_assignment` and
  `check_expired_leases` lock a default mutex again in each recursive call.
* **Pointers that outlive what they point at.** The registry keeps entries of
  ended threads, and a thread that could not be created leaves its queue; the main loop drops the root a sweep returns; a renewal writes
  through a node that may be freed by then.
* **One blocking receive loop** that a single full queue stops.
* **Two clocks for one lease.** The server starts it with the OFFER, the client
  with the ACK; the server extends it when it is renewed, the client never does.
  Between two looks at the clock the client sleeps.
* **A deaf client.** A client that holds a lease reads nothing any more, and asks to
  renew it once, in a datagram nobody acknowledges.
* **A structure nobody initialises.** The client's mask, network, server address
  and the times of its lease are whatever the stack held.
* **A relay that guesses**: an unknown number is a request, a known one a reply.

What makes each part correct: a client's packets reach its handler, and stray only
where memory was used again (registry); an address promised to one client at a time, held until given back
or run out, and never one outside the range (table); a tree in search order, a
cursor that comes back and a mutex that is always somebody's (table under
threads); answers that reach who asked (relay); a client that leaves for a
reason, renews in time and gives its address back (client); options that read
back as they were put (packets); one user per address (the whole); an end to
every wait (loop, handlers, client).

## 2. Plan

In order, the most important behaviour first. All but the last is done.

1. `LeaseTable`: the abstract promise of the table.
2. `DhcpServer`: loop, registry, handlers, table calls as steps; implements
   `LeaseTable`. `DhcpServerProofs`.
3. `IpAssignments`: the table under threads. `IpAssignmentsProofs` for types,
   mutex and cursor, `SearchOrderProofs` for the shape of the tree. `CallsInTurn`: the
   same tree as long as no two calls meet; implements `LeaseTable`. `CallsInTurnProofs`.
4. `DhcpRelay`; implements `Exchange`, what client and server take the network between
   them for, for each transaction number. `DhcpRelayProofs`.
5. `DhcpClient`, `DhcpClientProofs`.
6. `DhcpOptions`: layout and search, byte by byte. `DhcpPackets`: the packets of
   `DhcpClient` laid out so. `DhcpPacketsProofs`.
7. `AddressUse`: the abstract promise to clients. `DhcpSystem`: clients, network
   and server composed; implements `AddressUse`. `DhcpSystemProofs`.
8. Left: a relay that misjudges inside the composition (it would lift the
   assumption that nothing is repeated), and the shutdown, if its behaviour is
   ever made independent of the C library's (section 6).

## 3. Modules and how they correspond to the code

### LeaseTable
`holder`, `start`, `now`; a free address is granted, a held one renewed, given
back, or reclaimed once its age exceeds the lease time. No tree, no threads.

### DhcpServer
One action per step of a thread between two points where others can interfere.

* Main thread: `main` is where the loop is. `Sweep` is `check_expired_leases`;
  `Forward`, `Spawn`, `SpawnFails`, `Ignore` are what a received packet does;
  `Unblock` is a `msgsnd` that had to wait. Registry entries are never removed,
  because `remove_client_thread` has no caller.
* `info[h]` is the block of handler h's `client_info_t`. A block is free when no
  running handler owns it. `Target(h)` is the queue the entry of h leads to: that of
  the number which had the block last (`LastIn`), if it has one.
* Each call in the creation of a handler may fail: the first `malloc` (`Ignore`),
  `msgget` and `pthread_create` (`SpawnFails`), the `malloc` of `add_client_thread`
  (`Spawn` without an entry: the thread runs, the next DISCOVER starts another). After a
  failed `pthread_create` the number is `"leaked"`: the block is free and the queue is
  there. A stale entry to that block fills it, and `Unblock` then has nobody to wait for.
* Handler thread h: `FirstDiscover`, then `TakeDiscover`, `TakeRequest`,
  `TakeEnd`, `Delete`, `TakeOther`, `Close`. `ack_sent` is set by any first
  REQUEST, a refused one too, as in lines 283-284; the abstract handlers
  `handle_dhcp_discover`, `handle_dhcp_request` keep the names of the code.
* The table: a call is one step (what a call does in its many steps is `CallsInTurn`).
  Of the tree the module keeps `root`, since an
  uncontended deletion ends only at the root (deeper it waits for its own lock),
  and `freed`, set when a sweep frees the root that the loop goes on using.
  Where one thread's view does not determine the shape (the new root after a
  deletion, lookups from a freed root, a stray unlock that lets a self-blocked
  thread go on), every outcome is allowed.
* `acks` and `promised` are history: what was answered.

`ClientSpec` restricts packets to what `dhcp_client.c` sends (`Behaves`); `Spec`
does not.

### IpAssignments
The same table with nothing abstracted from its concurrency: a heap of nodes, a
pointer `root`, a mutex without an owner, and for every thread the place in the
code, the locals and the stack of the recursion (`path`). A step is one lock,
unlock, or one node read or written. `cursor` is read and written as the code
does, so its moment outside the range (647-650) is visible and `Ip` is every
natural number. `alive` falls when a node is freed twice and the allocator aborts,
`intact` with the first deletion that changes the tree. A client's `stage`
keeps the order handlers impose on calls. What lies below a node (`Below`) is the
least set closed under the pointers.

### CallsInTurn
IpAssignments with a history variable: `inTurn` is true until two calls are under way at
once (`InCall`: a thread is between the begin and the end of a call), or the main loop
drops a root its sweep has changed (`DropsRoot`, line 128). It changes no step of
IpAssignments. Under it the tree has a meaning as a table: the holder of an address is the
`mac` in its node, its start that node's `lease_start`; with these `LeaseTable` is
instantiated (`Leases`). A deletion below the root still waits for its own lock, for ever
when nobody else calls: it keeps the promise by never ending. `HeapAssumption` says that
`malloc` has a block for every address of the range, since an insertion without one
offers an address that is not leased.

### DhcpRelay
`hash_table` as chains in their order. `RelayRequest` and `RelayReply` are the two
arms of `dhcp_relay_loop`, with a failing `sendto` in each. Clients, server and
network are external: a packet under way to the relay may be lost, stay (and so
arrive twice) or be overtaken. `asked` and `repeated` are history.

`Exchange` is the network without a relay, for one transaction number: one client asks,
the request reaches the server, which answers, and the answer reaches that client
and no other, once; the packet may be lost wherever it is. The relay, which only
guesses what a packet is, is to be that link (`ImplementsExchange`) for each number of
which nothing is repeated, whatever it does to the packets of other numbers. `Way`
and `Hears` are the refinement mapping: the packets of a number under way, and the
clients at which one waits. A reply at the server, a request at a client or a packet
in two places at once are no states of `Exchange`.

### DhcpOptions and DhcpPackets
`Layout` is memset, the options at the offsets of the code, and the final 255;
`AnswerFields`, `NakFields` and the client's four packets give code, offset and value of
each, `Pack` also where the 255 is and how many bytes are sent. A 32-bit value is its
bytes in memory on a little-endian processor and `Turned` is `htonl`; addresses are kept
as `inet_pton` leaves them. `Arrived` is what the receiver searches: neither the server's
`buffer` nor the client's `offer_message` is ever cleared, so behind a short packet lies
whatever was there (`Buffer`). `find_dhcp_option` is the search of both programs, a
recursive function. The letters of the two names are all the same letter: the
search does not look at values.

`DhcpPackets` puts them beside `DhcpClient`: each packet a client has under way and
each answer it may get is one of these, with the bytes of its address (`wire`).

### DhcpClient
* `Start`, `TimeOut`, `Fail` and `Receive` are `init_dhcp_client` and the loop of
  `handle_dhcp_protocol`; the handlers keep their names. `Wake` is one round of the
  loop in `handle_lease_renewal`: it looks at the clock, ends, or sends what is due
  and sleeps again. `rest` is what is left of the sleep; `Pass` lets a second go by,
  and the system may wake the client up to `MaxLate` seconds late.
* T2 is computed as the code does it, in `uint32_t` (`UINT32` values).
* Uninitialised memory is a choice: `fits` (the addresses that pass
  `validate_offered_ip`), `Garbage` (the times an ACK without option 51 leaves),
  `Stray` (where a packet to `client->server_addr` goes).
* The network is external: any packet may arrive at any time.

### AddressUse and DhcpSystem
`AddressUse` says what clients are promised: an address has one user at a time, a
client uses one address, once. `DhcpSystem` composes `DhcpClient` (EXTENDS), the
network with the age of each packet, `LeaseTable` (INSTANCE) and the handlers of the
server on it (`ServeFirst`, `ServeDiscover`, `ServeRequest`, `ServeRenewal`,
`ServeRelease`; `ServedBy` keeps the stale entry: once a handler has ended, any running
one may serve its client's packets). One `Tick` moves all clocks and waits for
whatever is due. Its refinement mapping reads the users of an address off the
clients that hold a lease on it.

Any packet may be lost, a renewal too: it is one datagram, and the next REQUEST is that
of T2. The history variable `fate` says whether the first renewal of a client was
heard or lost. If it was lost, the server, whose lease began with the OFFER, may take
the address up to `3 * Delay` seconds before the client, whose lease began with the ACK,
stops using it. In these seconds the client is `Overdue`; `system_lost` shows two users
of one address there. A client that was overdue sends a RELEASE when it leaves, which
may delete another's lease, and from then on nothing is promised: it is `Quiet` until
then. `LeaseCovered`, `ReleasesOwn` and `ImplementsUse` say what holds in spite of lost
renewals, and name `Quiet` and `Overdue` where it ends.

It takes for granted, and says so in its head or its assumptions:

* the table keeps the promise of `LeaseTable`. `CallsInTurnProofs` proves this of the
  tree, node by node, while calls do not meet and no root is dropped, and
  `DhcpServerProofs` of the server that makes these calls; `table_duplicate` shows
  calls that meet may break it;
* a packet is under way `Delay` seconds at most, and `4 * Delay + T1 + Sleep + MaxLate <=
  LeaseTime`: with the 30 seconds of dhcp_server.c and the 3 of dhcp_client.c, four
  packets and being late once take at most 12 seconds;
* the server finds the memory for each entry of its registry (`ServeFirst`): what happens
  where it does not is in `DhcpServer`;
* a packet to an uninitialised address goes nowhere (`Stray`), so no DECLINE is under
  way here, and the relay only passes
  packets on, as it does while none is repeated (`ImplementsExchange`);
* `select` waits longer than a packet and its answer take (`Silent`; the code waits
  120 seconds).

### MC modules and proof modules
The `MC...` modules give constants and start states; `DhcpServerProofs`,
`IpAssignmentsProofs`, `SearchOrderProofs`, `CallsInTurnProofs`, `DhcpRelayProofs`,
`DhcpClientProofs`, `DhcpPacketsProofs`, `DhcpSystemProofs` hold the theorems. A definition marked *mutant* beside the one it
resembles is not part of the model: it is the slip that definition could have, kept
to show a property notices it.

## 4. Runs

| Run | Shows | Instance |
|---|---|---|
| `server_table` | `TypeOK`, `AckAtMostOnce`, `PromiseKept`, `HeldInPool`, `SearchDecides`, `RootIsHeld`, `ImplementsTable` | 2 clients, queue of 1, 2 blocks, 2 client numbers, range of 5 cut to 3, lease time 0, clock to 1: the pool fills, wraps and expires, and a client names any address, in the pool or not, or none, whatever it was offered |
| `server_live` | `RoutedHome`, `StrayedByReuse`; `MainResumes`, `FirstAnswered` under fairness | 2 clients, pool of 2, queue of 1, 2 blocks, 2 client numbers; whatever dhcp_client.c may send, the clock stands |
| `server_release` | `ReleasedByHolder` fails | pool of 2, one expiry |
| `server_abort` | `NeverAborted` fails | pool of 1, one expiry |
| `server_stuck` | `ReleaseEnds` fails under fairness | as `server_live`, without DECLINE |
| `table_all` | `TypeOK`, `LockNeverOrphaned`, `SearchOrder`, `CursorHome` of calls that meet; `LeasesFound`, `SafeInTurn`, `KeepsPromise` of calls that come in turn | 2 handlers and the sweep, 4 blocks, pool of 4, from an empty, a one-lease, a two-lease and a full table, 2 calls |
| `table_duplicate` | `NoSharedAddress` fails | two DISCOVERs, pool of 2, 3 blocks |
| `relay_all` | `TypeOK`, `ChainsSound`, `OnlyAskerHears`, `SortedUnlessRepeated`, `ImplementsExchange` | 2 clients, 3 numbers in 2 buckets, 2 requests, any loss and repetition |
| `client_any` | `ClientTypeOK`, `LeavesForCause`, `ReleaseLast`, `AskedTwice`, `PacketsReadBack`, and `BoundEnds` under fairness | 1 client, 2 addresses, leases of 0, 1, 5, 17, 30, 40 seconds or none, 256 for 2^32, sleep of 3, late by 1; 2 server addresses, 3 contents of the buffer |
| `system_timely` | `TypeOK`, `LeaseCovered`, `ReleasesOwn`, `ImplementsUse` | 2 clients, 2 addresses, lease of 13, sleep of 3, delay of 1, time-out after 11, clock to 15 |
| `system_renewal` | `RenewalKeepsAddress` fails | the same |
| `system_lost` | `NoTwoUsers` fails | the same |

Why the bounds are enough.

* Server and table: the hazards need two actors, two clients and, in the server,
  one stale entry (two client numbers). A queue of one is full after one
  message. A pool of three is the smallest with a root between two others; the
  search wraps in it. In the table two calls, meeting or one after the other, over the four start
  states (an empty tree, one leaf, a root with a right child, a root with two children
  whose right one has a left child), reach every line of the module: insertion on both sides, deletion of a leaf, of
  a node with one child and with two, `find_min` over a path.
* Client: clients do not meet, so one is enough. The leases end at once (0, 1),
  fall within two sleeps (5), leave room for both requests (17, 30), or overflow
  in `lease * 7` (40 with 256 values). The buffer is empty, holds an ACK, which has
  every option, or is full of message types: a search that goes on behind a short
  packet finds something in the last two.
* System: the timing assumption is met with equality, so a second more of
  anything breaks it; the clock runs past the end of the first lease, and a client
  that gets no answer asks again before it (the DISCOVER after a time-out).

Bounded are `MaxClients` (numbers given), `MaxTime`, `MaxCalls`, `MaxDepth` (the stack),
`MaxSends` and `MaxLate`; each is a guard that names it. No run checks deadlock, because
in each the system really may stop (`CHECK_DEADLOCK FALSE`): at a bound, by an abort or a
self-deadlock of the server, because its loop waits for a queue that nobody reads, or
because every client has left. What may stop the server's loop is stated by
`MainResumes`.

Fairness.

* `FairSpec` of DhcpServer: the scheduler runs every thread that can run, so weak
  fairness of the main loop's step and of each handler's. `recvfrom` returns by
  `SO_RCVTIMEO` (dhcp_server.c:105-109), so the loop moves without packets. Packets
  are owed nothing. A deletion is owed progress only when it ends alone
  (`EndsAlone`); one that waits on its own lock is freed by luck. With two
  addresses such deletions happen, so both properties say: the wait ends, or some
  handler has locked itself out (`SelfBlocked`). The loop's wait may also be for the
  queue of a thread that was never created (`Abandoned`), which only `MainResumes`
  has to except. There is no third way to wait in `msgsnd` for good. `server_stuck`
  shows that handlers lock themselves out. The clock stands in this run, because a
  sweep of a root with two children blocks the loop for the same reason.
* `ClientFairness`: the clock goes on, and a client whose sleep is over runs
  (weak fairness of `Pass` and `Wake`). Packets and time-outs are owed nothing.

### What the failing runs say of the program

* `server_release`: a RELEASE deletes the lease of whoever holds the address.
* `server_abort`: after the lease at the root expires the freed root is used; the
  next sweep frees it again.
* `server_stuck`: the handler of a RELEASE may wait for its own lock, and never end.
* `table_duplicate`: two simultaneous DISCOVERs are offered one address.
* `system_renewal`: the server renews silently; the client gives the address up when
  its first lease is over.
* `system_lost`: the renewal of T1 is lost, the server grants the address to another
  client, and for some seconds two use it.

Seen and modelled, with no run of its own:

* packets of a client whose handler ended reach another client's handler, by the
  entry that stays and the block that is used again: `StrayedByReuse` says that it is
  the only way;
* a failed `pthread_create` leaves a queue that nobody reads; a stale entry fills it, and
  `msgsnd` stops the only receive loop: the exception `Abandoned` of `MainResumes`;
* an entry without memory leaves a running handler the registry does not know; the
  client's next DISCOVER starts a second one;
* the mask reaches the client with its bytes reversed, because `send_dhcp_options` turns
  an address that is in network order already (`AckRead`); router and name server too;
* `lease_time * 7` wraps for long leases, and the client then rebinds too early;
* a request the relay hears twice turns requests into replies and back;
* `ack_sent` is set after a NAK too, so a refused client is never answered again, and
  neither is one whose ACK was lost;
* DECLINE frees the address where README.md:22 says it is marked unavailable;
* a repeated DISCOVER leases one more address to the same client;
* the cursor may be read past the range and that address leased;
* the DISCOVER after a NAK and the DECLINE go to an address nobody has set.

## 5. Proofs

All theorems are for every value of the constants, from the named assumptions of
the modules: `RangeAssumption`, `NobodyAssumption`, `KindsAssumption`,
`BoundsAssumption` (DhcpServer), `TableAssumption` (IpAssignments), `HeapAssumption` (CallsInTurn),
`RelayAssumption` (DhcpRelay), `ClientAssumption` (DhcpClient), `OptionsAssumption`
(DhcpOptions: addresses are four bytes, the lease time fits in four, a buffer holds bytes),
`PacketsAssumption` (DhcpPackets: the same of the clients' addresses), `TimingAssumption` and
`SystemAssumption` (DhcpSystem). TLC evaluates each in the runs.

**DhcpServerProofs.** `CoreInv` = `TypeOK` /\ `RegistryInv` /\ `PendingInv`: numbers not
yet given have no thread and no entry (`NumbersFresh`), an entry is of a number that got
a thread (`EntryOfThread`) and a client (`ClientKnown`), a running handler is the last to
get its block (`BlockKept`), a message main waits with is for a number that was given. It
yields `TypeCorrect` and `Routing`: the routing of a live entry follows only because
nobody gets the block of a running handler. With it `Strays` (`StrayedByReuse`): a
message waits in another client's queue only because that handler lives in the block of
one that ended, and a leaked queue gets its messages in the same way. `TableInv` = `PromiseKept` /\ `HeldInPool` /\ `RootIsHeld` /\ `FreeStart`
yields `Promises`, `PoolOnly`, `RootAlive` and `Implementation`: each step maps to a
step of `LeaseTable` or a stutter, until a sweep frees the root. `SearchTerminates`
(`SearchDecides`): from any cursor the `attempts` of `assign_ip_address` come to every
address of the pool (`SearchGoesRound`), so there is a first that no lookup finds, or
all are held; `FirstAnswered` rests on it. `FreeStart` (a free
address has start 0) is needed for the mapping of a grant. `AckInv` ties the number
of ACKs to `ack_sent` and yields `OneAck`.

**IpAssignmentsProofs.** `TableInv` holds the types, `LockNeverOrphaned` and
`Anchored`: a thread inside `find_min` or at the check of a sweep has a node and a
stack, without which the types of what it reads do not follow. It yields
`TypeCorrect` and `MutexReleased`; `CursorReturns` follows because only a thread inside
the window 647-650 can have left the cursor outside.

**SearchOrderProofs.** `SearchOrder` speaks of everything below a node, an inductive
invariant must speak of one pointer at a time. Each block a thread allocates is
born for one place of the tree: `K[a]` is the set of addresses that belong there, fixed
when the block is linked. `OrderInv` says that such a `K` exists with which every
pointer fits: the root, the two children of each used block (those cut off by a lost
update included), and the node and stack of every thread on its way down or back.
A lost update then overwrites a pointer by another that fits the same place.
`OrderAlways` follows because the blocks whose place lies within a side of a node are
closed under the pointers, and `Below` is the least closed set: no induction over the
tree is needed.

**CallsInTurnProofs.** What a unit test of the tree would try on a few trees, for every
tree and every sequence of calls. The invariant `TurnInv`: one thread at most is in a call,
and either it waits for its own lock for ever (`Waits`), or the tree is `Sound` and the
thread knows what it should by where it is (`AsFar`).

* `Sound` is not said of the heap but of the tree as it will be once the call under way
  has stored what it returns (`Tree`): between the free of a node and the store of its
  child in the parent, the heap itself has a pointer to nowhere. A sound tree is made
  of allocated blocks (`Whole`), each in one place (`OneParent`), and each on the way a
  lookup of its address goes (`Meets`, a least set again, so that no induction over the
  tree is needed). Two facts carry the steps: `SoundHung`, a new block put where the
  lookup of its address ended, and `SoundCut`, a block with one child cut out.
* `OneBlock`: in a sound tree an address has one node. So a renewal, a deletion or an
  expiry changes the lease of one address only.
* `OnPath` says the stack of a recursion leads from the root to where it is, through no
  block twice; so its stores on the way back write what is there already, or the result.
  `Under` says that `find_min` stays below the node that goes: the minimum it copies is
  another block.
* `Promises` ties what clients were told to the leases: held, or the insertion that
  follows an ACK under way.

It yields `SafeWhileInTurn`, `FoundWhileInTurn` and, action by action (`InsertTable`,
`RenewTable`, `DeleteLeafTable`, `DeleteCopyTable`; every other step leaves the table
alone), the refinement `KeepsAlways`, from which `InTurnImplements`: a behaviour whose calls
come in turn throughout is one of `LeaseTable`. A lease changes hands at one point of
each call: the write of the new node, the write of `lease_start`, the free of a node or
the copy of the minimum over it.

**DhcpRelayProofs.** `TypeCorrect` and `Chained` by lemmas on what an insertion and a
removal make of a chain. `Heard` needs `AskersKept`: packets on their way and
transactions only remember clients that asked. `Sorted` needs `Alone`: a number of
which nothing is repeated has one packet under way, and whether it is known says
which one. The refinement adds `Linked`: such a number has one asker, and while a packet
of it is under way nobody has heard an answer. With these (`ExchangeInv`) each action
is one step of that number's `Exchange` or none (`ExchangeRequest` to `ExchangeTakes`):
a forwarded request is `PassOn`, a forwarded reply `Deliver`, a failed `sendto` `Lose`. Hence
`MereLink`, step by step and number by number, and `LinkImplements`, the refinement
for a number that is never repeated.

**DhcpClientProofs.** `ClientInv` holds the types, `ReleaseLast` and `Good` of each
client: a client that asks or holds a lease is not refused twice yet, its sleep ends
by the end of its lease, and, when the lease is roomy, the next look at the clock
comes less than `Sleep` after T1 or T2 while that request has not been sent
(`LooksInTime`; lateness is in `rest`). It yields `TypeCorrect`, `Causes`, `LastWord` and
`AskedInTime`.

**DhcpPacketsProofs.** What the search computes, for every array of bytes. Its
recursion needs two inductions. The library's induction theorems cannot be used,
but the well-foundedness of < can: a set of naturals has a least member (`Least`), so one
that contains 0 and is closed under + 1 is `Nat` (`Induct`). The recursive function of
`find_dhcp_option` exists because each step goes on (`ForthGoesOn`, `WalkExists`), which
is also why the loop in C ends; `SearchSound` follows. `InRow(p)` says of a packet that its
options stand one behind the other from 0, the 255 behind the last, and all of
it is sent. Then each byte is what its option put there (`RowByte`,
`RowArrived`: nothing left in the buffer is looked at), the search comes to the
beginning of each option in turn (`RowReached`), and `RowReadsBack` follows. Each packet of
the code is such a row (`AnswerInRow` to `ReleaseInRow`), hence `PacketsAlwaysReadBack`.
`AckRead` computes what the client makes of an ACK: the lease time exactly, and the
other addresses turned round.

**DhcpSystemProofs.** `Always` = `BaseInv` /\ (`Quiet` => `CoverInv`). `BaseInv` holds whatever
is lost: the types, what each client knows, and that an OFFER, an ACK or a packet that
names an address names one of the pool. `CoverInv` says how old a lease may be for each
thing that rests on it: an OFFER of age n on a lease of at most n seconds, the REQUEST
it leads to `Delay` more, the ACK twice that, and of a client that holds a lease, by what
became of its first renewal: before it (`Early`) three times `Delay` and its own `elapsed`;
while it is under way (`Asked`) the same with that packet; heard (`Renewed`)
`elapsed - T1`; lost (`Unrenewed`) as before it, until the client is `Overdue`. A RELEASE
adds the age of the packet. `TimingAssumption` keeps all but the overdue within `LeaseTime`,
so a sweep takes none that counts. `Ended` and `Lone` (one RELEASE per client, and a
handler that ended means it was served) keep a stale handler from deleting an address
twice.

That `CoverInv` need only hold while it is quiet makes one more lemma necessary: once an
overdue client has left, it is never quiet again (`QuietBack`), so a step that ends quiet
began quiet, and `CoverStep` may use both. It yields `SystemAlways`, and from it
`SystemTypes`, `CoveredAlways`, `OwnReleases` and, since two clients that are not overdue
cannot both be holders, `OneUserEach`: an ACK heard maps to `Take`, the end of a lease to
`Leave`, everything else to a stutter, in every step after which nobody is overdue. The
theorems rest on `TimingAssumption` and, by `SystemAssumption`, on `Stray = {"lost"}`; they
do not rest on any packet's arrival.

## 6. Only model-checked, and not modelled

Only model-checked: the liveness properties (`MainResumes`, `FirstAnswered`, `BoundEnds`;
fairness is beyond the prover) and the failing properties. Every other property of a
passing run is also a theorem. What the recursive `find_dhcp_option` computes is proved by
induction over sets of naturals.

Not modelled, and why:

* the shutdown by signal: `handle_signal` frees the tree and destroys the mutex in
  whatever thread the signal interrupts, then leaves. What the others do until then
  depends on `free`, `printf` and a destroyed mutex inside the C library, not on state
  this code keeps; `cleanup` only closes what a failed start had opened;
* printing, socket set-up, environment variables, build files, test scripts and
  containers: no state of the protocol;
* exhaustion of memory, except where a handler is created and where the table's code
  checks it (`IpAssignments`), and the width of addresses, since every one is within an
  IPv4 range;
* the conversions between text and addresses (`ip_to_int`, `int_to_ip`), which keep no
  state and are inverse to each other on the range;
* a relay that misjudges inside `DhcpSystem`: its mistakes are in `DhcpRelay` alone;
* that the server's table of a client's addresses, or the relay's table of transactions,
  grows without limit: every run bounds what is sent, and nothing in the code or its
  documents limits either.

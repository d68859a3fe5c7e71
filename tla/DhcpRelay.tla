------------------------------ MODULE DhcpRelay ------------------------------
(***************************************************************************)
(* The relay: one loop on one socket that hears clients and server alike.  *)
(* A packet whose transaction number is unknown is taken for a client's    *)
(* request, remembered with its sender and sent on to the server; one that *)
(* is known is taken for the server's answer, sent to the remembered       *)
(* sender, and forgotten.  Clients, server and the datagram network around *)
(* it are external: what is under way to the relay may be lost, repeated   *)
(* and reordered; a packet lost before the server is a silent server.      *)
(***************************************************************************)
EXTENDS Integers, Sequences, FiniteSets

CONSTANTS
    Client,      \* clients, by socket address
    Server,      \* the server's socket address
    Xid,         \* transaction numbers
    TableSize,   \* HASH_TABLE_SIZE
    MaxSends     \* bound: packets the clients send

ASSUME RelayAssumption ==
    /\ Server \notin Client
    /\ Xid \subseteq Nat
    /\ TableSize \in Nat \ {0} /\ MaxSends \in Nat

VARIABLES
    hash_table,  \* hash_table[i]: the chain of transactions of bucket i, first to last
    toRelay,     \* packets under way to the relay
    toServer,    \* packets under way to the server
    toClient,    \* toClient[c]: packets that reached client c's socket
    sends,       \* packets the clients have sent
    asked,       \* history: asked[x]: clients that sent a request numbered x
    repeated     \* history: numbers used twice, or of which a packet was repeated

netVars == <<toRelay, toServer, toClient>>
vars == <<hash_table, netVars, sends, asked, repeated>>

Address == Client \cup {Server}
Packet == [xid : Xid, op : {"request", "reply"}, from : Address]
Transaction == [xid : Xid, client_addr : Address]
Bucket == 0..(TableSize - 1)

hash_xid(x) == x % TableSize
Chain(x) == hash_table[hash_xid(x)]

(* find_transaction: where the first transaction numbered x is in its chain. *)
FirstInBucket(x, i) == i \in DOMAIN Chain(x) /\ i = 1   \* mutant: the xid is not compared
First(x, i) ==
    /\ i \in DOMAIN Chain(x)
    /\ Chain(x)[i].xid = x
    /\ \A j \in 1..(i - 1) : Chain(x)[j].xid # x
KnownFirst(x) == Chain(x) # <<>> /\ Head(Chain(x)).xid = x   \* mutant: no walk
Known(x) == \E i \in DOMAIN Chain(x) : Chain(x)[i].xid = x

insert_transaction(x, addr) ==
    hash_table' = [hash_table EXCEPT ![hash_xid(x)] =
                     <<[xid |-> x, client_addr |-> addr]>> \o @]

Freed(s, i) == [s EXCEPT ![i].xid = -1]   \* mutant: freed and not unlinked
Without(s, i) == SubSeq(s, 1, i - 1) \o SubSeq(s, i + 1, Len(s))
remove_transaction(x, i) ==
    hash_table' = [hash_table EXCEPT ![hash_xid(x)] = Without(@, i)]

-----------------------------------------------------------------------------
(* A datagram arrives at the relay, and is gone, or will arrive once more. *)
Arrives(p) ==
    \/ toRelay' = toRelay \ {p} /\ UNCHANGED repeated
    \/ toRelay' = toRelay /\ repeated' = repeated \cup {p.xid}

SentTo(addr, p) ==
    IF addr = Server THEN toServer' = toServer \cup {p} /\ UNCHANGED toClient
    ELSE toClient' = [toClient EXCEPT ![addr] = @ \cup {p}] /\ UNCHANGED toServer

(* dhcp_relay_loop, a packet with an unknown number: the transaction is kept    *)
(* even when sendto fails.                                                      *)
RelayRequest(p) ==
    /\ p \in toRelay /\ Arrives(p)
    /\ ~Known(p.xid)
    /\ insert_transaction(p.xid, p.from)
    /\ SentTo(Server, p) \/ UNCHANGED <<toServer, toClient>>
    /\ UNCHANGED <<sends, asked>>

(* A packet with a known number goes to the address kept with it; the           *)
(* transaction is removed only when sendto succeeds.                            *)
RelayReply(p) ==
    /\ p \in toRelay /\ Arrives(p)
    /\ \E i \in DOMAIN Chain(p.xid) :
         /\ First(p.xid, i)
         /\ \/ SentTo(Chain(p.xid)[i].client_addr, p) /\ remove_transaction(p.xid, i)
            \/ UNCHANGED <<hash_table, toServer, toClient>>
    /\ UNCHANGED <<sends, asked>>

-----------------------------------------------------------------------------
(* A client sends a DISCOVER, REQUEST, DECLINE or RELEASE under a random number. *)
ClientSends(c, x) ==
    /\ sends < MaxSends /\ sends' = sends + 1
    /\ toRelay' = toRelay \cup {[xid |-> x, op |-> "request", from |-> c]}
    /\ asked' = [asked EXCEPT ![x] = @ \cup {c}]
    /\ repeated' = IF asked[x] = {} THEN repeated ELSE repeated \cup {x}
    /\ UNCHANGED <<hash_table, toServer, toClient>>

(* The server answers a request under the number it has, or keeps silent, as it *)
(* does for a renewal, a DECLINE or a RELEASE.                                  *)
ServerTakes(p) ==
    /\ p \in toServer
    /\ toServer' = toServer \ {p}
    /\ \/ /\ p.op = "request"
          /\ toRelay' = toRelay \cup {[xid |-> p.xid, op |-> "reply", from |-> Server]}
       \/ UNCHANGED toRelay
    /\ UNCHANGED <<hash_table, toClient, sends, asked, repeated>>

ClientTakes(c, p) ==
    /\ p \in toClient[c]
    /\ toClient' = [toClient EXCEPT ![c] = @ \ {p}]
    /\ UNCHANGED <<hash_table, toRelay, toServer, sends, asked, repeated>>

Lost(p) ==
    /\ p \in toRelay
    /\ toRelay' = toRelay \ {p}
    /\ UNCHANGED <<hash_table, toServer, toClient, sends, asked, repeated>>

-----------------------------------------------------------------------------
Init ==
    /\ hash_table = [i \in Bucket |-> <<>>]
    /\ toRelay = {} /\ toServer = {} /\ toClient = [c \in Client |-> {}]
    /\ sends = 0 /\ asked = [x \in Xid |-> {}] /\ repeated = {}

Next ==
    \/ \E p \in toRelay : RelayRequest(p) \/ RelayReply(p) \/ Lost(p)
    \/ \E p \in toServer : ServerTakes(p)
    \/ \E c \in Client : \/ \E x \in Xid : ClientSends(c, x)
                         \/ \E p \in toClient[c] : ClientTakes(c, p)

Spec == Init /\ [][Next]_vars

-----------------------------------------------------------------------------
(* Every variable keeps its type (type invariant of the module). *)
TypeOK ==
    /\ hash_table \in [Bucket -> Seq(Transaction)]
    /\ toRelay \subseteq Packet /\ toServer \subseteq Packet
    /\ toClient \in [Client -> SUBSET Packet]
    /\ sends \in 0..MaxSends
    /\ asked \in [Xid -> SUBSET Client] /\ repeated \subseteq Xid

(* A transaction is kept once, in the bucket of its number, whatever is         *)
(* inserted in front of it or removed around it (insert_transaction,            *)
(* remove_transaction).                                                         *)
ChainsSound ==
    \A i \in Bucket : \A k \in DOMAIN hash_table[i] :
        /\ hash_xid(hash_table[i][k].xid) = i
        /\ \A l \in DOMAIN hash_table[i] :
             hash_table[i][k].xid = hash_table[i][l].xid => k = l

(* A client only ever receives packets under a number it used itself, however   *)
(* packets are lost, repeated, reordered or taken for what they are not.        *)
OnlyAskerHears == \A c \in Client : \A p \in toClient[c] : c \in asked[p.xid]

(* As long as nothing of a number is repeated, the relay tells requests from    *)
(* replies: the first reach the server and no client, the second the reverse.   *)
SortedUnlessRepeated ==
    \A x \in Xid \ repeated :
        /\ \A p \in toServer : p.xid = x => p.op = "request"
        /\ \A c \in Client : \A p \in toClient[c] : p.xid = x => p.op = "reply"

(* Where the packets of number x are: under way, and at which clients. *)
Way(x) ==
    {s \in {"sent"} : \E p \in toRelay : p.xid = x /\ p.op = "request"}
    \cup {s \in {"passed"} : \E p \in toServer : p.xid = x}
    \cup {s \in {"answered"} : \E p \in toRelay : p.xid = x /\ p.op = "reply"}
Hears(x) == {c \in Client : \E p \in toClient[c] : p.xid = x}
ExchangeOf(x) == INSTANCE Exchange
    WITH asker <- asked[x], way <- Way(x), hears <- Hears(x)

(* A number of which nothing is repeated goes through one Exchange: the relay   *)
(* is a mere link for it, although it only guesses what a packet is, and        *)
(* however the packets of other numbers are repeated and misjudged around it.   *)
ImplementsExchange ==
    /\ \A x \in Xid : ExchangeOf(x)!ExchangeInit
    /\ [][\A x \in Xid \ repeated' :
             [ExchangeOf(x)!ExchangeNext]_(ExchangeOf(x)!exchangeVars)]_vars
=============================================================================

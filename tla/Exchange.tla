------------------------------ MODULE Exchange ------------------------------
(***************************************************************************)
(* What client and server take for granted of the network between them,    *)
(* for one transaction number: a client asks, the request reaches the      *)
(* server, the server answers, and the answer reaches that client and no   *)
(* other, once.  The packet may be lost wherever it is.                    *)
(***************************************************************************)
CONSTANT Client

VARIABLES
    asker,     \* the client that asked, as a set
    way,       \* where the packet is under way: before or after the server
    hears      \* the clients at which the answer waits

exchangeVars == <<asker, way, hears>>

ExchangeInit == asker = {} /\ way = {} /\ hears = {}

Ask(c) ==
    /\ asker = {} /\ asker' = {c}
    /\ way' = {"sent"} /\ UNCHANGED hears

PassOn == way = {"sent"} /\ way' = {"passed"} /\ UNCHANGED <<asker, hears>>
Answer == way = {"passed"} /\ way' = {"answered"} /\ UNCHANGED <<asker, hears>>

Deliver ==
    /\ way = {"answered"} /\ way' = {}
    /\ hears' = asker /\ UNCHANGED asker

Lose == way' = {} /\ UNCHANGED <<asker, hears>>
Hear == hears' = {} /\ UNCHANGED <<asker, way>>

ExchangeNext == (\E c \in Client : Ask(c)) \/ PassOn \/ Answer \/ Deliver \/ Lose \/ Hear

ExchangeSpec == ExchangeInit /\ [][ExchangeNext]_exchangeVars
=============================================================================

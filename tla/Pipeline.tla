------------------------------- MODULE Pipeline -------------------------------
(***************************************************************************)
(* From an order line to a consumer: Catalog writes outbox rows, the relay *)
(* of OutboxRelay publishes them, and a consumer that drops repeats reads  *)
(* the partition.  The two modules share one table: what the transactions  *)
(* of the API leave in outbox_event is what the relay polls.  There is one *)
(* product, hence one partition key.                                       *)
(***************************************************************************)
EXTENDS Catalog, FiniteSetsExt, Sequences

CONSTANTS TheProduct,  \* the one product
          LastId,      \* bound: outbox ids, as many as requests raise events
          Relays, OnceRelays, BatchSize, MaxFaults  \* as in OutboxRelay

ASSUME PipelineAssumption ==
  /\ Products = {TheProduct}
  /\ LastId \in Nat \ {0}
  /\ OnceRelays \subseteq Relays
  /\ BatchSize \in Nat \ {0}
  /\ MaxFaults \in Nat

\* The product is there at the start, and no line of the start is one that a request
\* will insert.
ASSUME SeedAssumption ==
  SeedProducts[TheProduct] \in Row /\ \A l \in SeedLines : l.id \notin Requests

VARIABLES table, attempts, log, place, stopping, batch, queue, delivered, failed, faults

Ids == 1 .. LastId
relay == <<attempts, log, place, stopping, batch, queue, delivered, failed, faults>>

Relay == INSTANCE OutboxRelay
  WITH Events <- Ids, KeyOf <- [e \in Ids |-> 0], LooseKeys <- {}, MayFail <- {},
       Poison <- {}, MaxAttempts <- 0, pc <- place

PipelineInit == Init /\ Relay!Init

\* The row of id e, when the API's transactions are as they are: not there while
\* the one that raised it runs, and never if that was rolled back.
RowLeft(e) ==
  LET open == \E r \in Requests : pc[r] \in InTransaction
                                  /\ \E f \in events[r] : f.id = e
      there == \E f \in outbox : f.id = e
  IN IF there THEN "pending" ELSE IF e < nextId /\ ~open THEN "rolledback" ELSE "absent"

\* Mutant of Api: an event is published by the request that raises it.
ApiInsertsAtOnce(A) ==
  /\ A
  /\ table' = [e \in Ids |-> IF table[e] = "absent" /\ e < nextId'
                               THEN "pending" ELSE table[e]]
  /\ UNCHANGED relay

\* A step of the API: a commit puts its rows where the relay polls.
Api(A) ==
  /\ A
  /\ table' = [e \in Ids |-> IF table[e] = "absent" THEN RowLeft(e)' ELSE table[e]]
  /\ UNCHANGED relay

Publish(A) == A /\ UNCHANGED vars

PipelineNext ==
  \/ Api(Next)
  \/ \E s \in Relays : Publish(Relay!Drain(s) \/ Relay!Broker(s)
                               \/ Relay!Disturb(s) \/ Relay!Restart(s))

everything == <<vars, table, relay>>

\* The fairness of the two components.
PipelineSpec ==
  /\ PipelineInit /\ [][PipelineNext]_everything
  /\ \A r \in Requests : WF_everything(Api(Step(r)))
  /\ \A s \in Relays : /\ WF_everything(Publish(Relay!Drain(s)))
                       /\ WF_everything(Publish(Relay!Broker(s)))
                       /\ WF_everything(Publish(Relay!Restart(s)))

-----------------------------------------------------------------------------
(* A consumer that recognises repeats by their id.                         *)

deliveries == log[0]

\* Positions of the deliveries it does not drop, and the event at each.
Fresh == {i \in DOMAIN deliveries : \A j \in 1 .. (i - 1) : deliveries[j] # deliveries[i]}
EventAt(i) == CHOOSE e \in outbox : e.id = deliveries[i]

\* The stock it believes in, starting from the figure it was given.
Believed ==
  IF Fresh = {} THEN SeedProducts[TheProduct].stock ELSE EventAt(Max(Fresh)).after

-----------------------------------------------------------------------------
\* "a consumer then acts on something that never happened" (docs/DOMAIN_EVENTS.md:
\* 191-192): whatever is delivered was committed, and a consumer's books balance:
\* each movement it reads starts from the figure the one before left
\* (stock.py:55-71, publish_outbox.py:88-111).
ConsumersBooksBalance ==
  /\ \A i \in Fresh : \E e \in outbox : e.id = deliveries[i]
  /\ \A i \in Fresh :
       EventAt(i).before = IF \E j \in Fresh : j < i
                             THEN EventAt(Max({j \in Fresh : j < i})).after
                             ELSE SeedProducts[TheProduct].stock

\* A consumer catches up: in the end it believes the stock that is committed,
\* whatever was refused, rolled back, repeated or lost on the way.
ConsumerCatchesUp == <>[](Believed = products[TheProduct].stock)

\* What OutboxRelay assumes of the API is what Catalog does: the rows of one
\* transaction end as one, and those of a product in the order of their ids.
ApiFeedsRelay == Relay!Spec

\* The pieces the requests' own lines promise.
Promised ==
  MapThenSumSet(LAMBDA l : l.quantity, {l \in orderdetails : l.id \in Requests})

\* Lines that are only created promise the pieces that stock has lost, whatever
\* is refused, fails half-way or races (stock.py:9-16).
PiecesAreConserved ==
  products[TheProduct].stock = SeedProducts[TheProduct].stock - Promised
=============================================================================

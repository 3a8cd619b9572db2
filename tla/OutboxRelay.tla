----------------------------- MODULE OutboxRelay -----------------------------
(***************************************************************************)
(* The relay that publishes outbox_event rows to Kafka: the command        *)
(* events/management/commands/publish_outbox.py, its librdkafka producer   *)
(* (a local queue drained in the background, whose reports are served only *)
(* while flush() runs), the partitions of the broker, and the API's        *)
(* transactions, of which only the end is visible here.                    *)
(***************************************************************************)
EXTENDS Naturals, Sequences, SequencesExt

CONSTANTS Events,      \* outbox row ids, a set of naturals
          KeyOf,       \* the partition key of each event
          LooseKeys,   \* keys whose events no row lock puts in order
          Relays,      \* processes running the command
          OnceRelays,  \* those somebody runs by hand, with --once
          BatchSize,   \* --batch-size
          MayFail,     \* events whose delivery the broker may report failed
          Poison,      \* events whose delivery always fails
          MaxFaults,   \* bound: crashes, signals, timeouts, failures, runs by hand
          MaxAttempts  \* bound: publish_attempts is counted up to here

ASSUME RelayAssumption ==
  /\ Events \subseteq Nat
  /\ KeyOf \in [Events -> Nat]
  /\ LooseKeys \subseteq Nat
  /\ OnceRelays \subseteq Relays
  /\ BatchSize \in Nat \ {0}
  /\ MayFail \subseteq Events /\ Poison \subseteq Events
  /\ MaxFaults \in Nat /\ MaxAttempts \in Nat

VARIABLES table,      \* per event: its row, and whether published_at is set
          attempts,   \* publish_attempts
          log,        \* per key, what its partition has stored
          pc,         \* per relay: where handle() is
          stopping,   \* per relay: a signal has set `stopping`
          batch,      \* `pending`: events in order, with the attempts then read
          queue,      \* the producer's queue: events, and if this flush awaits it
          delivered,  \* the lists that on_delivery reports fill
          failed,
          faults      \* faults so far

relay == <<pc, stopping, batch, queue, delivered, failed>>
vars == <<table, attempts, log, relay, faults>>

Keys == {KeyOf[e] : e \in Events}
Rows == {"absent", "rolledback", "pending", "published"}
Places == {"poll", "produce", "flush", "mark", "exited", "down"}

Init ==
  /\ table = [e \in Events |-> "absent"]
  /\ attempts = [e \in Events |-> 0]
  /\ log = [k \in Keys |-> <<>>]
  /\ pc = [s \in Relays |-> IF s \in OnceRelays THEN "exited" ELSE "poll"]
  /\ stopping = [s \in Relays |-> FALSE]
  /\ batch = [s \in Relays |-> <<>>]
  /\ queue = [s \in Relays |-> <<>>]
  /\ delivered = [s \in Relays |-> {}]
  /\ failed = [s \in Relays |-> {}]
  /\ faults = 0

Goto(s, place) == pc' = [pc EXCEPT ![s] = place]
Fault == faults < MaxFaults /\ faults' = faults + 1
InBatch(s) == {batch[s][i].event : i \in DOMAIN batch[s]}

-----------------------------------------------------------------------------
(* The API.  Ids are allocated at the INSERT.  The events of a product or  *)
(* an order are raised under the lock of its row, and end in the order of  *)
(* their ids; payments share the key of their customer, whose row nobody   *)
(* locks, and end in any order, as events of different keys do.  Those of  *)
(* one transaction end as one.                                             *)

Settled(e) == table[e] # "absent"

\* A transaction ends; S are the rows it has inserted.
Settle(S) ==
  /\ S # {}
  /\ \A e \in S :
       /\ ~Settled(e)
       /\ KeyOf[e] \notin LooseKeys =>
            \A f \in Events : f < e /\ KeyOf[f] = KeyOf[e] => f \in S \/ Settled(f)
  /\ \E end \in {"pending", "rolledback"} :
       table' = [e \in Events |-> IF e \in S THEN end ELSE table[e]]
  /\ UNCHANGED <<attempts, log, relay, faults>>

-----------------------------------------------------------------------------
(* _drain                                                                  *)

Pending == {e \in Events : table[e] = "pending"}

\* Mutant of Oldest: order_by("-id").
Newest(ids, n) ==
  /\ \A i, j \in DOMAIN ids : i < j => ids[i] > ids[j]
  /\ \A e \in Pending \ Range(ids) : Len(ids) = n /\ \A i \in DOMAIN ids : ids[i] > e

\* Mutant of Oldest: rows that failed once are left out.
OldestUntried(ids, n) ==
  LET untried == {e \in Pending : attempts[e] = 0} IN
  /\ Range(ids) \subseteq untried
  /\ \A i, j \in DOMAIN ids : i < j => ids[i] < ids[j]
  /\ \A e \in untried \ Range(ids) : Len(ids) = n /\ \A i \in DOMAIN ids : ids[i] < e

\* The unpublished rows by id, `n` of them or all: one that is left out is
\* younger than those taken.
Oldest(ids, n) ==
  /\ \A i, j \in DOMAIN ids : i < j => ids[i] < ids[j]
  /\ \A e \in Pending \ Range(ids) : Len(ids) = n /\ \A i \in DOMAIN ids : ids[i] < e

Poll(s) ==
  /\ pc[s] = "poll" /\ ~stopping[s] /\ Pending # {}
  /\ \E ids \in BoundedSeq(Pending, BatchSize) :
       /\ Oldest(ids, BatchSize)
       /\ batch' = [batch EXCEPT ![s] =
            [i \in DOMAIN ids |-> [event |-> ids[i], attempts |-> attempts[ids[i]]]]]
  /\ Goto(s, "produce")
  /\ UNCHANGED <<table, attempts, log, stopping, queue, delivered, failed, faults>>

\* produce() appends to the local queue; the lists of this call start empty.
Produce(s) ==
  /\ pc[s] = "produce"
  /\ queue' = [queue EXCEPT ![s] = @ \o
       [i \in DOMAIN batch[s] |-> [event |-> batch[s][i].event, awaited |-> TRUE]]]
  /\ Goto(s, "flush")
  /\ UNCHANGED <<table, attempts, log, stopping, batch, delivered, failed, faults>>

\* Partitions are written independently; within one, the producer is
\* idempotent and keeps the order of its queue.
Heads(s) == {i \in DOMAIN queue[s] : \A j \in 1 .. (i - 1) :
               KeyOf[queue[s][j].event] # KeyOf[queue[s][i].event]}

Store(e) == log' = [log EXCEPT ![KeyOf[e]] = Append(@, e)]

\* Mutant of Report: one list for all calls of _drain.
ReportAnyway(s, i, list) ==
  IF pc[s] = "flush" THEN [list EXCEPT ![s] = @ \cup {queue[s][i].event}] ELSE list

\* report(): a report reaches the lists of the _drain that is flushing, if it
\* was that call which produced the message.
Report(s, i, list) ==
  IF pc[s] = "flush" /\ queue[s][i].awaited
    THEN [list EXCEPT ![s] = @ \cup {queue[s][i].event}] ELSE list

\* acks=all: the broker has stored the record.
BrokerStores(s) ==
  \E i \in Heads(s) :
    LET e == queue[s][i].event IN
    /\ e \notin Poison
    /\ Store(e)
    /\ delivered' = Report(s, i, delivered)
    /\ queue' = [queue EXCEPT ![s] = RemoveAt(@, i)]
    /\ UNCHANGED <<table, attempts, pc, stopping, batch, failed, faults>>

\* A message is given up: rejected, or timed out with its record stored or not.
BrokerFails(s) ==
  \E i \in Heads(s) :
    LET e == queue[s][i].event IN
    /\ \/ e \in Poison /\ UNCHANGED <<log, faults>>
       \/ e \in MayFail \ Poison /\ Fault /\ (Store(e) \/ UNCHANGED log)
    /\ failed' = Report(s, i, failed)
    /\ queue' = [queue EXCEPT ![s] = RemoveAt(@, i)]
    /\ UNCHANGED <<table, attempts, pc, stopping, batch, delivered>>

\* flush(30) returns when the queue is empty, or when its time is up: what is
\* left will be sent, and reported to lists that nobody reads.
Flushed(s) ==
  /\ pc[s] = "flush"
  /\ \/ queue[s] = <<>> /\ UNCHANGED <<queue, faults>>
     \/ /\ queue[s] # <<>> /\ Fault
        /\ queue' = [queue EXCEPT ![s] =
             [i \in DOMAIN @ |-> [event |-> @[i].event, awaited |-> FALSE]]]
  /\ Goto(s, "mark")
  /\ UNCHANGED <<table, attempts, log, stopping, batch, delivered, failed>>

\* publish_attempts as the poll read it.
ReadAttempts(s, e) == (CHOOSE b \in Range(batch[s]) : b.event = e).attempts

\* handle(): `--once` ends when nothing was sent.
Ends(s) == s \in OnceRelays /\ delivered[s] = {}

\* Mutant of Mark: the whole batch is marked, reported or not.
MarkBatch(s) ==
  /\ pc[s] = "mark"
  /\ table' = [e \in Events |-> IF e \in InBatch(s) THEN "published" ELSE table[e]]
  /\ Goto(s, "poll")
  /\ batch' = [batch EXCEPT ![s] = <<>>]
  /\ delivered' = [delivered EXCEPT ![s] = {}]
  /\ failed' = [failed EXCEPT ![s] = {}]
  /\ UNCHANGED <<attempts, queue, log, stopping, faults>>

\* Mutant of Mark: a failed row is put aside in a state of its own.
MarkFailed(s) ==
  /\ pc[s] = "mark"
  /\ table' = [e \in Events |-> IF e \in failed[s] THEN "failed" ELSE table[e]]
  /\ Goto(s, "poll")
  /\ batch' = [batch EXCEPT ![s] = <<>>]
  /\ delivered' = [delivered EXCEPT ![s] = {}]
  /\ failed' = [failed EXCEPT ![s] = {}]
  /\ UNCHANGED <<attempts, queue, log, stopping, faults>>

\* Mutant of Mark: published_at is not set.
MarkNothing(s) ==
  /\ pc[s] = "mark"
  /\ Goto(s, "poll")
  /\ batch' = [batch EXCEPT ![s] = <<>>]
  /\ delivered' = [delivered EXCEPT ![s] = {}]
  /\ failed' = [failed EXCEPT ![s] = {}]
  /\ UNCHANGED <<table, attempts, queue, log, stopping, faults>>

\* One transaction marks the delivered rows and counts the failed ones.
Mark(s) ==
  /\ pc[s] = "mark"
  /\ table' = [e \in Events |-> IF e \in delivered[s] THEN "published" ELSE table[e]]
  /\ attempts' = [e \in Events |->
       IF e \in failed[s] /\ ReadAttempts(s, e) < MaxAttempts
         THEN ReadAttempts(s, e) + 1 ELSE attempts[e]]
  /\ Goto(s, IF Ends(s) THEN "exited" ELSE "poll")
  /\ batch' = [batch EXCEPT ![s] = <<>>]
  /\ delivered' = [delivered EXCEPT ![s] = {}]
  /\ failed' = [failed EXCEPT ![s] = {}]
  /\ queue' = [queue EXCEPT ![s] = IF Ends(s) THEN <<>> ELSE @]
  /\ UNCHANGED <<log, stopping, faults>>

\* The loop ends, on a signal or with nothing to do under --once.  flush(10) may
\* leave messages behind; they go with the process.
Exit(s) ==
  /\ pc[s] = "poll"
  /\ stopping[s] \/ (s \in OnceRelays /\ Pending = {})
  /\ Goto(s, "exited")
  /\ queue' = [queue EXCEPT ![s] = <<>>]
  /\ UNCHANGED <<table, attempts, log, stopping, batch, delivered, failed, faults>>

-----------------------------------------------------------------------------
(* SIGTERM, the loss of the process at any point, and its Deployment.      *)

Running(s) == pc[s] \notin {"exited", "down"}

Signal(s) ==
  /\ Running(s) /\ ~stopping[s] /\ Fault
  /\ stopping' = [stopping EXCEPT ![s] = TRUE]
  /\ UNCHANGED <<table, attempts, log, pc, batch, queue, delivered, failed>>

Crash(s) ==
  /\ Running(s) /\ Fault
  /\ Goto(s, "down")
  /\ batch' = [batch EXCEPT ![s] = <<>>]
  /\ queue' = [queue EXCEPT ![s] = <<>>]
  /\ delivered' = [delivered EXCEPT ![s] = {}]
  /\ failed' = [failed EXCEPT ![s] = {}]
  /\ UNCHANGED <<table, attempts, log, stopping>>

Begin(s) ==
  /\ ~Running(s)
  /\ Goto(s, "poll")
  /\ stopping' = [stopping EXCEPT ![s] = FALSE]
  /\ UNCHANGED <<table, attempts, log, batch, queue, delivered, failed>>

\* The Deployment starts its one replica again.
Restart(s) == s \notin OnceRelays /\ Begin(s) /\ UNCHANGED faults

\* Somebody runs the command by hand.
Launch(s) == s \in OnceRelays /\ Begin(s) /\ Fault

-----------------------------------------------------------------------------
Drain(s) == Poll(s) \/ Produce(s) \/ Flushed(s) \/ Mark(s) \/ Exit(s)
Broker(s) == BrokerStores(s) \/ BrokerFails(s)
Disturb(s) == Signal(s) \/ Crash(s) \/ Launch(s)

\* Every row has ended and no relay has anything left to do.
Quiet ==
  /\ \A e \in Events : Settled(e)
  /\ Pending = {}
  /\ \A s \in Relays : pc[s] \in {"poll", "exited", "down"} /\ queue[s] = <<>>
  /\ UNCHANGED vars

Next ==
  \/ \E S \in SUBSET Events : Settle(S)
  \/ \E s \in Relays : Drain(s) \/ Broker(s) \/ Disturb(s) \/ Restart(s)
  \/ Quiet

Spec == Init /\ [][Next]_vars

\* The relay's loop keeps running, Kubernetes restarts the Deployment, and the
\* broker answers for every message in time or not.
Fairness ==
  \A s \in Relays : WF_vars(Drain(s)) /\ WF_vars(Broker(s)) /\ WF_vars(Restart(s))
FairSpec == Spec /\ Fairness

-----------------------------------------------------------------------------
TypeOK ==
  /\ table \in [Events -> Rows]
  /\ attempts \in [Events -> 0 .. MaxAttempts]
  /\ log \in [Keys -> Seq(Events)]
  /\ pc \in [Relays -> Places]
  /\ stopping \in [Relays -> BOOLEAN]
  /\ batch \in [Relays -> Seq([event : Events, attempts : 0 .. MaxAttempts])]
  /\ queue \in [Relays -> Seq([event : Events, awaited : BOOLEAN])]
  /\ delivered \in [Relays -> SUBSET Events]
  /\ failed \in [Relays -> SUBSET Events]
  /\ faults \in 0 .. MaxFaults

Stored(e) == Contains(log[KeyOf[e]], e)

\* No event is lost to a mark: what is published, and what a relay is about to
\* mark, was stored by the broker (publish_outbox.py:106-117).
NoEventIsLost ==
  /\ \A e \in Events : table[e] = "published" => Stored(e)
  /\ \A s \in Relays : \A e \in delivered[s] : Stored(e)

\* A report is only counted for the call that produced the message, so a relay
\* never marks, or counts a failure of, a row outside the batch it polled.
ReportsAreOfTheBatch ==
  \A s \in Relays : delivered[s] \cup failed[s] \subseteq InBatch(s)

\* "Ordering holds per entity" (docs/DOMAIN_EVENTS.md:51): a consumer of one key
\* that drops the repeats reads its events in the order of their ids, and
\* misses none of those before the last it has read.
ReadInOrder(k) ==
  \A i \in DOMAIN log[k], e \in Events :
    KeyOf[e] = k /\ e < log[k][i] /\ table[e] # "rolledback"
      => \E j \in 1 .. (i - 1) : log[k][j] = e

\* Whatever crashes, repeats, fails or times out beside it, this holds of every
\* entity whose row is locked by those who write of it, none of whose deliveries
\* fails.
FirstDeliveriesInOrder ==
  \A k \in Keys \ LooseKeys :
    (\A e \in MayFail \cup Poison : KeyOf[e] # k) => ReadInOrder(k)

\* It is promised of every entity.
EveryEntityInOrder == \A k \in Keys : ReadInOrder(k)

\* An event is repeated only after a crash, a signal, a timeout, a failure that
\* was reported of a record that was stored, or a second relay beside the
\* first (publish_outbox.py:8-12, outbox-relay.yaml:8-9).
RepeatsNeedAFault == faults = 0 => \A k \in Keys : IsInjective(log[k])

\* "At least once" (docs/DOMAIN_EVENTS.md:169): every committed event is
\* published in the end, in whatever order transactions and faults fall.
EventuallyPublished ==
  \A e \in Events \ Poison : table[e] = "pending" ~> table[e] = "published"

\* The relay implements the contract.
Contract == INSTANCE AtLeastOnce
KeepsContract == Contract!Spec
=============================================================================

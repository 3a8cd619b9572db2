---------------------------- MODULE PipelineProofs ----------------------------
(***************************************************************************)
(* What Catalog and OutboxRelay guarantee together, for every number of    *)
(* requests, orders, relays and faults: the transactions of the API end as *)
(* the relay assumes, and so a consumer's books balance.                   *)
(***************************************************************************)
EXTENDS Pipeline, CatalogProofs, SequenceTheorems, WellFoundedInduction

\* The theorems about OutboxRelay, of the relay that Pipeline runs.
Proved == INSTANCE RelayProofs
  WITH Events <- Ids, KeyOf <- [e \in Ids |-> 0], LooseKeys <- {}, MayFail <- {},
       Poison <- {}, MaxAttempts <- 0, pc <- place

\* It is the relay they are about, step by step.
LEMMA SameRelay ==
  /\ Relay!Init <=> Proved!Init
  /\ \A S : Relay!Settle(S) <=> Proved!Settle(S)
  /\ \A s : Relay!Drain(s) <=> Proved!Drain(s)
  /\ \A s : Relay!Broker(s) <=> Proved!Broker(s)
  /\ \A s : Relay!Disturb(s) <=> Proved!Disturb(s)
  /\ \A s : Relay!Restart(s) <=> Proved!Restart(s)
<1> USE DEF Relay!Goto, Proved!Goto, Relay!Fault, Proved!Fault, Relay!Range, Proved!Range
<1>1. Relay!Init <=> Proved!Init
  BY DEF Relay!Init, Proved!Init, Relay!Keys, Proved!Keys
<1>2. ASSUME NEW S PROVE Relay!Settle(S) <=> Proved!Settle(S)
  BY DEF Relay!Settle, Proved!Settle, Relay!Settled, Proved!Settled, Relay!relay, Proved!relay
<1>3. ASSUME NEW s PROVE Relay!Drain(s) <=> Proved!Drain(s)
  <2>1. Relay!Poll(s) <=> Proved!Poll(s)
    BY DEF Relay!Poll, Proved!Poll, Relay!Pending, Proved!Pending, Relay!Oldest, Proved!Oldest,
           Relay!BoundedSeq, Proved!BoundedSeq, Relay!SeqOf, Proved!SeqOf
  <2>2. Relay!Produce(s) <=> Proved!Produce(s)
    BY DEF Relay!Produce, Proved!Produce
  <2>3. Relay!Flushed(s) <=> Proved!Flushed(s)
    BY DEF Relay!Flushed, Proved!Flushed
  <2>4. Relay!Mark(s) <=> Proved!Mark(s)
    BY DEF Relay!Mark, Proved!Mark, Relay!Ends, Proved!Ends, Relay!ReadAttempts,
           Proved!ReadAttempts
  <2>5. Relay!Exit(s) <=> Proved!Exit(s)
    BY DEF Relay!Exit, Proved!Exit, Relay!Pending, Proved!Pending
  <2> QED BY <2>1, <2>2, <2>3, <2>4, <2>5 DEF Relay!Drain, Proved!Drain
<1>4. ASSUME NEW s PROVE Relay!Broker(s) <=> Proved!Broker(s)
  BY DEF Relay!Broker, Proved!Broker, Relay!BrokerStores, Proved!BrokerStores,
         Relay!BrokerFails, Proved!BrokerFails, Relay!Heads, Proved!Heads, Relay!Store,
         Proved!Store, Relay!Report, Proved!Report, Relay!RemoveAt, Proved!RemoveAt
<1>5. ASSUME NEW s PROVE (Relay!Disturb(s) <=> Proved!Disturb(s))
                         /\ (Relay!Restart(s) <=> Proved!Restart(s))
  BY DEF Relay!Disturb, Proved!Disturb, Relay!Signal, Proved!Signal, Relay!Crash, Proved!Crash,
         Relay!Launch, Proved!Launch, Relay!Restart, Proved!Restart, Relay!Begin, Proved!Begin,
         Relay!Running, Proved!Running
<1> QED BY <1>1, <1>2, <1>3, <1>4, <1>5

\* What the theorems of OutboxRelay ask of its constants.
LEMMA RelayTyped == Proved!RelayAssumption
BY PipelineAssumption DEF Proved!RelayAssumption, Ids

-----------------------------------------------------------------------------
(* The API ends its rows as the relay assumes.                             *)

\* A row that is not there will be: its id is still to come, or the transaction that
\* raised it still runs.
Open(e) == \E r \in Requests : pc[r] \in Pending /\ \E f \in events[r] : f.id = e
There(e) == \E f \in outbox : f.id = e

AbsentIsComing == \A e \in Ids : table[e] = "absent" => e >= nextId \/ Open(e)

\* What the proofs of Catalog know of every state.
Known == IInv /\ AnnouncedInv

\* What a step of the API leaves of a row, where no event is raised before its transaction
\* can end.
LEMMA RowLeftIs ==
  ASSUME Known', NEW e
  PROVE  RowLeft(e)' = IF There(e)' THEN "pending"
                       ELSE IF e < nextId' /\ ~Open(e)' THEN "rolledback" ELSE "absent"
<1>1. ASSUME NEW r \in Requests, NEW f \in events'[r]
      PROVE  pc'[r] \in InTransaction <=> pc'[r] \in Pending
  <2>1. pc'[r] \notin Silent
    BY <1>1 DEF Known, AnnouncedInv
  <2> QED BY <2>1 DEF Silent, Pending, InTransaction
<1>2. (\E r \in Requests : pc'[r] \in InTransaction /\ \E f \in events'[r] : f.id = e)
        <=> Open(e)'
  BY <1>1 DEF Open
<1> QED BY <1>2 DEF RowLeft, There

\* With one product, its lock leaves one transaction at a time between its events and its
\* end.
LEMMA OneIsOpen ==
  ASSUME Known, NEW r \in Requests, NEW s \in Requests, pc[r] \in Pending, pc[s] \in Pending
  PROVE  r = s
<1>1. job[r].product = TheProduct /\ job[s].product = TheProduct
  BY JobTyped, PipelineAssumption DEF Known, IInv, Pending, TakeJob, RowJob, EditJob
<1> QED BY <1>1, PipelineAssumption DEF Known, IInv, Exclusive, Holds, Locking, Pending

\* Hence an event that is still open is above all that is committed.
LEMMA OpenIsAbove ==
  ASSUME Known, NEW e, Open(e)
  PROVE  e \in Nat /\ e < nextId /\ ~There(e) /\ \A f \in outbox : f.id < e
<1>1. PICK r \in Requests : pc[r] \in Pending /\ \E f \in events[r] : f.id = e
  BY DEF Open
<1> PICK ev \in events[r] : ev.id = e
  BY <1>1
<1>2. ev \in Event /\ outbox \subseteq Event
  BY DEF Known, IInv, TypeOK
<1>3. \A f \in Event : f.id \in Nat /\ f.subject = TheProduct
  BY PipelineAssumption DEF Event, StockEvent
<1>4. e < nextId /\ \A f \in outbox : f.subject = ev.subject => f.id < e
  BY <1>1 DEF Known, IInv, IdsPending, Pending
<1>5. e \in Nat /\ \A f \in outbox : f.id < e
  BY <1>1, <1>2, <1>3, <1>4
<1>6. ~There(e)
  BY <1>5 DEF There
<1> QED BY <1>4, <1>5, <1>6

\* After a step as well.
LEMMA OpenIsAboveAfter ==
  ASSUME NEW CONSTANT e
  PROVE  (Known /\ Open(e) => ~There(e))'
<1>1. Known /\ Open(e) => ~There(e)
  BY OpenIsAbove
<1> QED BY <1>1, PTL

\* The events that are raised have the next ids, each its own, and are open.
LEMMA RaisesTheNext ==
  ASSUME Known, NEW r \in Requests, Raises(r), NEW n, n = nextId
  PROVE  /\ nextId' \in Nat /\ nextId' >= n /\ UNCHANGED outbox
         /\ \A m \in Nat : m >= n /\ m < nextId' => Open(m)'
         /\ \A e : Open(e) => Open(e)'
         /\ \A e : Open(e)' => Open(e) \/ e >= n
<1>1. PICK new \in SUBSET Event :
        /\ IsFiniteSet(new) /\ events' = [events EXCEPT ![r] = new]
        /\ nextId' = nextId + Cardinality(new)
        /\ \A e \in new : e.id >= nextId
        /\ \A m \in Nat : m >= nextId /\ m < nextId + Cardinality(new)
                         => \E e \in new : e.id = m
  BY DEF Raises, emit
<1>2. /\ events'[r] = new /\ pc'[r] \in Pending /\ UNCHANGED outbox
      /\ \A s \in Requests : s # r => events'[s] = events[s] /\ pc'[s] = pc[s]
  BY <1>1 DEF Raises, Known, IInv, TypeOK
<1>3. nextId' \in Nat /\ nextId' >= n
  BY <1>1, FS_CardinalityType DEF Known, IInv, TypeOK
<1>4. pc[r] \notin Pending
  BY DEF Raises, Silent, Pending, Autocommit
<1>5. ASSUME NEW m \in Nat, m >= n, m < nextId' PROVE Open(m)'
  BY <1>1, <1>2, <1>5 DEF Open
<1>6. ASSUME NEW e, Open(e) PROVE Open(e)'
  BY <1>2, <1>4, <1>6 DEF Open
<1>7. ASSUME NEW e, Open(e)' PROVE Open(e) \/ e >= n
  <2>1. PICK s \in Requests : pc'[s] \in Pending /\ \E g \in events'[s] : g.id = e
    BY <1>7 DEF Open
  <2>2. s = r => e >= n
    BY <1>1, <1>2, <2>1
  <2>3. s # r => Open(e)
    BY <1>2, <2>1 DEF Open
  <2> QED BY <2>2, <2>3
<1> QED BY <1>2, <1>3, <1>5, <1>6, <1>7

\* No other step opens one.
LEMMA OthersOpenNone ==
  ASSUME Known, Quiet \/ \E r \in Requests : Commits(r), NEW e, Open(e)'
  PROVE  Open(e)
<1>1. UNCHANGED events /\ \A r \in Requests : pc'[r] \in Pending => pc[r] \in Pending \cup Silent
  <2>1. CASE Quiet
    BY <2>1 DEF Quiet
  <2>2. ASSUME NEW r \in Requests, Commits(r)
        PROVE  UNCHANGED events /\ \A s \in Requests : pc'[s] \in Pending => pc[s] \in Pending
    BY <2>2 DEF Commits, Pending, Known, IInv, TypeOK
  <2> QED BY <2>1, <2>2
<1>2. PICK r \in Requests : pc'[r] \in Pending /\ \E f \in events[r] : f.id = e
  BY <1>1 DEF Open
<1>3. pc[r] \in Pending
  BY <1>1, <1>2 DEF Known, AnnouncedInv
<1> QED BY <1>2, <1>3 DEF Open

\* Of the ids that were given, those whose row is not there are of one transaction.
LEMMA AbsentAreOfOne ==
  ASSUME Known, AbsentIsComing, NEW e \in Ids, table[e] = "absent", e < nextId
  PROVE  \E r \in Requests :
           /\ pc[r] \in Pending
           /\ \A f \in Ids : table[f] = "absent" /\ f < nextId => \E g \in events[r] : g.id = f
<1>1. nextId \in Nat /\ \A f \in Ids : f \in Nat
  BY DEF Known, IInv, TypeOK, Ids
<1>2. PICK r \in Requests : pc[r] \in Pending /\ \E g \in events[r] : g.id = e
  BY <1>1 DEF AbsentIsComing, Open
<1>3. ASSUME NEW f \in Ids, table[f] = "absent", f < nextId PROVE \E g \in events[r] : g.id = f
  <2>1. PICK s \in Requests : pc[s] \in Pending /\ \E g \in events[s] : g.id = f
    BY <1>1, <1>3 DEF AbsentIsComing, Open
  <2> QED BY <1>2, <2>1, OneIsOpen
<1> QED BY <1>2, <1>3

\* They end as one: with the transaction's commit they are there, with its roll back they
\* will never be, and until then they are not.
LEMMA AbsentEndAsOne ==
  ASSUME Known, Known', AbsentIsComing, Quiet \/ \E r \in Requests : Commits(r)
  PROVE  \E left \in {"pending", "rolledback", "absent"} :
           \A f \in Ids : table[f] = "absent" /\ f < nextId => RowLeft(f)' = left
<1>1. CASE \A e \in Ids : ~(table[e] = "absent" /\ e < nextId)
  BY <1>1
<1>2. ASSUME NEW e \in Ids, table[e] = "absent", e < nextId
      PROVE  \E left \in {"pending", "rolledback", "absent"} :
               \A f \in Ids : table[f] = "absent" /\ f < nextId => RowLeft(f)' = left
  <2>1. PICK r \in Requests :
          /\ pc[r] \in Pending
          /\ \A f \in Ids : table[f] = "absent" /\ f < nextId => \E g \in events[r] : g.id = f
    BY <1>2, AbsentAreOfOne
  <2>2. ASSUME NEW f \in Ids, table[f] = "absent", f < nextId PROVE Open(f) /\ ~There(f)
    BY <2>1, <2>2, OpenIsAbove DEF Open
  <2>3. ASSUME NEW s \in Requests, Commits(s), NEW f \in Ids, table[f] = "absent", f < nextId
        PROVE  RowLeft(f)' = "pending"
    <3>1. r = s
      BY <2>1, <2>3, OneIsOpen DEF Commits
    <3>2. There(f)'
      BY <2>1, <2>3, <3>1 DEF Commits, There
    <3> QED BY <3>2, RowLeftIs
  <2>4. ASSUME Quiet, NEW f \in Ids, table[f] = "absent", f < nextId
        PROVE  RowLeft(f)' = IF pc'[r] \in Pending THEN "absent" ELSE "rolledback"
    <3>1. ~There(f)' /\ f < nextId'
      BY <2>2, <2>4 DEF Quiet, There
    <3>2. pc'[r] \in Pending => Open(f)'
      BY <2>1, <2>4 DEF Quiet, Open
    <3>3. Open(f)' => pc'[r] \in Pending
      <4> SUFFICES ASSUME Open(f)' PROVE pc'[r] \in Pending
        OBVIOUS
      <4>1. PICK s \in Requests : pc'[s] \in Pending /\ \E g \in events[s] : g.id = f
        BY <2>4 DEF Quiet, Open
      <4>2. pc[s] \in Pending
        BY <2>4, <4>1 DEF Quiet, Known, AnnouncedInv
      <4> QED BY <2>1, <4>1, <4>2, OneIsOpen
    <3> QED BY <3>1, <3>2, <3>3, RowLeftIs
  <2>5. CASE Quiet
    <3>1. PICK left \in {"absent", "rolledback"} :
            left = IF pc'[r] \in Pending THEN "absent" ELSE "rolledback"
      OBVIOUS
    <3> QED BY <2>4, <2>5, <3>1
  <2>6. CASE \E s \in Requests : Commits(s)
    BY <2>3, <2>6
  <2> QED BY <2>5, <2>6
<1> QED BY <1>1, <1>2

\* A step of the API leaves the table alone, or ends the rows of one transaction, which
\* are next.
LEMMA ApiSettles ==
  ASSUME Known, Known', AbsentIsComing, table = [e \in Ids |-> table[e]], Api(Next)
  PROVE  UNCHANGED <<table, relay>> \/ \E S \in SUBSET Ids : Relay!Settle(S)
<1>1. /\ Next /\ UNCHANGED relay
      /\ table' = [e \in Ids |-> IF table[e] = "absent" THEN RowLeft(e)' ELSE table[e]]
  BY DEF Api
<1>2. /\ nextId \in Nat /\ nextId' \in Nat /\ \A e \in Ids : e \in Nat
      /\ \A f \in outbox' : f.id < nextId' /\ f.id \in Nat
  BY DEF Known, IInv, TypeOK, IdsPending, Ids, Event, StockEvent
<1>3. \A e : RowLeft(e)' = IF There(e)' THEN "pending"
                           ELSE IF e < nextId' /\ ~Open(e)' THEN "rolledback" ELSE "absent"
  BY RowLeftIs
<1>4. ASSUME NEW r \in Requests, Raises(r) PROVE UNCHANGED table
  <2>1. PICK n \in Nat : n = nextId
    BY <1>2
  <2>2. /\ UNCHANGED outbox /\ \A e : Open(e) => Open(e)'
        /\ \A m \in Nat : m >= n /\ m < nextId' => Open(m)'
    BY <1>4, <2>1, RaisesTheNext
  <2>3. ASSUME NEW e \in Ids, table[e] = "absent" PROVE RowLeft(e)' = "absent"
    <3>1. e >= n \/ Open(e)
      BY <2>1, <2>3 DEF AbsentIsComing
    <3>2. ~There(e)
      <4>1. Open(e) => ~There(e)
        BY OpenIsAbove
      <4>2. \A f \in outbox : f.id < n /\ f.id \in Nat
        BY <2>1 DEF Known, IInv, TypeOK, IdsPending, Event, StockEvent
      <4> QED BY <1>2, <2>1, <3>1, <4>1, <4>2 DEF There
    <3>3. ~There(e)'
      BY <2>2, <3>2 DEF There
    <3>4. e < nextId' => Open(e)'
      BY <1>2, <2>2, <3>1
    <3> QED BY <1>3, <3>3, <3>4
  <2> QED BY <1>1, <2>3
<1>5. CASE Quiet \/ \E r \in Requests : Commits(r)
  <2>1. ASSUME NEW e \in Ids, table[e] = "absent", e >= nextId PROVE RowLeft(e)' = "absent"
    <3>1. ~There(e)' /\ ~(e < nextId')
      BY <1>2, <1>5, <2>1 DEF Quiet, Commits, There
    <3> QED BY <1>3, <3>1
  <2>2. PICK left \in {"pending", "rolledback", "absent"} :
          \A f \in Ids : table[f] = "absent" /\ f < nextId => RowLeft(f)' = left
    BY <1>5, AbsentEndAsOne
  <2> DEFINE S == {f \in Ids : table[f] = "absent" /\ f < nextId}
  <2>3. table' = [f \in Ids |-> IF f \in S THEN left ELSE table[f]]
    <3>1. ASSUME NEW f \in Ids
          PROVE  (IF table[f] = "absent" THEN RowLeft(f)' ELSE table[f])
                   = (IF f \in S THEN left ELSE table[f])
      BY <1>2, <2>1, <2>2
    <3> HIDE DEF S
    <3> QED BY <1>1, <3>1
  <2>4. CASE S = {} \/ left = "absent"
    <3>1. ASSUME NEW f \in Ids PROVE table[f] = IF f \in S THEN left ELSE table[f]
      BY <2>4
    <3> HIDE DEF S
    <3>2. UNCHANGED table
      BY <2>3, <3>1
    <3> QED BY <1>1, <3>2
  <2>5. CASE S # {} /\ left # "absent"
    <3>1. \A e \in S : table[e] = "absent"
                      /\ \A f \in Ids : f < e => f \in S \/ table[f] # "absent"
      BY <1>2
    <3>2. S \in SUBSET Ids /\ left \in {"pending", "rolledback"}
      BY <2>5
    <3> HIDE DEF S
    <3>3. \E end \in {"pending", "rolledback"} :
            table' = [f \in Ids |-> IF f \in S THEN end ELSE table[f]]
      BY <2>3, <3>2
    <3>4. Relay!Settle(S)
      BY <1>1, <2>5, <3>1, <3>2, <3>3 DEF Relay!Settle, Relay!Settled, Relay!relay, relay
    <3> QED BY <3>2, <3>4
  <2> QED BY <2>4, <2>5
<1> QED BY <1>1, <1>4, <1>5, StepOfEvents DEF Known

\* Nor does the relay make a row appear or go.
LEMMA RelayStep ==
  ASSUME NEW s \in Relays, Relay!Drain(s) \/ Relay!Broker(s) \/ Relay!Disturb(s)
                             \/ Relay!Restart(s)
  PROVE  UNCHANGED table \/ Relay!Mark(s)
  BY DEF Relay!Drain, Relay!Poll, Relay!Produce, Relay!Flushed, Relay!Exit, Relay!Broker,
         Relay!BrokerStores, Relay!BrokerFails, Relay!Disturb, Relay!Signal, Relay!Crash,
         Relay!Launch, Relay!Restart, Relay!Begin

\* What is known of Catalog is known of Pipeline, whose other steps leave the API alone.
LEMMA CatalogKnown == PipelineSpec => Spec /\ []Known
<1>1. PipelineSpec => Spec
  <2>1. PipelineInit => Init
    BY DEF PipelineInit
  <2>2. [PipelineNext]_everything => [Next]_vars
    BY DEF PipelineNext, Api, Publish, everything
  <2> QED BY <2>1, <2>2, PTL DEF PipelineSpec, Spec
<1>2. Spec => []AnnouncedInv
  BY AnnouncedHolds
<1>3. IInv /\ AnnouncedInv => Known
  BY DEF Known
<1> QED BY <1>1, <1>2, <1>3, Invariance, PTL

\* The rows that are not there are those to come, whoever marks the others.
RowsAwaited == AbsentIsComing /\ table = [e \in Ids |-> table[e]]

\* It is inductive, given what is known of Catalog.
LEMMA RowsAwaitedKeeps ==
  ASSUME Known, Known', RowsAwaited, [PipelineNext]_everything
  PROVE  RowsAwaited'
<1>1. CASE UNCHANGED everything
  BY <1>1 DEF everything, vars, RowsAwaited, AbsentIsComing, Open
<1>2. CASE Api(Next)
  <2>1. table' = [e \in Ids |-> IF table[e] = "absent" THEN RowLeft(e)' ELSE table[e]]
    BY <1>2 DEF Api
  <2>2. ASSUME NEW e \in Ids, table'[e] = "absent" PROVE e >= nextId' \/ Open(e)'
    <3>1. RowLeft(e)' = "absent"
      BY <2>1, <2>2
    <3>2. ~(e < nextId') \/ Open(e)'
      BY <3>1, RowLeftIs
    <3>3. e \in Nat /\ nextId' \in Nat
      BY DEF Ids, Known, IInv, TypeOK
    <3> QED BY <3>2, <3>3
  <2> QED BY <2>1, <2>2 DEF RowsAwaited, AbsentIsComing
<1>3. ASSUME NEW s \in Relays,
             Publish(Relay!Drain(s) \/ Relay!Broker(s) \/ Relay!Disturb(s) \/ Relay!Restart(s))
      PROVE  RowsAwaited'
  <2>1. UNCHANGED table \/ Relay!Mark(s)
    BY <1>3, RelayStep DEF Publish
  <2>2. table' = [e \in Ids |-> table'[e]] /\ \A e \in Ids : table'[e] = "absent" => table[e] = "absent"
    BY <2>1 DEF Relay!Mark, RowsAwaited
  <2>3. UNCHANGED <<nextId, pc, events>>
    BY <1>3 DEF Publish, vars
  <2> QED BY <2>2, <2>3 DEF RowsAwaited, AbsentIsComing, Open
<1> QED BY <1>1, <1>2, <1>3 DEF PipelineNext

\* So it holds in every reachable state.
LEMMA RowsAwaitedHolds == PipelineSpec => []RowsAwaited
<1>1. PipelineInit => RowsAwaited
  <2>1. nextId = 1 => \A e \in Ids : e >= nextId
    BY DEF Ids
  <2> QED BY <2>1 DEF PipelineInit, Init, Relay!Init, RowsAwaited, AbsentIsComing
<1>2. Known /\ Known' /\ RowsAwaited /\ [PipelineNext]_everything => RowsAwaited'
  BY RowsAwaitedKeeps
<1> QED BY <1>1, <1>2, CatalogKnown, PTL DEF PipelineSpec

\* What OutboxRelay assumes of the transactions of the API is what Catalog does: however
\* many requests run, the rows of each end as one, and those of the product in the order
\* of their ids.
THEOREM ApiFeedsIt == PipelineSpec => ApiFeedsRelay
<1>1. PipelineInit => Relay!Init
  BY DEF PipelineInit
<1>2. ASSUME Known, Known', RowsAwaited, [PipelineNext]_everything
      PROVE  [Relay!Next]_Relay!vars
  <2>1. CASE UNCHANGED everything
    BY <2>1 DEF everything, relay, Relay!vars, Relay!relay
  <2>2. CASE Api(Next)
    BY <1>2, <2>2, ApiSettles DEF RowsAwaited, relay, Relay!vars, Relay!relay, Relay!Next
  <2>3. ASSUME NEW s \in Relays, Publish(Relay!Drain(s) \/ Relay!Broker(s) \/ Relay!Disturb(s)
                                         \/ Relay!Restart(s))
        PROVE  Relay!Next
    BY <2>3 DEF Publish, Relay!Next
  <2> QED BY <1>2, <2>1, <2>2, <2>3 DEF PipelineNext
<1>3. PipelineSpec => []Known
  BY CatalogKnown
<1>4. PipelineSpec => []RowsAwaited
  BY RowsAwaitedHolds
<1> QED BY <1>1, <1>2, <1>3, <1>4, PTL DEF PipelineSpec, ApiFeedsRelay, Relay!Spec

-----------------------------------------------------------------------------
(* Where only order lines are written, the events of a product are a       *)
(* chain: each starts from the figure the one before has left.             *)

OnlyLines == Ops \subseteq {"create_line", "update_line", "destroy_line"}

NoProductWrites ==
  \A r \in Requests : pc[r] \notin {"insert", "reread", "write", "commit", "delete"}

\* The ids of events, those that are not committed yet included, start at 1.
IdsArePositive ==
  /\ nextId >= 1 /\ \A e \in outbox : e.id >= 1
  /\ \A r \in Requests : \A e \in events[r] : e.id >= 1

Stock == products[TheProduct].stock
SeedStock == SeedProducts[TheProduct].stock
LastOf(e, S) == e \in S /\ \A f \in S : f.id =< e.id
Earlier(e) == {f \in outbox : f.id < e.id}

Chained ==
  /\ \A e, f \in outbox : e.id = f.id => e = f
  /\ \A e \in outbox :
       IF Earlier(e) = {} THEN e.before = SeedStock
                          ELSE \E f : LastOf(f, Earlier(e)) /\ e.before = f.after
  /\ IF outbox = {} THEN Stock = SeedStock
                    ELSE \E e : LastOf(e, outbox) /\ e.after = Stock

\* A step writes no product, or is the COMMIT of a line.
LEMMA LinesCommit ==
  ASSUME OnlyLines, IInv, NoProductWrites, [Next]_vars
  PROVE  /\ NoProductWrites'
         /\ \/ UNCHANGED <<products, outbox>>
            \/ \E r \in Requests : SaveLine(r) /\ pc'[r] = "ok"
<1> DEFINE Goes(r) == /\ \E next \in Answers \cup {"lock", "take", "line", "write_line",
                                                   "delete_line"} : pc' = [pc EXCEPT ![r] = next]
                      /\ \/ UNCHANGED <<products, outbox>>
                         \/ SaveLine(r) /\ pc'[r] = "ok"
<1>1. CASE UNCHANGED vars
  BY <1>1 DEF vars, NoProductWrites
<1>2. ASSUME NEW r \in Requests, Arrive(r) PROVE Goes(r)
  <2> USE DEF Start, Dismiss, Goto, tables, Answers
  <2>1. ~ProductCreate(r) /\ ~ProductUpdate(r) /\ ~ProductDestroy(r)
    BY DEF ProductCreate, ProductUpdate, ProductDestroy, OnlyLines
  <2>2. LineCreate(r) => Goes(r)
    BY DEF LineCreate
  <2>3. LineUpdate(r) => Goes(r)
    BY DEF LineUpdate
  <2>4. LineDestroy(r) => Goes(r)
    BY DEF LineDestroy
  <2> QED BY <1>2, <2>1, <2>2, <2>3, <2>4 DEF Arrive
<1>3. ASSUME NEW r \in Requests, Step(r) \/ Abort(r) PROVE Goes(r)
  <2> USE DEF Answer, Finish, Goto, tables, Answers
  <2>1. LockStock(r) \/ TakeStock(r) => Goes(r)
    BY DEF LockStock, TakeStock
  <2>2. SaveLine(r) => Goes(r)
    BY DEF SaveLine, CommitProduct, IInv, TypeOK
  <2>3. WriteLine(r) \/ DeleteLine(r) => Goes(r)
    BY DEF WriteLine, DeleteLine
  <2>4. ~InsertProduct(r) /\ ~RereadProduct(r) /\ ~WriteProduct(r) /\ ~Commit(r)
        /\ ~DeleteProduct(r)
    BY DEF InsertProduct, RereadProduct, WriteProduct, Commit, DeleteProduct, NoProductWrites
  <2>5. Abort(r) => Goes(r)
    BY DEF Abort
  <2> QED BY <1>3, <2>1, <2>2, <2>3, <2>4, <2>5 DEF Step
<1>4. ASSUME NEW r \in Requests, Goes(r) PROVE NoProductWrites'
  BY <1>4 DEF NoProductWrites, IInv, TypeOK, Answers
<1>5. UNCHANGED vars => UNCHANGED <<products, outbox>>
  BY DEF vars
<1> QED BY <1>1, <1>2, <1>3, <1>4, <1>5 DEF Next, Terminated

\* Ids only grow.
LEMMA PositiveKeeps ==
  ASSUME IInv, IdsArePositive, [Next]_vars
  PROVE  IdsArePositive'
<1>1. nextId \in Nat
  BY DEF IInv, TypeOK
<1>2. CASE Quiet \/ \E r \in Requests : Commits(r)
  BY <1>2 DEF Quiet, Commits, IdsArePositive
<1>3. ASSUME NEW r \in Requests, Raises(r) PROVE IdsArePositive'
  <2>1. PICK new \in SUBSET Event :
          /\ IsFiniteSet(new) /\ events' = [events EXCEPT ![r] = new]
          /\ nextId' = nextId + Cardinality(new) /\ \A e \in new : e.id >= nextId
    BY <1>3 DEF Raises, emit
  <2>2. Cardinality(new) \in Nat /\ \A e \in Event : e.id \in Nat
    BY <2>1, FS_CardinalityType DEF Event, StockEvent
  <2>3. nextId' >= 1 /\ \A e \in new : e.id >= 1
    BY <1>1, <2>1, <2>2 DEF IdsArePositive
  <2>4. \A s \in Requests : \A e \in events'[s] : e.id >= 1
    BY <2>1, <2>3 DEF IdsArePositive, IInv, TypeOK
  <2> QED BY <1>3, <2>3, <2>4 DEF Raises, IdsArePositive
<1> QED BY <1>2, <1>3, StepOfEvents

\* The COMMIT of a line adds the last link.
LEMMA ChainedKeeps ==
  ASSUME OnlyLines, IInv, NoProductWrites, Chained, [Next]_vars
  PROVE  Chained'
<1>1. CASE UNCHANGED <<products, outbox>>
  BY <1>1 DEF Chained, Stock, LastOf, Earlier
<1>2. ASSUME NEW r \in Requests, SaveLine(r), pc'[r] = "ok" PROVE Chained'
  <2>1. /\ job[r].product = TheProduct /\ products[TheProduct] = seen[r] /\ seen[r] \in Row
        /\ products' = [products EXCEPT ![TheProduct] = [@ EXCEPT !.stock = StockLeft(r)]]
        /\ outbox' = outbox \cup events[r]
        /\ \E id \in Nat :
             events[r] = {product_stock_changed(id, TheProduct, seen[r].stock, StockLeft(r),
                                                job[r].order)}
    BY <1>2, SaveLineCommits, PipelineAssumption
  <2>2. PICK e : events[r] = {e} /\ e.before = Stock /\ e.after = StockLeft(r)
    <3>1. PICK id \in Nat :
            events[r] = {product_stock_changed(id, TheProduct, seen[r].stock, StockLeft(r),
                                               job[r].order)}
      BY <2>1
    <3> DEFINE new == product_stock_changed(id, TheProduct, seen[r].stock, StockLeft(r),
                                            job[r].order)
    <3>2. new.before = Stock /\ new.after = StockLeft(r)
      BY <2>1 DEF product_stock_changed, Stock
    <3>3. events[r] = {new}
      BY <3>1
    <3> HIDE DEF new
    <3> QED BY <3>2, <3>3
  <2>3. Stock' = e.after
    BY <2>1, <2>2, PipelineAssumption DEF Stock, IInv, TypeOK, Row
  <2>4. /\ e.id \in Nat /\ \A f \in outbox : f.id \in Nat /\ f.id < e.id
    <3>1. \A f \in Event : f.id \in Nat /\ f.subject = TheProduct
      BY PipelineAssumption DEF Event, StockEvent
    <3>2. e \in Event /\ outbox \subseteq Event
      BY <2>2 DEF IInv, TypeOK
    <3>3. pc[r] = "line"
      BY <1>2 DEF SaveLine
    <3> QED BY <2>2, <3>1, <3>2, <3>3 DEF IInv, IdsPending
  <2>5. outbox' = outbox \cup {e}
    BY <2>1, <2>2
  <2>6. Earlier(e)' = outbox
    BY <2>4, <2>5 DEF Earlier
  <2>7. \A f \in outbox : Earlier(f)' = Earlier(f)
    BY <2>4, <2>5 DEF Earlier
  <2>8. LastOf(e, outbox')
    BY <2>4, <2>5 DEF LastOf
  <2>9. \A f, g \in outbox' : f.id = g.id => f = g
    BY <2>4, <2>5 DEF Chained
  <2>10. IF Earlier(e)' = {} THEN e.before = SeedStock
         ELSE \E f : LastOf(f, Earlier(e)') /\ e.before = f.after
    BY <2>2, <2>6 DEF Chained
  <2>11. \A f \in outbox' :
           IF Earlier(f)' = {} THEN f.before = SeedStock
           ELSE \E g : LastOf(g, Earlier(f)') /\ f.before = g.after
    BY <2>5, <2>7, <2>10 DEF Chained
  <2>12. IF outbox' = {} THEN Stock' = SeedStock
         ELSE \E f : LastOf(f, outbox') /\ f.after = Stock'
    BY <2>3, <2>5, <2>8
  <2> QED BY <2>9, <2>11, <2>12 DEF Chained, LastOf
<1> QED BY <1>1, <1>2, LinesCommit

\* What is known of the API where only lines are written.
LinesKnown == Known /\ IdsArePositive /\ Chained

\* It is so in every reachable state.
LEMMA LinesHold ==
  ASSUME OnlyLines
  PROVE  PipelineSpec => []LinesKnown
<1>1. Init => NoProductWrites /\ IdsArePositive /\ Chained
  BY DEF Init, NoProductWrites, IdsArePositive, Chained, Stock, SeedStock
<1>2. IInv /\ NoProductWrites /\ IdsArePositive /\ Chained /\ [Next]_vars
      => (NoProductWrites /\ IdsArePositive /\ Chained)'
  BY LinesCommit, PositiveKeeps, ChainedKeeps
<1>3. Known /\ IdsArePositive /\ Chained => LinesKnown
  BY DEF LinesKnown
<1>4. PipelineSpec => Spec /\ []Known
  BY CatalogKnown
<1> QED BY <1>1, <1>2, <1>3, <1>4, Invariance, PTL DEF Spec

-----------------------------------------------------------------------------
(* What is delivered was committed, and in the order of the chain.         *)

\* Pipeline runs the relay that RelayProofs is about.
LEMMA RelayProved == PipelineSpec => Proved!Spec
<1>1. Relay!Init => Proved!Init
  BY SameRelay
<1>2. [Relay!Next]_Relay!vars => [Proved!Next]_Proved!vars
  BY SameRelay DEF Relay!Next, Proved!Next, Relay!Quiet, Relay!vars, Relay!relay, Proved!vars,
                   Proved!relay
<1>3. PipelineSpec => Relay!Spec
  BY ApiFeedsIt DEF ApiFeedsRelay
<1> QED BY <1>1, <1>2, <1>3, PTL DEF Relay!Spec, Proved!Spec

\* A row has ended when its transaction has, and is there for the relay if that committed.
RowsAreThose ==
  \A e \in Ids :
    /\ table[e] # "absent" => e < nextId /\ ~Open(e)
    /\ table[e] \in {"pending", "published"} <=> There(e)

\* It is inductive, given what is known of Catalog and of the relay.
LEMMA RowsAreThoseKeeps ==
  ASSUME Known, Known', Proved!IInv, RowsAreThose, [PipelineNext]_everything
  PROVE  RowsAreThose'
<1>1. CASE UNCHANGED everything
  BY <1>1 DEF everything, vars, RowsAreThose, Open, There
<1>2. CASE Api(Next)
  <2>1. /\ table' = [e \in Ids |-> IF table[e] = "absent" THEN RowLeft(e)' ELSE table[e]]
        /\ [Next]_vars
    BY <1>2 DEF Api
  <2>2. /\ nextId \in Nat /\ nextId' \in Nat /\ \A e \in Ids : e \in Nat
        /\ \A f \in outbox' : f.id < nextId' /\ f.id \in Nat
    BY DEF Known, IInv, TypeOK, IdsPending, Ids, Event, StockEvent
  <2>3. ASSUME NEW e \in Ids, table[e] = "absent"
        PROVE  /\ table'[e] # "absent" => e < nextId' /\ ~Open(e)'
               /\ table'[e] \in {"pending", "published"} <=> There(e)'
    <3>1. table'[e] = IF There(e)' THEN "pending"
                      ELSE IF e < nextId' /\ ~Open(e)' THEN "rolledback" ELSE "absent"
      BY <2>1, <2>3, RowLeftIs
    <3>2. There(e)' => e < nextId' /\ ~Open(e)'
      BY <2>2, OpenIsAboveAfter DEF There
    <3> QED BY <3>1, <3>2
  <2>4. ASSUME NEW e \in Ids, table[e] # "absent"
        PROVE  /\ table'[e] # "absent" => e < nextId' /\ ~Open(e)'
               /\ table'[e] \in {"pending", "published"} <=> There(e)'
    <3>1. table'[e] = table[e] /\ e < nextId /\ ~Open(e)
      BY <2>1, <2>4 DEF RowsAreThose
    <3>2. CASE Quiet \/ \E r \in Requests : Commits(r)
      <4>1. e < nextId' /\ ~Open(e)'
        BY <3>1, <3>2, OthersOpenNone DEF Quiet, Commits
      <4>2. There(e)' <=> There(e)
        <5>1. CASE Quiet
          BY <5>1 DEF Quiet, There
        <5>2. ASSUME NEW r \in Requests, Commits(r) PROVE There(e)' <=> There(e)
          <6>1. outbox' = outbox \cup events[r] /\ \A f \in events[r] : f.id # e
            BY <3>1, <5>2 DEF Commits, Open
          <6> QED BY <6>1 DEF There
        <5> QED BY <3>2, <5>1, <5>2
      <4> QED BY <3>1, <4>1, <4>2 DEF RowsAreThose
    <3>3. ASSUME NEW r \in Requests, Raises(r)
          PROVE  e < nextId' /\ ~Open(e)' /\ (There(e)' <=> There(e))
      <4>1. PICK n \in Nat : n = nextId
        BY <2>2
      <4>2. /\ nextId' \in Nat /\ nextId' >= n /\ UNCHANGED outbox
            /\ Open(e)' => Open(e) \/ e >= n
        BY <3>3, <4>1, RaisesTheNext
      <4> QED BY <2>2, <3>1, <4>1, <4>2 DEF There
    <3> QED BY <2>1, <3>1, <3>2, <3>3, StepOfEvents DEF Known, RowsAreThose
  <2> QED BY <2>3, <2>4 DEF RowsAreThose
<1>3. ASSUME NEW s \in Relays,
             Publish(Relay!Drain(s) \/ Relay!Broker(s) \/ Relay!Disturb(s) \/ Relay!Restart(s))
      PROVE  RowsAreThose'
  <2>1. UNCHANGED table \/ Relay!Mark(s)
    BY <1>3, RelayStep DEF Publish
  <2>2. UNCHANGED <<nextId, pc, events, outbox>>
    BY <1>3 DEF Publish, vars
  <2>3. CASE UNCHANGED table
    BY <2>2, <2>3 DEF RowsAreThose, Open, There
  <2>4. CASE Relay!Mark(s)
    <3>1. table' = [e \in Ids |-> IF e \in delivered[s] THEN "published" ELSE table[e]]
      BY <2>4 DEF Relay!Mark
    <3>2. \A e \in delivered[s] : table[e] \in {"pending", "published"}
      BY DEF Proved!IInv, Proved!ReportsAreOfTheBatch, Proved!InBatch, Proved!OnlyCommitted,
             Proved!Committed
    <3> QED BY <2>2, <3>1, <3>2 DEF RowsAreThose, Open, There
  <2> QED BY <2>1, <2>3, <2>4
<1> QED BY <1>1, <1>2, <1>3 DEF PipelineNext

\* What a consumer has been sent was committed, and each event was sent a first time.
Heard ==
  \A i \in DOMAIN deliveries :
    /\ There(deliveries[i])
    /\ \E j \in Fresh : j =< i /\ deliveries[j] = deliveries[i]

\* The deliveries are a sequence of ids.
LEMMA DeliveriesTyped ==
  ASSUME Proved!IInv
  PROVE  /\ 0 \in Proved!Keys /\ deliveries \in Seq(Ids) /\ Len(deliveries) \in Nat
         /\ DOMAIN deliveries = 1 .. Len(deliveries)
         /\ \A i \in DOMAIN deliveries : deliveries[i] \in Ids
<1>1. 1 \in Ids /\ Proved!Keys = {0}
  BY PipelineAssumption DEF Ids, Proved!Keys
<1>2. deliveries \in Seq(Ids)
  BY <1>1 DEF Proved!IInv, Proved!TypeOK, deliveries
<1>3. \A i \in 1 .. Len(deliveries) : deliveries[i] \in Ids
  BY <1>2, ElementOfSeq
<1> QED BY <1>1, <1>2, <1>3, LenProperties

\* A delivery is one of a row that is there, and is the first of its event or has one
\* before it.
LEMMA HeardKeeps ==
  ASSUME Known, Known', Proved!IInv, RowsAreThose, Heard, [PipelineNext]_everything
  PROVE  Heard'
<1>1. /\ Proved!TypeOK /\ deliveries \in Seq(Ids)
      /\ Len(deliveries) \in Nat /\ DOMAIN deliveries = 1 .. Len(deliveries)
  BY DeliveriesTyped DEF Proved!IInv
<1>2. \A e : There(e) => There(e)'
  <2>1. [Next]_vars
    BY DEF PipelineNext, Api, Publish, everything
  <2>2. outbox \subseteq outbox'
    BY <2>1, StepOfEvents DEF Known, Quiet, Raises, Commits
  <2> QED BY <2>2 DEF There
<1>3. CASE UNCHANGED log
  <2>1. UNCHANGED deliveries
    BY <1>3 DEF deliveries
  <2>2. Fresh' = Fresh
    BY <2>1 DEF Fresh
  <2> QED BY <1>2, <2>1, <2>2 DEF Heard
<1>4. ASSUME NEW e \in Ids, There(e), Proved!Store(e) PROVE Heard'
  <2> DEFINE n == Len(deliveries)
  <2>1. /\ DOMAIN deliveries' = 1 .. (n + 1) /\ deliveries'[n + 1] = e
        /\ \A i \in 1 .. n : deliveries'[i] = deliveries[i]
    <3>1. Proved!Store(e) /\ [f \in Ids |-> 0][e] = 0
      BY <1>4
    <3> QED BY <1>1, <3>1, Proved!StoreKeeps, RelayTyped DEF deliveries
  <2> HIDE DEF n
  <2>2. n \in Nat /\ DOMAIN deliveries = 1 .. n
    BY <1>1 DEF n
  <2>3. Fresh \subseteq Fresh' /\ \A i \in Fresh : i \in 1 .. n
    BY <2>1, <2>2 DEF Fresh
  <2>4. ASSUME NEW i \in 1 .. n
        PROVE  There(deliveries[i])' /\ \E j \in Fresh' : j =< i /\ deliveries'[j] = deliveries'[i]
    <3>1. There(deliveries[i])
      BY <2>2 DEF Heard
    <3>2. PICK j \in Fresh : j =< i /\ deliveries[j] = deliveries[i]
      BY <2>2 DEF Heard
    <3>3. deliveries'[i] = deliveries[i] /\ deliveries'[j] = deliveries[j] /\ j \in Fresh'
      BY <2>1, <2>3
    <3>4. PICK f \in Ids : f = deliveries[i]
      BY <1>1, <2>2, DeliveriesTyped
    <3>5. There(f)'
      BY <1>2, <3>1, <3>4
    <3>6. There(deliveries[i])'
      BY <3>3, <3>4, <3>5 DEF There
    <3> QED BY <2>3, <3>2, <3>3, <3>6
  <2>5. \E j \in Fresh' : j =< n + 1 /\ deliveries'[j] = e
    <3>1. ASSUME NEW h \in 1 .. n, deliveries'[h] = e
          PROVE  \E j \in Fresh' : j =< n + 1 /\ deliveries'[j] = e
      <4>1. PICK j \in Fresh' : j =< h /\ deliveries'[j] = deliveries'[h]
        BY <2>4
      <4>2. j \in 1 .. (n + 1)
        BY <2>1 DEF Fresh
      <4> QED BY <3>1, <4>1, <4>2
    <3>2. CASE \A h \in 1 .. n : deliveries'[h] # e
      BY <2>1, <2>2, <3>2 DEF Fresh
    <3> QED BY <3>1, <3>2
  <2>6. There(e)'
    BY <1>2, <1>4
  <2>7. ASSUME NEW i \in DOMAIN deliveries'
        PROVE  (There(deliveries[i]) /\ \E j \in Fresh : j =< i /\ deliveries[j] = deliveries[i])'
    <3>1. i \in 1 .. n \/ i = n + 1
      BY <2>1, <2>2, <2>7
    <3>2. CASE i = n + 1
      <4>1. There(deliveries[i])'
        BY <2>1, <2>6, <3>2 DEF There
      <4> QED BY <2>1, <2>5, <3>2, <4>1
    <3> QED BY <2>4, <3>1, <3>2
  <2> QED BY <2>7 DEF Heard
<1>5. CASE Api(Next)
  BY <1>3, <1>5 DEF Api, relay
<1>6. CASE UNCHANGED everything
  BY <1>3, <1>6 DEF everything, relay
<1>7. ASSUME NEW s \in Relays,
             Publish(Relay!Drain(s) \/ Relay!Broker(s) \/ Relay!Disturb(s) \/ Relay!Restart(s))
      PROVE  Heard'
  <2>1. UNCHANGED log \/ Relay!Broker(s)
    BY <1>7 DEF Publish, Relay!Drain, Relay!Poll, Relay!Produce, Relay!Flushed, Relay!Mark,
       Relay!Exit, Relay!Disturb, Relay!Signal, Relay!Crash, Relay!Launch, Relay!Restart,
       Relay!Begin
  <2>2. CASE Proved!Broker(s)
    <3>1. PICK i \in DOMAIN queue[s] : UNCHANGED log \/ Proved!Store(queue[s][i].event)
      BY <2>2 DEF Proved!Broker, Proved!BrokerStores, Proved!BrokerFails, Proved!Heads
    <3>2. PICK e \in Ids : e = queue[s][i].event /\ table[e] \in {"pending", "published"}
      BY RelayTyped, Proved!Typed DEF Proved!IInv, Proved!OnlyCommitted, Proved!Committed
    <3> QED BY <1>3, <1>4, <3>1, <3>2 DEF RowsAreThose
  <2> QED BY <1>3, <2>1, <2>2, SameRelay
<1> QED BY <1>5, <1>6, <1>7 DEF PipelineNext

\* What a consumer that drops repeats is left with: committed events, each after those of
\* lower ids.
LEMMA HeardInOrder ==
  ASSUME LinesKnown, Proved!IInv, Proved!FirstDeliveriesInOrder, RowsAreThose, Heard
  PROVE  /\ \A i \in DOMAIN deliveries : \A e \in Ids : There(e) /\ e < deliveries[i]
              => \E h \in Fresh : h < i /\ deliveries[h] = e
         /\ \A i, j \in Fresh : j < i => deliveries[j] < deliveries[i]
         /\ \A i \in Fresh : \E e \in outbox : e.id = deliveries[i]
         /\ \A i \in Fresh : \A e \in outbox : e.id = deliveries[i] => EventAt(i) = e
<1>1. /\ deliveries \in Seq(Ids) /\ Len(deliveries) \in Nat
      /\ DOMAIN deliveries = 1 .. Len(deliveries)
      /\ \A i \in DOMAIN deliveries : deliveries[i] \in Ids
  BY DeliveriesTyped
<1>2. \A e \in Ids : e \in Nat
  BY DEF Ids
<1>3. outbox \subseteq Event /\ \A f \in outbox : f.id \in Nat /\ f.id >= 1
  BY DEF LinesKnown, Known, IInv, TypeOK, IdsArePositive, Event, StockEvent
\* Of two events the one with the lower id comes first.
<1>4. ASSUME NEW i \in DOMAIN deliveries, NEW e \in Ids, There(e), e < deliveries[i]
      PROVE  \E h \in Fresh : h < i /\ deliveries[h] = e
  <2>1. table[e] # "rolledback"
    BY <1>4 DEF RowsAreThose
  <2>2. \E h \in 1 .. (i - 1) : deliveries[h] = e
    <3>1. 0 \in Proved!Keys
      BY PipelineAssumption DEF Ids, Proved!Keys
    <3>2. Proved!ReadInOrder(0)
      BY <3>1 DEF Proved!FirstDeliveriesInOrder
    <3> QED BY <1>4, <2>1, <3>2 DEF Proved!ReadInOrder, deliveries
  <2>3. PICK h \in 1 .. (i - 1) : deliveries[h] = e
    BY <2>2
  <2>4. h \in DOMAIN deliveries /\ h < i /\ i \in Nat
    BY <1>1
  <2>5. PICK j \in Fresh : j =< h /\ deliveries[j] = deliveries[h]
    BY <2>4 DEF Heard
  <2>6. j \in Nat /\ j < i
    BY <1>1, <2>4, <2>5 DEF Fresh
  <2> QED BY <2>3, <2>5, <2>6
<1>5. ASSUME NEW i \in Fresh, NEW j \in Fresh, j < i
      PROVE  deliveries[j] < deliveries[i]
  <2>1. i \in 1 .. Len(deliveries) /\ j \in 1 .. (i - 1) /\ deliveries[j] # deliveries[i]
    BY <1>1, <1>5 DEF Fresh
  <2>2. ~(deliveries[i] < deliveries[j])
    <3> SUFFICES ASSUME deliveries[i] < deliveries[j] PROVE FALSE
      OBVIOUS
    <3>1. PICK h \in Fresh : h < j /\ deliveries[h] = deliveries[i]
      BY <1>1, <1>4, <2>1 DEF Heard
    <3>2. h \in 1 .. (i - 1)
      BY <1>1, <2>1, <3>1 DEF Fresh
    <3> QED BY <3>1, <3>2 DEF Fresh
  <2>3. deliveries[i] \in Nat /\ deliveries[j] \in Nat
    BY <1>1, <1>2, <2>1
  <2> QED BY <2>1, <2>2, <2>3
<1>6. ASSUME NEW i \in Fresh PROVE \E e \in outbox : e.id = deliveries[i]
  BY DEF Fresh, Heard, There
<1>7. ASSUME NEW i \in Fresh, NEW e \in outbox, e.id = deliveries[i] PROVE EventAt(i) = e
  BY <1>7 DEF EventAt, LinesKnown, Chained
<1> QED BY <1>4, <1>5, <1>6, <1>7

\* Then it meets the chain from its start, one link after the other.
LEMMA HeardIsChained ==
  ASSUME LinesKnown, Proved!IInv, Proved!FirstDeliveriesInOrder, RowsAreThose, Heard
  PROVE  ConsumersBooksBalance
<1>1. /\ deliveries \in Seq(Ids) /\ Len(deliveries) \in Nat
      /\ DOMAIN deliveries = 1 .. Len(deliveries)
      /\ \A i \in DOMAIN deliveries : deliveries[i] \in Ids
  BY DeliveriesTyped
<1>2. \A e \in Ids : e \in Nat
  BY DEF Ids
<1>3. outbox \subseteq Event /\ \A f \in outbox : f.id \in Nat /\ f.id >= 1
  BY DEF LinesKnown, Known, IInv, TypeOK, IdsArePositive, Event, StockEvent
<1>4. ASSUME NEW i \in DOMAIN deliveries, NEW e \in Ids, There(e), e < deliveries[i]
      PROVE  \E h \in Fresh : h < i /\ deliveries[h] = e
  BY <1>4, HeardInOrder
<1>5. ASSUME NEW i \in Fresh, NEW j \in Fresh, j < i
      PROVE  deliveries[j] < deliveries[i]
  BY <1>5, HeardInOrder
<1>6. ASSUME NEW i \in Fresh PROVE \E e \in outbox : e.id = deliveries[i]
  BY HeardInOrder
<1>7. ASSUME NEW i \in Fresh, NEW e \in outbox, e.id = deliveries[i] PROVE EventAt(i) = e
  BY <1>7, HeardInOrder
<1>8. ASSUME NEW i \in Fresh
      PROVE  EventAt(i).before = IF \E j \in Fresh : j < i
                                   THEN EventAt(Max({j \in Fresh : j < i})).after ELSE SeedStock
  <2>1. PICK e \in outbox : e.id = deliveries[i] /\ EventAt(i) = e
    BY <1>6, <1>7
  <2>2. i \in DOMAIN deliveries /\ e.id \in Ids /\ e.id <= LastId
    BY <1>1, <2>1 DEF Fresh, Ids
  <2>3. \A f \in outbox : f.id < e.id => f.id \in Ids /\ There(f.id)
    BY <1>3, <2>2, PipelineAssumption DEF Ids, There
  <2>4. CASE Earlier(e) = {}
    <3>1. e.before = SeedStock
      BY <2>4 DEF LinesKnown, Chained
    <3>2. ~\E j \in Fresh : j < i
      <4>1. ASSUME NEW j \in Fresh, j < i PROVE FALSE
        <5>1. PICK f \in outbox : f.id = deliveries[j]
          BY <1>6
        <5> QED BY <1>5, <2>1, <2>4, <4>1, <5>1 DEF Earlier
      <4> QED BY <4>1
    <3> QED BY <2>1, <3>1, <3>2
  <2>5. CASE Earlier(e) # {}
    <3>1. PICK f : LastOf(f, Earlier(e)) /\ e.before = f.after
      BY <2>5 DEF LinesKnown, Chained
    <3>2. f \in outbox /\ f.id < e.id /\ \A g \in outbox : g.id < e.id => g.id =< f.id
      BY <3>1 DEF LastOf, Earlier
    <3>3. PICK j \in Fresh : j < i /\ deliveries[j] = f.id
      BY <1>4, <2>1, <2>2, <2>3, <3>2
    <3>4. EventAt(j) = f
      BY <1>7, <3>2, <3>3
    <3> DEFINE S == {k \in Fresh : k < i}
    <3>5. ASSUME NEW k \in S PROVE k =< j
      <4>1. deliveries[k] < deliveries[i] /\ k \in Nat /\ j \in Nat
        BY <1>1, <1>5 DEF Fresh
      <4>2. PICK g \in outbox : g.id = deliveries[k]
        BY <1>6
      <4>3. deliveries[k] =< deliveries[j]
        BY <2>1, <3>2, <3>3, <4>1, <4>2
      <4>4. j < k => deliveries[j] < deliveries[k]
        BY <1>5
      <4>5. deliveries[k] \in Nat /\ deliveries[j] \in Nat
        BY <1>1, <1>2 DEF Fresh
      <4> QED BY <4>1, <4>3, <4>4, <4>5
    <3>6. j \in S /\ \A k \in S : k \in Nat
      BY <1>1, <3>3 DEF Fresh
    <3>7. Max(S) = j
      <4> HIDE DEF S
      <4>1. ASSUME NEW x \in S, \A y \in S : x >= y PROVE x = j
        BY <3>5, <3>6, <4>1
      <4>2. \A y \in S : j >= y
        BY <3>5, <3>6
      <4> QED BY <3>6, <4>1, <4>2 DEF Max
    <3> QED BY <2>1, <3>1, <3>3, <3>4, <3>7
  <2> QED BY <2>4, <2>5
<1> QED BY <1>6, <1>8 DEF ConsumersBooksBalance, SeedStock

\* Everything that was committed has been read.
AllRead == \A e \in outbox : \E i \in DOMAIN deliveries : deliveries[i] = e.id

\* And the last link is the stock.
LEMMA HeardIsStock ==
  ASSUME LinesKnown, Proved!IInv, Proved!FirstDeliveriesInOrder, RowsAreThose, Heard, AllRead
  PROVE  Believed = Stock
<1>1. DOMAIN deliveries = 1 .. Len(deliveries) /\ Len(deliveries) \in Nat
  BY DeliveriesTyped
<1>2. \A f \in outbox : f.id \in Nat
  BY DEF LinesKnown, Known, IInv, TypeOK, Event, StockEvent
<1>3. CASE outbox = {}
  <2>1. Fresh = {}
    BY <1>3, HeardInOrder
  <2> QED BY <1>3, <2>1 DEF Believed, LinesKnown, Chained, SeedStock
<1>4. CASE outbox # {}
  <2>1. PICK e : LastOf(e, outbox) /\ e.after = Stock
    BY <1>4 DEF LinesKnown, Chained
  <2>2. e \in outbox /\ \A f \in outbox : f.id =< e.id
    BY <2>1 DEF LastOf
  <2>3. PICK i \in DOMAIN deliveries : deliveries[i] = e.id
    BY <2>2 DEF AllRead
  <2>4. PICK j \in Fresh : deliveries[j] = e.id
    BY <2>3 DEF Heard
  <2>5. EventAt(j) = e
    BY <2>2, <2>4, HeardInOrder
  <2>6. \A k \in Fresh : k \in Nat
    BY <1>1 DEF Fresh
  <2>7. ASSUME NEW k \in Fresh PROVE k =< j
    <3>1. PICK f \in outbox : f.id = deliveries[k]
      BY HeardInOrder
    <3>2. ~(deliveries[j] < deliveries[k])
      BY <1>2, <2>2, <2>4, <3>1
    <3>3. j < k => deliveries[j] < deliveries[k]
      BY HeardInOrder
    <3> QED BY <2>6, <3>2, <3>3
  <2>8. Max(Fresh) = j
    <3>1. ASSUME NEW x \in Fresh, \A y \in Fresh : x >= y PROVE x = j
      BY <2>6, <2>7, <3>1
    <3>2. \A y \in Fresh : j >= y
      BY <2>6, <2>7
    <3> QED BY <3>1, <3>2 DEF Max
  <2> QED BY <2>1, <2>4, <2>5, <2>8 DEF Believed
<1> QED BY <1>3, <1>4

\* All of that is so in every reachable state.
HeardInv ==
  /\ LinesKnown /\ Proved!IInv /\ Proved!FirstDeliveriesInOrder /\ RowsAreThose /\ Heard

\* Where only order lines are written.
LEMMA HeardHolds ==
  ASSUME OnlyLines
  PROVE  PipelineSpec => []HeardInv
<1>1. PipelineInit => RowsAreThose /\ Heard
  <2>1. ASSUME PipelineInit PROVE RowsAreThose
    BY <2>1 DEF PipelineInit, Init, Relay!Init, RowsAreThose, There
  <2>2. ASSUME PipelineInit PROVE Heard
    <3>1. 0 \in Relay!Keys
      BY PipelineAssumption DEF Ids, Relay!Keys
    <3>2. deliveries = <<>>
      BY <2>2, <3>1 DEF PipelineInit, Relay!Init, deliveries
    <3> QED BY <3>2 DEF Heard
  <2> QED BY <2>1, <2>2
<1>2. /\ Known /\ Known' /\ Proved!IInv /\ RowsAreThose /\ Heard
      /\ [PipelineNext]_everything
      => RowsAreThose' /\ Heard'
  BY RowsAreThoseKeeps, HeardKeeps
<1>3. PipelineSpec => []LinesKnown
  BY LinesHold
<1>4. LinesKnown => Known
  BY DEF LinesKnown
<1>5. PipelineSpec => []Proved!IInv
  BY RelayProved, RelayTyped, Proved!Invariance, PTL
<1>6. PipelineSpec => []Proved!FirstDeliveriesInOrder
  BY RelayProved, RelayTyped, Proved!EntitiesAreInOrder, PTL
<1>7. /\ LinesKnown /\ Proved!IInv /\ Proved!FirstDeliveriesInOrder /\ RowsAreThose /\ Heard
      => HeardInv
  BY DEF HeardInv
<1> QED BY <1>1, <1>2, <1>3, <1>4, <1>5, <1>6, <1>7, PTL DEF PipelineSpec

\* "Each movement starts from the figure the one before left": where only order lines are
\* written, a consumer's books balance, whatever is refused, rolled back, repeated, lost
\* with a relay or timed out (stock.py:55-71, publish_outbox.py:88-111).
THEOREM BooksBalance ==
  ASSUME Ops \subseteq {"create_line", "update_line", "destroy_line"}
  PROVE  PipelineSpec => []ConsumersBooksBalance
<1> OnlyLines
  BY DEF OnlyLines
<1>1. HeardInv => ConsumersBooksBalance
  BY HeardIsChained DEF HeardInv
<1> QED BY <1>1, HeardHolds, PTL

\* What ConsumerCatchesUp rests on: a consumer that has read all that was committed
\* believes the stock that is, whatever was refused, rolled back or repeated on the way.
THEOREM ReadingAllIsEnough ==
  ASSUME Ops \subseteq {"create_line", "update_line", "destroy_line"}
  PROVE  PipelineSpec => [](AllRead => Believed = products[TheProduct].stock)
<1> OnlyLines
  BY DEF OnlyLines
<1>1. HeardInv => (AllRead => Believed = products[TheProduct].stock)
  BY HeardIsStock DEF HeardInv, Stock
<1> QED BY <1>1, HeardHolds, PTL
-----------------------------------------------------------------------------
(* The sum over a finite set.  The library chooses a function that takes   *)
(* one element after the other; that there is one, and that the order does *)
(* not matter, is shown by a least counterexample.                         *)

\* The order of the naturals, as a relation.
LessThan == {ss \in Nat \X Nat : ss[1] < ss[2]}

\* A set of naturals has a least.
LEMMA NaturalsHaveAMin ==
  ASSUME NEW S \in SUBSET Nat, S # {}
  PROVE  \E n \in S : \A m \in S : n =< m
<1>1. IsWellFoundedOn(LessThan, Nat)
  BY NatLessThanWellFounded DEF OpToRel, LessThan
<1>2. PICK n \in S : \A m \in S : <<m, n>> \notin LessThan
  BY <1>1, WFMin
<1>3. ASSUME NEW m \in S PROVE n =< m
  <2>1. <<m, n>> \in Nat \X Nat /\ <<m, n>>[1] = m /\ <<m, n>>[2] = n
    OBVIOUS
  <2>2. ~(m < n)
    BY <1>2, <2>1 DEF LessThan
  <2> QED BY <2>2
<1> QED BY <1>3

\* Of finite sets there is one of the least cardinality.
LEMMA FiniteSetsHaveASmallest ==
  ASSUME NEW F, F # {}, \A s \in F : IsFiniteSet(s)
  PROVE  \E s \in F : \A t \in F : Cardinality(s) =< Cardinality(t)
<1> DEFINE N == {Cardinality(s) : s \in F}
<1>1. N \in SUBSET Nat /\ N # {}
  BY FS_CardinalityType
<1>2. PICK n \in N : \A m \in N : n =< m
  <2> HIDE DEF N
  <2> QED BY <1>1, NaturalsHaveAMin
<1> QED BY <1>2

\* What is summed, over a set, by the definition of the library: an element and the others.
Quantity(l) == l.quantity
Any(s) == CHOOSE x \in s : TRUE
IsSum(g, S) ==
  g = [s \in SUBSET S |-> IF s = {} THEN 0 ELSE Quantity(Any(s)) + g[s \ {Any(s)}]]
Sum(S) == MapThenSumSet(LAMBDA l : l.quantity, S)

\* It is the function that the library chooses, at the whole set.
LEMMA SumIs == ASSUME NEW S PROVE Sum(S) = (CHOOSE g : IsSum(g, S))[S]
BY DEF Sum, MapThenSumSet, MapThenFoldSet, IsSum, Any, Quantity

\* A finite set that loses an element is finite and has one less.
LEMMA Less ==
  ASSUME NEW s, IsFiniteSet(s), NEW x \in s
  PROVE  /\ IsFiniteSet(s \ {x}) /\ Cardinality(s) \in Nat /\ Cardinality(s \ {x}) \in Nat
         /\ Cardinality(s \ {x}) = Cardinality(s) - 1
BY FS_RemoveElement, FS_CardinalityType

\* The same recursion on the sets of n elements or less.
UpTo(n, S) == {s \in SUBSET S : Cardinality(s) =< n}
IsSumUpTo(g, n, S) ==
  g = [s \in UpTo(n, S) |-> IF s = {} THEN 0 ELSE Quantity(Any(s)) + g[s \ {Any(s)}]]

\* It has a solution for every n: else take the least n for which it has none, and extend
\* the solution for n - 1.
LEMMA SumUpToExists ==
  ASSUME NEW S, IsFiniteSet(S), NEW n \in Nat
  PROVE  \E g : IsSumUpTo(g, n, S)
<1> DEFINE Bad == {m \in Nat : ~\E g : IsSumUpTo(g, m, S)}
<1> SUFFICES ASSUME Bad # {} PROVE FALSE
  OBVIOUS
<1>1. PICK m \in Bad : \A k \in Bad : m =< k
  <2>1. Bad \in SUBSET Nat
    OBVIOUS
  <2> HIDE DEF Bad
  <2> QED BY <2>1, NaturalsHaveAMin
<1>2. m \in Nat /\ ~\E g : IsSumUpTo(g, m, S)
  OBVIOUS
<1>3. ASSUME NEW s \in SUBSET S PROVE IsFiniteSet(s) /\ Cardinality(s) \in Nat
  BY FS_Subset, FS_CardinalityType
<1>4. ASSUME NEW s, s # {} PROVE Any(s) \in s
  BY <1>4 DEF Any
<1>5. CASE m = 0
  <2>1. \A s \in UpTo(0, S) : s = {}
    BY <1>3, FS_EmptySet DEF UpTo
  <2> DEFINE g == [s \in UpTo(0, S) |-> 0]
  <2>2. g = [s \in UpTo(0, S) |-> IF s = {} THEN 0 ELSE Quantity(Any(s)) + g[s \ {Any(s)}]]
    BY <2>1
  <2> QED BY <1>2, <1>5, <2>2 DEF IsSumUpTo
<1>6. CASE m # 0
  <2>1. m - 1 \in Nat /\ m - 1 \notin Bad
    BY <1>1, <1>6
  <2>2. PICK h : IsSumUpTo(h, m - 1, S)
    BY <2>1
  <2> DEFINE g == [s \in UpTo(m, S) |-> IF s = {} THEN 0 ELSE Quantity(Any(s)) + h[s \ {Any(s)}]]
  <2>3. \A s \in UpTo(m - 1, S) :
          h[s] = IF s = {} THEN 0 ELSE Quantity(Any(s)) + h[s \ {Any(s)}]
    BY <2>2 DEF IsSumUpTo
  <2>4. ASSUME NEW s \in UpTo(m - 1, S) PROVE s \in UpTo(m, S) /\ g[s] = h[s]
    <3>1. s \in UpTo(m, S)
      BY <1>3 DEF UpTo
    <3> QED BY <2>3, <3>1
  <2>5. ASSUME NEW s \in UpTo(m, S), s # {} PROVE s \ {Any(s)} \in UpTo(m - 1, S)
    <3>1. Any(s) \in s /\ s \in SUBSET S /\ Cardinality(s) =< m
      BY <1>4, <2>5 DEF UpTo
    <3> QED BY <1>3, <3>1, Less DEF UpTo
  <2>6. \A s \in UpTo(m, S) :
          (IF s = {} THEN 0 ELSE Quantity(Any(s)) + h[s \ {Any(s)}])
            = (IF s = {} THEN 0 ELSE Quantity(Any(s)) + g[s \ {Any(s)}])
    <3> HIDE DEF g
    <3> QED BY <2>4, <2>5
  <2>7. g = [s \in UpTo(m, S) |-> IF s = {} THEN 0 ELSE Quantity(Any(s)) + g[s \ {Any(s)}]]
    BY <2>6
  <2> QED BY <1>2, <2>7 DEF IsSumUpTo
<1> QED BY <1>5, <1>6

\* Hence for all the subsets of a finite set.
LEMMA SumExists ==
  ASSUME NEW S, IsFiniteSet(S)
  PROVE  \E g : IsSum(g, S) /\ Sum(S) = g[S]
<1>1. Cardinality(S) \in Nat
  BY FS_CardinalityType
<1>2. UpTo(Cardinality(S), S) = SUBSET S
  BY FS_Subset DEF UpTo
<1>3. \E g : IsSum(g, S)
  <2>1. PICK n \in Nat : n = Cardinality(S)
    BY <1>1
  <2>2. PICK g : IsSumUpTo(g, n, S)
    BY SumUpToExists
  <2>3. UpTo(n, S) = SUBSET S
    BY <1>2, <2>1
  <2>4. IsSum(g, S)
    BY <2>2, <2>3 DEF IsSum, IsSumUpTo
  <2> QED BY <2>4
<1>4. IsSum(CHOOSE g : IsSum(g, S), S)
  BY <1>3
<1> QED BY <1>4, SumIs

\* Two solutions agree where both are defined.
LEMMA SumsAgree ==
  ASSUME NEW S, IsFiniteSet(S), NEW T, NEW g, NEW h, IsSum(g, S), IsSum(h, T),
         NEW s \in SUBSET S, s \subseteq T
  PROVE  g[s] = h[s]
<1> DEFINE Bad == {t \in SUBSET S : t \subseteq T /\ g[t] # h[t]}
<1> SUFFICES ASSUME Bad # {} PROVE FALSE
  OBVIOUS
<1>1. PICK t \in Bad : \A u \in Bad : Cardinality(t) =< Cardinality(u)
  <2>1. \A u \in Bad : IsFiniteSet(u)
    BY FS_Subset
  <2> HIDE DEF Bad
  <2> QED BY <2>1, FiniteSetsHaveASmallest
<1>2. /\ g[t] = IF t = {} THEN 0 ELSE Quantity(Any(t)) + g[t \ {Any(t)}]
      /\ h[t] = IF t = {} THEN 0 ELSE Quantity(Any(t)) + h[t \ {Any(t)}]
  BY DEF IsSum
<1>3. t # {} /\ g[t \ {Any(t)}] # h[t \ {Any(t)}]
  BY <1>2
<1>4. Any(t) \in t
  BY <1>3 DEF Any
<1>5. t \ {Any(t)} \in Bad
  BY <1>3
<1>6. IsFiniteSet(t)
  BY FS_Subset
<1> QED BY <1>1, <1>4, <1>5, <1>6, Less

\* So a sum is that of one element and the others.
LEMMA SumOfAny ==
  ASSUME NEW S, IsFiniteSet(S), S # {}
  PROVE  Any(S) \in S /\ Sum(S) = Quantity(Any(S)) + Sum(S \ {Any(S)})
<1>1. Any(S) \in S
  BY DEF Any
<1> DEFINE T == S \ {Any(S)}
<1>2. IsFiniteSet(T)
  BY <1>1, Less
<1>3. PICK g : IsSum(g, S) /\ Sum(S) = g[S]
  BY SumExists
<1>4. PICK h : IsSum(h, T) /\ Sum(T) = h[T]
  BY <1>2, SumExists
<1>5. g[T] = h[T]
  BY <1>3, <1>4, SumsAgree
<1>6. g[S] = Quantity(Any(S)) + g[T]
  BY <1>3 DEF IsSum
<1> QED BY <1>1, <1>3, <1>4, <1>5, <1>6

\* The sum over no elements.
LEMMA SumOfNone == Sum({}) = 0
<1>1. PICK g : IsSum(g, {}) /\ Sum({}) = g[{}]
  BY FS_EmptySet, SumExists
<1> QED BY <1>1 DEF IsSum

\* Each element has a quantity.
Quantified(S) == \A l \in S : Quantity(l) \in Int

\* It is a number.
LEMMA SumTyped ==
  ASSUME NEW S, IsFiniteSet(S), Quantified(S)
  PROVE  Sum(S) \in Int
<1> DEFINE Bad == {t \in SUBSET S : Sum(t) \notin Int}
<1> SUFFICES ASSUME Bad # {} PROVE FALSE
  OBVIOUS
<1>1. PICK t \in Bad : \A u \in Bad : Cardinality(t) =< Cardinality(u)
  <2>1. \A u \in Bad : IsFiniteSet(u)
    BY FS_Subset
  <2> HIDE DEF Bad
  <2> QED BY <2>1, FiniteSetsHaveASmallest
<1>2. IsFiniteSet(t) /\ t \in SUBSET S /\ Sum(t) \notin Int
  BY FS_Subset
<1>3. t # {}
  BY <1>2, SumOfNone
<1>4. Any(t) \in t /\ Sum(t) = Quantity(Any(t)) + Sum(t \ {Any(t)})
  BY <1>2, <1>3, SumOfAny
<1>5. t \ {Any(t)} \in Bad
  BY <1>2, <1>4 DEF Quantified
<1>6. /\ Cardinality(t) \in Nat /\ Cardinality(t \ {Any(t)}) \in Nat
      /\ Cardinality(t \ {Any(t)}) = Cardinality(t) - 1
  BY <1>2, <1>4, Less
<1>7. Cardinality(t) =< Cardinality(t \ {Any(t)})
  BY <1>1, <1>5
<1> QED BY <1>6, <1>7

\* Whichever that element is.
LEMMA SumWithout ==
  ASSUME NEW S, IsFiniteSet(S), Quantified(S), NEW x \in S
  PROVE  Sum(S) = Quantity(x) + Sum(S \ {x})
<1> DEFINE Bad == {t \in SUBSET S : \E y \in t : Sum(t) # Quantity(y) + Sum(t \ {y})}
<1> SUFFICES ASSUME Bad # {} PROVE FALSE
  OBVIOUS
<1>1. PICK t \in Bad : \A u \in Bad : Cardinality(t) =< Cardinality(u)
  <2>1. \A u \in Bad : IsFiniteSet(u)
    BY FS_Subset
  <2> HIDE DEF Bad
  <2> QED BY <2>1, FiniteSetsHaveASmallest
<1>2. IsFiniteSet(t) /\ t \in SUBSET S
  BY FS_Subset
<1>3. PICK y \in t : Sum(t) # Quantity(y) + Sum(t \ {y})
  OBVIOUS
<1>4. PICK a \in t : Sum(t) = Quantity(a) + Sum(t \ {a})
  BY <1>2, SumOfAny
<1>5. a # y
  BY <1>3, <1>4
<1>6. ASSUME NEW z \in t, NEW v \in t \ {z}
      PROVE  Sum(t \ {z}) = Quantity(v) + Sum((t \ {z}) \ {v})
  <2>1. /\ Cardinality(t) \in Nat /\ Cardinality(t \ {z}) \in Nat
        /\ Cardinality(t \ {z}) = Cardinality(t) - 1
    BY <1>2, Less
  <2>2. ~(Cardinality(t) =< Cardinality(t \ {z}))
    BY <2>1
  <2>3. t \ {z} \notin Bad
    BY <1>1, <2>2
  <2> QED BY <1>2, <2>3
<1>7. /\ Sum(t \ {a}) = Quantity(y) + Sum((t \ {a}) \ {y})
      /\ Sum(t \ {y}) = Quantity(a) + Sum((t \ {y}) \ {a})
  BY <1>5, <1>6
<1>8. (t \ {a}) \ {y} = (t \ {y}) \ {a}
  OBVIOUS
<1>9. Quantity(a) \in Int /\ Quantity(y) \in Int /\ Sum((t \ {a}) \ {y}) \in Int
  <2>1. IsFiniteSet((t \ {a}) \ {y}) /\ Quantified((t \ {a}) \ {y})
    BY <1>2, FS_Subset DEF Quantified
  <2> QED BY <1>2, <2>1, SumTyped DEF Quantified
<1>10. PICK m \in Int, n \in Int, rest \in Int :
         m = Quantity(a) /\ n = Quantity(y) /\ rest = Sum((t \ {a}) \ {y})
  BY <1>9
<1>11. Sum(t) = m + (n + rest) /\ n + Sum(t \ {y}) = n + (m + rest)
  BY <1>4, <1>7, <1>8, <1>10
<1>12. Sum(t) = Quantity(y) + Sum(t \ {y})
  BY <1>10, <1>11
<1> QED BY <1>3, <1>12

\* What a new element adds.
LEMMA SumWith ==
  ASSUME NEW S, IsFiniteSet(S), Quantified(S), NEW x, x \notin S, Quantity(x) \in Int
  PROVE  /\ IsFiniteSet(S \cup {x}) /\ Quantified(S \cup {x})
         /\ Sum(S \cup {x}) = Quantity(x) + Sum(S)
<1>1. IsFiniteSet(S \cup {x}) /\ Quantified(S \cup {x})
  BY FS_AddElement DEF Quantified
<1>2. (S \cup {x}) \ {x} = S
  OBVIOUS
<1> QED BY <1>1, <1>2, SumWithout

-----------------------------------------------------------------------------
(* Where lines are only created, they promise the pieces stock has lost.   *)

\* The requests' own lines.
Mine == {l \in orderdetails : l.id \in Requests}

OnlyCreates == Ops \subseteq {"create_line"}

\* Requests are at the statements of an order take; a line of a request is there only when
\* it was answered ok, and the stock that is left and what the lines promise add up.
PiecesInv ==
  /\ \A r \in Requests : pc[r] \in {"new", "lock", "take", "line"} \cup Answers
  /\ \A l \in Mine : pc[l.id] = "ok"
  /\ IsFiniteSet(Mine)
  /\ Stock = SeedStock - Sum(Mine)

\* A step writes neither table, or is the COMMIT of a line of a request that had none.
LEMMA CreatesCommit ==
  ASSUME OnlyCreates, IInv, PiecesInv, [Next]_vars, ~UNCHANGED vars
  PROVE  \E r \in Requests :
           /\ pc[r] \notin Answers
           /\ \E next \in {"lock", "take", "line"} \cup Answers : pc' = [pc EXCEPT ![r] = next]
           /\ UNCHANGED <<products, orderdetails>> \/ (SaveLine(r) /\ pc'[r] = "ok")
<1> DEFINE Goes(r) ==
      /\ pc[r] \notin Answers
      /\ \E next \in {"lock", "take", "line"} \cup Answers : pc' = [pc EXCEPT ![r] = next]
      /\ UNCHANGED <<products, orderdetails>> \/ (SaveLine(r) /\ pc'[r] = "ok")
<1>1. ASSUME NEW r \in Requests, Arrive(r) PROVE Goes(r)
  <2> USE DEF Start, Dismiss, Goto, tables, Answers
  <2>1. ~LineUpdate(r) /\ ~LineDestroy(r) /\ ~ProductCreate(r) /\ ~ProductUpdate(r)
        /\ ~ProductDestroy(r)
    BY DEF LineUpdate, LineDestroy, ProductCreate, ProductUpdate, ProductDestroy, OnlyCreates
  <2>2. LineCreate(r) => Goes(r)
    BY DEF LineCreate
  <2> QED BY <1>1, <2>1, <2>2 DEF Arrive
<1>2. ASSUME NEW r \in Requests, Step(r) \/ Abort(r) PROVE Goes(r)
  <2> USE DEF Answer, Finish, Goto, tables, Answers
  <2>1. LockStock(r) \/ TakeStock(r) => Goes(r)
    BY DEF LockStock, TakeStock
  <2>2. SaveLine(r) => Goes(r)
    BY DEF SaveLine, CommitProduct, IInv, TypeOK
  <2>3. /\ ~WriteLine(r) /\ ~DeleteLine(r) /\ ~InsertProduct(r) /\ ~RereadProduct(r)
        /\ ~WriteProduct(r) /\ ~Commit(r) /\ ~DeleteProduct(r)
    BY DEF WriteLine, DeleteLine, InsertProduct, RereadProduct, WriteProduct, Commit,
           DeleteProduct, PiecesInv
  <2>4. Abort(r) => Goes(r)
    BY DEF Abort, InTransaction, Autocommit
  <2> QED BY <1>2, <2>1, <2>2, <2>3, <2>4 DEF Step
<1> QED BY <1>1, <1>2 DEF Next, Terminated

\* The line that is inserted promises what its transaction takes from stock.
LEMMA PiecesKeep ==
  ASSUME OnlyCreates, IInv, PiecesInv, [Next]_vars
  PROVE  PiecesInv'
<1>1. CASE UNCHANGED vars
  <2>1. UNCHANGED Mine
    BY <1>1 DEF vars, tables, Mine
  <2> QED BY <1>1, <2>1 DEF vars, tables, PiecesInv, Stock
<1>2. CASE ~UNCHANGED vars
  <2>1. PICK r \in Requests :
          /\ pc[r] \notin Answers
          /\ \E next \in {"lock", "take", "line"} \cup Answers : pc' = [pc EXCEPT ![r] = next]
          /\ UNCHANGED <<products, orderdetails>> \/ (SaveLine(r) /\ pc'[r] = "ok")
    BY <1>2, CreatesCommit
  <2>2. \A s \in Requests : /\ pc'[s] \in {"new", "lock", "take", "line"} \cup Answers
                            /\ pc[s] = "ok" => pc'[s] = "ok"
    BY <2>1 DEF PiecesInv, IInv, TypeOK, Answers
  <2>3. CASE UNCHANGED <<products, orderdetails>>
    <3>1. UNCHANGED Mine /\ UNCHANGED Stock
      BY <2>3 DEF Mine, Stock
    <3>2. \A l \in Mine : pc'[l.id] = "ok"
      BY <2>2 DEF PiecesInv, Mine
    <3> QED BY <2>2, <3>1, <3>2 DEF PiecesInv
  <2>4. CASE SaveLine(r) /\ pc'[r] = "ok"
    <3> DEFINE line == [id |-> r, order |-> job[r].order, product |-> job[r].product,
                        quantity |-> job[r].quantity]
    <3>1. /\ job[r].product = TheProduct /\ job[r] \in TakeJob
          /\ products[TheProduct] = seen[r] /\ seen[r] \in Row /\ line \notin orderdetails
          /\ products' = [products EXCEPT ![TheProduct] = [@ EXCEPT !.stock = StockLeft(r)]]
      BY <2>4, SaveLineCommits, PipelineAssumption
    <3>2. orderdetails' = orderdetails \cup {line}
      <4>1. pc' = [pc EXCEPT ![r] = "failed"] => pc'[r] = "failed"
        BY DEF IInv, TypeOK
      <4> QED BY <2>4, <4>1 DEF SaveLine, Answer, Finish, Goto
    <3>3. Mine' = Mine \cup {line} /\ line \notin Mine
      BY <3>1, <3>2 DEF Mine
    <3>4. Quantity(line) = job[r].quantity /\ job[r].quantity \in Int /\ seen[r].stock \in Int
      BY <3>1, CatalogAssumption DEF Quantity, TakeJob, Row, StockRange
    <3>5. IsFiniteSet(Mine) /\ Quantified(Mine)
      BY CatalogAssumption DEF PiecesInv, Mine, IInv, TypeOK, Quantified, Quantity, Line
    <3>6. PICK q \in Int : q = job[r].quantity
      BY <3>4
    <3>7. IsFiniteSet(Mine') /\ Sum(Mine)' = q + Sum(Mine)
      <4> HIDE DEF line
      <4>1. IsFiniteSet(Mine \cup {line}) /\ Sum(Mine \cup {line}) = q + Sum(Mine)
        BY <3>3, <3>4, <3>5, <3>6, SumWith
      <4> QED BY <3>3, <4>1
    <3>8. Stock = seen[r].stock /\ Stock' = seen[r].stock - q
      <4>1. products \in [Products -> Row \cup {NoRow}] /\ TheProduct \in Products
        BY PipelineAssumption DEF IInv, TypeOK
      <4>2. products'[TheProduct].stock = StockLeft(r)
        BY <3>1, <4>1 DEF Row
      <4> QED BY <3>1, <3>6, <4>2 DEF Stock, StockLeft
    <3>9. SeedStock \in Int /\ Sum(Mine) \in Int
      BY <3>5, SumTyped, SeedAssumption DEF SeedStock, Row, StockRange
    <3>10. Stock' = SeedStock - Sum(Mine)'
      BY <3>4, <3>7, <3>8, <3>9 DEF PiecesInv
    <3>11. \A l \in Mine' : pc'[l.id] = "ok"
      BY <2>2, <2>4, <3>3 DEF PiecesInv, Mine
    <3> QED BY <2>2, <3>7, <3>10, <3>11 DEF PiecesInv
  <2> QED BY <2>1, <2>3, <2>4
<1> QED BY <1>1, <1>2

\* No units "vanish from the books" (stock.py:9-16): lines that are only created promise
\* exactly the pieces that stock has lost, whatever number of requests is refused, fails
\* half-way or races for the last piece.
THEOREM PiecesConserved ==
  ASSUME Ops \subseteq {"create_line"}
  PROVE  PipelineSpec => []PiecesAreConserved
<1> OnlyCreates
  BY DEF OnlyCreates
<1>1. ASSUME Init PROVE PiecesInv
  <2>1. Mine = {}
    BY <1>1, SeedAssumption DEF Init, Mine
  <2>2. SeedStock \in Int /\ Stock = SeedStock
    BY <1>1, SeedAssumption DEF Init, Stock, SeedStock, Row, StockRange
  <2>3. Stock = SeedStock - Sum(Mine)
    BY <2>1, <2>2, SumOfNone
  <2> QED BY <1>1, <2>1, <2>3, FS_EmptySet DEF Init, PiecesInv
<1>2. IInv /\ PiecesInv /\ [Next]_vars => PiecesInv'
  BY PiecesKeep
<1>3. PiecesInv => PiecesAreConserved
  BY DEF PiecesInv, PiecesAreConserved, Promised, Sum, Mine, Stock, SeedStock
<1>4. PipelineSpec => Spec
  BY CatalogKnown
<1> QED BY <1>1, <1>2, <1>3, <1>4, Invariance, PTL DEF Spec
===============================================================================

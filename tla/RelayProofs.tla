----------------------------- MODULE RelayProofs -----------------------------
(***************************************************************************)
(* What OutboxRelay guarantees for every number of relays, events, keys,   *)
(* every batch size and any number of faults.  IInv says what a relay's    *)
(* queue and batch may hold; InOrder is what the order of a partition      *)
(* rests on; Calm is what holds while nothing has gone wrong.              *)
(***************************************************************************)
EXTENDS OutboxRelay, SequenceTheorems, TLAPS

\* A relay that is not inside _drain has no batch, and no reports.
IdleIsEmpty ==
  \A s \in Relays :
    /\ pc[s] \notin {"produce", "flush", "mark"} => batch[s] = <<>>
    /\ pc[s] \notin {"flush", "mark"} => delivered[s] = {} /\ failed[s] = {}

\* What a relay has read or produced was committed.
Committed(e) == table[e] \in {"pending", "published"}

OnlyCommitted ==
  \A s \in Relays :
    /\ \A i \in DOMAIN batch[s] : Committed(batch[s][i].event)
    /\ \A i \in DOMAIN queue[s] : Committed(queue[s][i].event)

\* A message whose report counts was produced by the call that is flushing.
AwaitedIsOfTheBatch ==
  \A s \in Relays : \A i \in DOMAIN queue[s] :
    queue[s][i].awaited => pc[s] = "flush" /\ queue[s][i].event \in InBatch(s)

IInv ==
  /\ TypeOK /\ IdleIsEmpty /\ OnlyCommitted /\ AwaitedIsOfTheBatch
  /\ NoEventIsLost /\ ReportsAreOfTheBatch

-----------------------------------------------------------------------------
(* Sequences                                                               *)

\* Removing a message keeps the order of the others.
LEMMA RemoveAtProperties ==
  ASSUME NEW S, NEW q \in Seq(S), NEW i \in DOMAIN q
  PROVE  /\ RemoveAt(q, i) \in Seq(S)
         /\ Len(RemoveAt(q, i)) = Len(q) - 1
         /\ DOMAIN RemoveAt(q, i) = 1 .. (Len(q) - 1)
         /\ \A j \in 1 .. (Len(q) - 1) :
              RemoveAt(q, i)[j] = IF j < i THEN q[j] ELSE q[j + 1]
<1> DEFINE a == SubSeq(q, 1, i - 1)
           b == SubSeq(q, i + 1, Len(q))
<1>1. /\ Len(q) \in Nat /\ i \in 1 .. Len(q)
      /\ \A j \in 1 .. Len(q) : q[j] \in S
  BY LenProperties, ElementOfSeq
<1>2. /\ a \in Seq(S) /\ Len(a) = i - 1
      /\ \A j \in 1 .. (i - 1) : a[j] = q[j]
  <2>1. /\ a \in Seq(S) /\ Len(a) = IF 1 <= i - 1 THEN i - 1 - 1 + 1 ELSE 0
        /\ \A j \in 1 .. (i - 1 - 1 + 1) : a[j] = q[1 + j - 1]
    BY <1>1, SubSeqProperties
  <2> HIDE DEF a
  <2> QED BY <1>1, <2>1
<1>3. /\ b \in Seq(S) /\ Len(b) = Len(q) - i
      /\ \A j \in 1 .. (Len(q) - i) : b[j] = q[i + j]
  <2>1. /\ b \in Seq(S) /\ Len(b) = IF i + 1 <= Len(q) THEN Len(q) - (i + 1) + 1 ELSE 0
        /\ \A j \in 1 .. (Len(q) - (i + 1) + 1) : b[j] = q[i + 1 + j - 1]
    BY <1>1, SubSeqProperties
  <2> HIDE DEF b
  <2> QED BY <1>1, <2>1
<1>4. RemoveAt(q, i) = a \o b
  BY DEF RemoveAt
<1> HIDE DEF a, b
<1>5. /\ a \o b \in Seq(S) /\ Len(a \o b) = Len(a) + Len(b)
      /\ \A j \in 1 .. Len(a) + Len(b) :
           (a \o b)[j] = IF j <= Len(a) THEN a[j] ELSE b[j - Len(a)]
  BY <1>2, <1>3, ConcatProperties
<1>6. Len(a) + Len(b) = Len(q) - 1
  BY <1>1, <1>2, <1>3
<1>7. DOMAIN (a \o b) = 1 .. (Len(q) - 1)
  BY <1>5, <1>6, LenProperties
<1>8. ASSUME NEW j \in 1 .. (Len(q) - 1)
      PROVE  (a \o b)[j] = IF j < i THEN q[j] ELSE q[j + 1]
  <2>1. (a \o b)[j] = IF j <= Len(a) THEN a[j] ELSE b[j - Len(a)]
    BY <1>5, <1>6
  <2>2. CASE j < i
    BY <1>1, <1>2, <2>1, <2>2
  <2>3. CASE ~(j < i)
    <3>1. j - Len(a) \in 1 .. (Len(q) - i) /\ i + (j - Len(a)) = j + 1 /\ ~(j <= Len(a))
      BY <1>1, <1>2, <2>3
    <3> QED BY <2>1, <3>1, <1>3, <2>3
  <2> QED BY <2>2, <2>3
<1> QED BY <1>4, <1>5, <1>6, <1>7, <1>8

\* A store adds one delivery and keeps those there are.
LEMMA StoreKeeps ==
  ASSUME TypeOK, NEW e \in Events, Store(e)
  PROVE  /\ log' \in [Keys -> Seq(Events)]
         /\ Stored(e)'
         /\ \A f \in Events : Stored(f) => Stored(f)'
         /\ \A f \in Events : Stored(f)' => Stored(f) \/ f = e
         /\ \A k \in Keys : k # KeyOf[e] => log'[k] = log[k]
         /\ LET k == KeyOf[e] IN
            /\ k \in Keys
            /\ DOMAIN log'[k] = 1 .. (Len(log[k]) + 1)
            /\ DOMAIN log[k] = 1 .. Len(log[k]) /\ Len(log[k]) \in Nat
            /\ \A i \in 1 .. Len(log[k]) : log'[k][i] = log[k][i]
            /\ log'[k][Len(log[k]) + 1] = e
<1> DEFINE k == KeyOf[e]
<1>1. /\ k \in Keys /\ log[k] \in Seq(Events)
      /\ log' = [log EXCEPT ![k] = Append(log[k], e)]
      /\ \A f \in Events : KeyOf[f] \in Keys
  BY DEF TypeOK, Keys, Store
<1>2. /\ log'[k] = Append(log[k], e)
      /\ \A l \in Keys : l # k => log'[l] = log[l]
  BY <1>1 DEF TypeOK
<1>3. /\ Append(log[k], e) \in Seq(Events)
      /\ Len(Append(log[k], e)) = Len(log[k]) + 1
      /\ \A i \in 1 .. Len(log[k]) : Append(log[k], e)[i] = log[k][i]
      /\ Append(log[k], e)[Len(log[k]) + 1] = e
  BY <1>1, AppendProperties
<1>4. /\ Len(log[k]) \in Nat /\ DOMAIN log[k] = 1 .. Len(log[k])
      /\ DOMAIN log'[k] = 1 .. (Len(log[k]) + 1)
      /\ Len(log'[k]) = Len(log[k]) + 1
  BY <1>1, <1>2, <1>3, LenProperties
<1>5. log' \in [Keys -> Seq(Events)]
  BY <1>1, <1>3 DEF TypeOK
<1> HIDE DEF k
<1>6. Stored(e)'
  BY <1>2, <1>3, <1>4 DEF Stored, Contains, k
<1>7. ASSUME NEW f \in Events PROVE /\ Stored(f) => Stored(f)'
                                    /\ Stored(f)' => Stored(f) \/ f = e
  <2>1. CASE KeyOf[f] # k
    BY <2>1, <1>1, <1>2 DEF Stored, Contains
  <2>2. CASE KeyOf[f] = k
    <3>1. Stored(f) <=> \E i \in 1 .. Len(log[k]) : log[k][i] = f
      BY <2>2 DEF Stored, Contains
    <3>2. Stored(f)' <=> \E i \in 1 .. (Len(log[k]) + 1) : log'[k][i] = f
      BY <2>2, <1>4 DEF Stored, Contains
    <3>3. \A i \in 1 .. (Len(log[k]) + 1) : i \in 1 .. Len(log[k]) \/ i = Len(log[k]) + 1
      BY <1>4
    <3>4. \A i \in 1 .. Len(log[k]) : i \in 1 .. (Len(log[k]) + 1)
      BY <1>4
    <3> QED BY <3>1, <3>2, <3>3, <3>4, <1>2, <1>3
  <2> QED BY <2>1, <2>2
<1> QED BY <1>1, <1>2, <1>3, <1>4, <1>5, <1>6, <1>7 DEF k

-----------------------------------------------------------------------------
(* IInv is inductive                                                       *)

\* Initially nothing has been written, polled or stored.
LEMMA InitIInv == Init => IInv
<1> SUFFICES ASSUME Init PROVE IInv
  OBVIOUS
<1>1. TypeOK
  <2>1. \A T : <<>> \in Seq(T)
    BY EmptySeq
  <2> QED BY <2>1, RelayAssumption DEF Init, TypeOK, Rows, Places, Keys
<1>2. IdleIsEmpty /\ OnlyCommitted /\ AwaitedIsOfTheBatch
  BY DEF Init, IdleIsEmpty, OnlyCommitted, AwaitedIsOfTheBatch
<1>3. NoEventIsLost /\ ReportsAreOfTheBatch
  BY DEF Init, NoEventIsLost, ReportsAreOfTheBatch
<1> QED BY <1>1, <1>2, <1>3 DEF IInv

\* The batch and queue of a relay, by position.
LEMMA Typed ==
  ASSUME TypeOK, NEW s \in Relays
  PROVE  /\ batch[s] \in Seq([event : Events, attempts : 0 .. MaxAttempts])
         /\ Len(batch[s]) \in Nat /\ DOMAIN batch[s] = 1 .. Len(batch[s])
         /\ \A i \in DOMAIN batch[s] : /\ batch[s][i].event \in Events
                                       /\ batch[s][i].attempts \in 0 .. MaxAttempts
         /\ queue[s] \in Seq([event : Events, awaited : BOOLEAN])
         /\ Len(queue[s]) \in Nat /\ DOMAIN queue[s] = 1 .. Len(queue[s])
         /\ \A i \in DOMAIN queue[s] : /\ queue[s][i].event \in Events
                                       /\ queue[s][i].awaited \in BOOLEAN
<1> DEFINE Row == [event : Events, attempts : 0 .. MaxAttempts]
           Message == [event : Events, awaited : BOOLEAN]
<1>1. batch[s] \in Seq(Row) /\ queue[s] \in Seq(Message)
  BY DEF TypeOK
<1>2. \A x \in Row : x.event \in Events /\ x.attempts \in 0 .. MaxAttempts
  OBVIOUS
<1>3. \A x \in Message : x.event \in Events /\ x.awaited \in BOOLEAN
  OBVIOUS
<1> HIDE DEF Row, Message
<1>4. /\ Len(batch[s]) \in Nat /\ DOMAIN batch[s] = 1 .. Len(batch[s])
      /\ \A i \in DOMAIN batch[s] : batch[s][i] \in Row
  BY <1>1, LenProperties, ElementOfSeq
<1>5. /\ Len(queue[s]) \in Nat /\ DOMAIN queue[s] = 1 .. Len(queue[s])
      /\ \A i \in DOMAIN queue[s] : queue[s][i] \in Message
  BY <1>1, LenProperties, ElementOfSeq
<1> QED BY <1>1, <1>2, <1>3, <1>4, <1>5 DEF Row, Message

\* A transaction of the API ends: what was committed stays so.
LEMMA SettleKeeps ==
  ASSUME IInv, NEW S \in SUBSET Events, Settle(S)
  PROVE  IInv'
<1> USE DEF IInv
<1>1. /\ \A e \in S : table[e] = "absent" /\ table'[e] # "published"
      /\ table' \in [Events -> Rows]
      /\ \A f \in Events \ S : table'[f] = table[f]
      /\ UNCHANGED <<attempts, log, pc, stopping, batch, queue, delivered, failed, faults>>
  BY DEF Settle, Settled, relay, TypeOK, Rows
<1>2. TypeOK'
  BY <1>1 DEF TypeOK
<1>3. \A f \in Events : Committed(f) => Committed(f)'
  BY <1>1 DEF Committed
<1>4. OnlyCommitted'
  BY <1>1, <1>3, Typed DEF OnlyCommitted
<1>5. IdleIsEmpty' /\ AwaitedIsOfTheBatch' /\ ReportsAreOfTheBatch'
  BY <1>1 DEF IdleIsEmpty, AwaitedIsOfTheBatch, ReportsAreOfTheBatch, InBatch
<1>6. NoEventIsLost'
  BY <1>1 DEF NoEventIsLost, Stored, TypeOK
<1> QED BY <1>2, <1>4, <1>5, <1>6

\* What a poll reads: pending rows, by position, with their attempts.
LEMMA PollReads ==
  ASSUME TypeOK, NEW s \in Relays, Poll(s)
  PROVE  \E ids \in BoundedSeq(Pending, BatchSize) :
           /\ Oldest(ids, BatchSize)
           /\ ids \in Seq(Pending) /\ DOMAIN ids = 1 .. Len(ids) /\ Len(ids) \in Nat
           /\ \A i \in DOMAIN ids : ids[i] \in Events /\ table[ids[i]] = "pending"
           /\ DOMAIN batch'[s] = DOMAIN ids
           /\ \A i \in DOMAIN ids : batch'[s][i].event = ids[i]
           /\ batch' \in [Relays -> Seq([event : Events, attempts : 0 .. MaxAttempts])]
           /\ \A t \in Relays : t # s => batch'[t] = batch[t]
<1>1. PICK ids \in BoundedSeq(Pending, BatchSize) :
        /\ Oldest(ids, BatchSize)
        /\ batch' = [batch EXCEPT ![s] =
             [i \in DOMAIN ids |-> [event |-> ids[i], attempts |-> attempts[ids[i]]]]]
  BY DEF Poll
<1>2. PICK n \in 0 .. BatchSize : ids \in [1 .. n -> Pending]
  BY DEF BoundedSeq, SeqOf
<1>3. n \in Nat /\ ids \in Seq(Pending)
  BY <1>2, RelayAssumption, SeqDef
<1>4. DOMAIN ids = 1 .. Len(ids) /\ Len(ids) \in Nat
  BY <1>3, LenProperties
<1>5. \A i \in DOMAIN ids : ids[i] \in Events /\ table[ids[i]] = "pending"
  BY <1>2 DEF Pending
<1> DEFINE rows == [i \in DOMAIN ids |-> [event |-> ids[i], attempts |-> attempts[ids[i]]]]
<1>6. rows \in Seq([event : Events, attempts : 0 .. MaxAttempts])
  <2>1. rows \in [1 .. n -> [event : Events, attempts : 0 .. MaxAttempts]]
    BY <1>2, <1>5 DEF TypeOK
  <2> QED BY <2>1, <1>3, SeqDef
<1>7. batch'[s] = rows /\ \A t \in Relays : t # s => batch'[t] = batch[t]
  BY <1>1 DEF TypeOK
<1>8. batch' \in [Relays -> Seq([event : Events, attempts : 0 .. MaxAttempts])]
  <2> HIDE DEF rows
  <2>1. batch' = [batch EXCEPT ![s] = rows]
    BY <1>1 DEF rows
  <2> QED BY <2>1, <1>6 DEF TypeOK
<1> QED BY <1>1, <1>3, <1>4, <1>5, <1>7, <1>8

\* _drain reads its batch: pending rows.
LEMMA PollKeeps ==
  ASSUME IInv, NEW s \in Relays, Poll(s)
  PROVE  IInv'
<1> USE DEF IInv
<1>1. PICK ids \in BoundedSeq(Pending, BatchSize) :
        /\ \A i \in DOMAIN ids : table[ids[i]] = "pending"
        /\ DOMAIN batch'[s] = DOMAIN ids
        /\ \A i \in DOMAIN ids : batch'[s][i].event = ids[i]
        /\ batch' \in [Relays -> Seq([event : Events, attempts : 0 .. MaxAttempts])]
        /\ \A t \in Relays : t # s => batch'[t] = batch[t]
  BY PollReads
<1>2. /\ pc[s] = "poll" /\ pc' = [pc EXCEPT ![s] = "produce"]
      /\ UNCHANGED <<table, attempts, log, stopping, queue, delivered, failed, faults>>
  BY DEF Poll, Goto
<1>3. TypeOK'
  BY <1>1, <1>2 DEF TypeOK, Places
<1>4. IdleIsEmpty'
  BY <1>1, <1>2 DEF IdleIsEmpty, TypeOK
<1>5. OnlyCommitted'
  <2>1. ASSUME NEW t \in Relays PROVE \A i \in DOMAIN batch'[t] : Committed(batch'[t][i].event)
    <3>1. CASE t = s
      BY <1>1, <3>1 DEF Committed
    <3>2. CASE t # s
      BY <1>1, <3>2 DEF OnlyCommitted
    <3> QED BY <3>1, <3>2
  <2>2. \A e : Committed(e)' <=> Committed(e)
    BY <1>2 DEF Committed
  <2>3. \A t \in Relays : \A i \in DOMAIN queue'[t] : Committed(queue'[t][i].event)
    BY <1>2 DEF OnlyCommitted
  <2> QED BY <2>1, <2>2, <2>3 DEF OnlyCommitted
<1>6. AwaitedIsOfTheBatch'
  <2>1. \A i \in DOMAIN queue[s] : ~queue[s][i].awaited
    BY <1>2 DEF AwaitedIsOfTheBatch
  <2>2. \A t \in Relays : t # s => InBatch(t)' = InBatch(t) /\ pc'[t] = pc[t]
    BY <1>1, <1>2 DEF InBatch, TypeOK
  <2>3. \A t \in Relays : \A i \in DOMAIN queue[t] : queue[t][i].awaited =>
          t # s /\ pc[t] = "flush" /\ queue[t][i].event \in InBatch(t)
    BY <2>1 DEF AwaitedIsOfTheBatch
  <2> QED BY <2>2, <2>3, <1>2 DEF AwaitedIsOfTheBatch
<1>7. NoEventIsLost'
  BY <1>2 DEF NoEventIsLost, Stored
<1>8. ReportsAreOfTheBatch'
  <2>1. delivered[s] = {} /\ failed[s] = {}
    BY <1>2 DEF IdleIsEmpty
  <2>2. \A t \in Relays : t # s => InBatch(t)' = InBatch(t)
    BY <1>1 DEF InBatch
  <2> QED BY <2>1, <2>2, <1>2 DEF ReportsAreOfTheBatch
<1> QED BY <1>3, <1>4, <1>5, <1>6, <1>7, <1>8

\* The queue after produce(): what was left in it, then the batch.
LEMMA ProduceAppends ==
  ASSUME TypeOK, NEW s \in Relays, Produce(s)
  PROVE  LET n == Len(queue[s])
             m == Len(batch[s])
         IN /\ n \in Nat /\ m \in Nat
            /\ DOMAIN queue[s] = 1 .. n /\ DOMAIN batch[s] = 1 .. m
            /\ queue' \in [Relays -> Seq([event : Events, awaited : BOOLEAN])]
            /\ \A t \in Relays : t # s => queue'[t] = queue[t]
            /\ DOMAIN queue'[s] = 1 .. (n + m)
            /\ \A i \in 1 .. n : queue'[s][i] = queue[s][i]
            /\ \A i \in 1 .. m : queue'[s][n + i].event = batch[s][i].event
<1> DEFINE new == [i \in DOMAIN batch[s] |-> [event |-> batch[s][i].event, awaited |-> TRUE]]
           Message == [event : Events, awaited : BOOLEAN]
           n == Len(queue[s])
           m == Len(batch[s])
<1>1. /\ n \in Nat /\ m \in Nat /\ DOMAIN queue[s] = 1 .. n /\ DOMAIN batch[s] = 1 .. m
      /\ \A i \in 1 .. m : batch[s][i].event \in Events
      /\ queue[s] \in Seq(Message)
  BY Typed
<1>2. new \in Seq(Message) /\ Len(new) = m /\ \A i \in 1 .. m : new[i].event = batch[s][i].event
  <2>1. new \in [1 .. m -> Message]
    BY <1>1
  <2>2. new \in Seq(Message)
    BY <2>1, <1>1, SeqDef
  <2> QED BY <2>1, <2>2, <1>1, LenProperties
<1>3. queue' = [queue EXCEPT ![s] = queue[s] \o new]
  BY DEF Produce
<1> HIDE DEF new, Message, n, m
<1>4. /\ queue[s] \o new \in Seq(Message) /\ Len(queue[s] \o new) = n + m
      /\ \A i \in 1 .. n + m : (queue[s] \o new)[i] = IF i <= n THEN queue[s][i] ELSE new[i - n]
  BY <1>1, <1>2, ConcatProperties DEF n
<1>5. queue'[s] = queue[s] \o new /\ \A t \in Relays : t # s => queue'[t] = queue[t]
  BY <1>3 DEF TypeOK
<1>6. queue' \in [Relays -> Seq(Message)]
  BY <1>3, <1>4 DEF TypeOK, Message
<1>7. DOMAIN queue'[s] = 1 .. (n + m)
  BY <1>4, <1>5, LenProperties
<1>8. \A i \in 1 .. n : queue'[s][i] = queue[s][i]
  BY <1>1, <1>4, <1>5
<1>9. ASSUME NEW i \in 1 .. m PROVE queue'[s][n + i].event = batch[s][i].event
  <2>1. PICK k \in 1 .. n + m : k = n + i /\ ~(k <= n) /\ k - n = i
    BY <1>1
  <2>2. (queue[s] \o new)[k] = new[i]
    BY <2>1, <1>4
  <2> QED BY <2>1, <2>2, <1>2, <1>5
<1> QED BY <1>1, <1>5, <1>6, <1>7, <1>8, <1>9 DEF Message, n, m

\* A position of the queue after produce() was there or is one of the batch.
LEMMA ProducedAt ==
  ASSUME NEW n \in Nat, NEW m \in Nat, NEW i \in 1 .. (n + m), i \notin 1 .. n
  PROVE  i - n \in 1 .. m /\ n + (i - n) = i
OBVIOUS

\* _drain produces its batch.
LEMMA ProduceKeeps ==
  ASSUME IInv, NEW s \in Relays, Produce(s)
  PROVE  IInv'
<1> USE DEF IInv
<1> DEFINE n == Len(queue[s])
           m == Len(batch[s])
<1>1. /\ n \in Nat /\ m \in Nat
      /\ DOMAIN queue[s] = 1 .. n /\ DOMAIN batch[s] = 1 .. m
      /\ queue' \in [Relays -> Seq([event : Events, awaited : BOOLEAN])]
      /\ \A t \in Relays : t # s => queue'[t] = queue[t]
      /\ DOMAIN queue'[s] = 1 .. (n + m)
      /\ \A i \in 1 .. n : queue'[s][i] = queue[s][i]
      /\ \A i \in 1 .. m : queue'[s][n + i].event = batch[s][i].event
  BY ProduceAppends
<1>2. /\ pc[s] = "produce" /\ pc' = [pc EXCEPT ![s] = "flush"]
      /\ UNCHANGED <<table, attempts, log, stopping, batch, delivered, failed, faults>>
  BY DEF Produce, Goto
<1> HIDE DEF n, m
<1>3. TypeOK'
  BY <1>1, <1>2 DEF TypeOK, Places
<1>4. IdleIsEmpty'
  BY <1>2 DEF IdleIsEmpty, TypeOK
<1>5. ASSUME NEW i \in DOMAIN queue'[s], i \notin 1 .. n
      PROVE  i - n \in DOMAIN batch[s] /\ queue'[s][i].event = batch[s][i - n].event
  <2>1. i - n \in 1 .. m /\ n + (i - n) = i
    BY <1>1, <1>5, ProducedAt
  <2> QED BY <2>1, <1>1
<1>6. OnlyCommitted'
  <2>2. \A e : Committed(e)' <=> Committed(e)
    BY <1>2 DEF Committed
  <2>1. ASSUME NEW i \in DOMAIN queue'[s] PROVE Committed(queue'[s][i].event)
    <3>1. CASE i \in 1 .. n
      BY <1>1, <3>1 DEF OnlyCommitted
    <3>2. CASE i \notin 1 .. n
      BY <1>5, <3>2 DEF OnlyCommitted
    <3> QED BY <3>1, <3>2
  <2> QED BY <2>1, <2>2, <1>1, <1>2 DEF OnlyCommitted
<1>7. AwaitedIsOfTheBatch'
  <2>1. ASSUME NEW i \in DOMAIN queue'[s], queue'[s][i].awaited
        PROVE  queue'[s][i].event \in InBatch(s)
    <3>1. CASE i \in 1 .. n
      BY <1>1, <1>2, <2>1, <3>1 DEF AwaitedIsOfTheBatch
    <3>2. CASE i \notin 1 .. n
      BY <1>5, <3>2 DEF InBatch
    <3> QED BY <3>1, <3>2
  <2>2. \A t \in Relays : InBatch(t)' = InBatch(t)
    BY <1>2 DEF InBatch
  <2>3. pc'[s] = "flush" /\ \A t \in Relays : t # s => pc'[t] = pc[t]
    BY <1>2 DEF TypeOK
  <2>4. ASSUME NEW t \in Relays, NEW i \in DOMAIN queue'[t], queue'[t][i].awaited
        PROVE  pc'[t] = "flush" /\ queue'[t][i].event \in InBatch(t)
    BY <2>1, <2>3, <2>4, <1>1 DEF AwaitedIsOfTheBatch
  <2> QED BY <2>2, <2>4 DEF AwaitedIsOfTheBatch
<1>8. NoEventIsLost' /\ ReportsAreOfTheBatch'
  BY <1>2 DEF NoEventIsLost, Stored, ReportsAreOfTheBatch, InBatch
<1> QED BY <1>3, <1>4, <1>6, <1>7, <1>8

\* The head of a partition leaves the queue: what is left, in its order.
LEMMA MessageLeaves ==
  ASSUME TypeOK, NEW s \in Relays, NEW i \in DOMAIN queue[s],
         queue' = [queue EXCEPT ![s] = RemoveAt(@, i)]
  PROVE  LET n == Len(queue[s])
         IN /\ n \in Nat /\ i \in 1 .. n /\ DOMAIN queue[s] = 1 .. n
            /\ queue' \in [Relays -> Seq([event : Events, awaited : BOOLEAN])]
            /\ \A t \in Relays : t # s => queue'[t] = queue[t]
            /\ DOMAIN queue'[s] = 1 .. (n - 1)
            /\ \A j \in 1 .. (n - 1) :
                 queue'[s][j] = IF j < i THEN queue[s][j] ELSE queue[s][j + 1]
            /\ \A j \in DOMAIN queue'[s] : \E k \in DOMAIN queue[s] : queue'[s][j] = queue[s][k]
<1> DEFINE Message == [event : Events, awaited : BOOLEAN]
           n == Len(queue[s])
<1>1. /\ n \in Nat /\ DOMAIN queue[s] = 1 .. n /\ i \in 1 .. n
      /\ queue[s] \in Seq(Message)
  BY Typed
<1>2. queue'[s] = RemoveAt(queue[s], i) /\ \A t \in Relays : t # s => queue'[t] = queue[t]
  BY DEF TypeOK
<1> HIDE DEF Message
<1>3. /\ RemoveAt(queue[s], i) \in Seq(Message)
      /\ DOMAIN RemoveAt(queue[s], i) = 1 .. (n - 1)
      /\ \A j \in 1 .. (n - 1) :
           RemoveAt(queue[s], i)[j] = IF j < i THEN queue[s][j] ELSE queue[s][j + 1]
  BY <1>1, RemoveAtProperties
<1> HIDE DEF n
<1>4. queue' \in [Relays -> Seq(Message)]
  BY <1>3 DEF TypeOK, Message
<1>5. ASSUME NEW j \in 1 .. (n - 1)
      PROVE  \E k \in DOMAIN queue[s] : queue'[s][j] = queue[s][k]
  <2>1. j \in 1 .. n /\ j + 1 \in 1 .. n
    BY <1>1
  <2> QED BY <2>1, <1>1, <1>2, <1>3
<1> QED BY <1>1, <1>2, <1>3, <1>4, <1>5 DEF Message, n

\* What a report adds, and to whom.
LEMMA Reported ==
  ASSUME IInv, NEW s \in Relays, NEW i \in DOMAIN queue[s], NEW list,
         list \in [Relays -> SUBSET Events],
         list[s] \subseteq InBatch(s)
  PROVE  /\ Report(s, i, list) \in [Relays -> SUBSET Events]
         /\ \A t \in Relays : t # s => Report(s, i, list)[t] = list[t]
         /\ list[s] \subseteq Report(s, i, list)[s]
         /\ Report(s, i, list)[s] \subseteq list[s] \cup {queue[s][i].event}
         /\ Report(s, i, list)[s] \subseteq InBatch(s)
         /\ pc[s] # "flush" => Report(s, i, list) = list
<1>1. queue[s][i].event \in Events
  BY Typed DEF IInv
<1>2. queue[s][i].awaited => queue[s][i].event \in InBatch(s)
  BY DEF IInv, AwaitedIsOfTheBatch
<1> QED BY <1>1, <1>2 DEF Report

\* A message leaves the queue, stored or not: the conjuncts that are about it.
LEMMA LeavingKeeps ==
  ASSUME IInv, NEW s \in Relays, NEW i \in DOMAIN queue[s],
         queue' = [queue EXCEPT ![s] = RemoveAt(@, i)],
         UNCHANGED <<table, pc, batch>>
  PROVE  OnlyCommitted' /\ AwaitedIsOfTheBatch'
<1>1. /\ \A t \in Relays : t # s => queue'[t] = queue[t]
      /\ \A j \in DOMAIN queue'[s] : \E k \in DOMAIN queue[s] : queue'[s][j] = queue[s][k]
  BY MessageLeaves DEF IInv
<1>2. \A t \in Relays : \A j \in DOMAIN queue'[t] :
        \E k \in DOMAIN queue[t] : queue'[t][j] = queue[t][k]
  BY <1>1
<1>3. OnlyCommitted'
  <2>1. \A e : Committed(e)' <=> Committed(e)
    BY DEF Committed
  <2> QED BY <1>2, <2>1 DEF IInv, OnlyCommitted
<1>4. AwaitedIsOfTheBatch'
  <2>1. \A t \in Relays : InBatch(t)' = InBatch(t)
    BY DEF InBatch
  <2>2. ASSUME NEW t \in Relays, NEW j \in DOMAIN queue'[t], queue'[t][j].awaited
        PROVE  pc'[t] = "flush" /\ queue'[t][j].event \in InBatch(t)
    <3>1. PICK k \in DOMAIN queue[t] : queue'[t][j] = queue[t][k]
      BY <1>2
    <3>2. queue[t][k].awaited
      BY <3>1, <2>2
    <3> QED BY <3>1, <3>2 DEF IInv, AwaitedIsOfTheBatch
  <2> QED BY <2>1, <2>2 DEF AwaitedIsOfTheBatch
<1> QED BY <1>3, <1>4

\* The broker stores a message, and its report may count.
LEMMA BrokerStoresKeeps ==
  ASSUME IInv, NEW s \in Relays, BrokerStores(s)
  PROVE  IInv'
<1>1. PICK i \in Heads(s) :
        /\ Store(queue[s][i].event)
        /\ delivered' = Report(s, i, delivered)
        /\ queue' = [queue EXCEPT ![s] = RemoveAt(@, i)]
        /\ UNCHANGED <<table, attempts, pc, stopping, batch, failed, faults>>
  BY DEF BrokerStores
<1>2. PICK e \in Events : i \in DOMAIN queue[s] /\ e = queue[s][i].event
  BY Typed DEF Heads, IInv
<1>3. /\ queue' \in [Relays -> Seq([event : Events, awaited : BOOLEAN])]
      /\ OnlyCommitted' /\ AwaitedIsOfTheBatch'
  BY <1>1, <1>2, MessageLeaves, LeavingKeeps DEF IInv
<1>4. /\ log' \in [Keys -> Seq(Events)]
      /\ Stored(e)'
      /\ \A f \in Events : Stored(f) => Stored(f)'
  BY <1>1, <1>2, StoreKeeps DEF IInv
<1>5. /\ delivered' \in [Relays -> SUBSET Events]
      /\ \A t \in Relays : t # s => delivered'[t] = delivered[t]
      /\ delivered'[s] \subseteq delivered[s] \cup {e}
      /\ delivered'[s] \subseteq InBatch(s)
      /\ pc[s] # "flush" => delivered' = delivered
  <2>1. delivered \in [Relays -> SUBSET Events] /\ delivered[s] \subseteq InBatch(s)
    BY DEF IInv, TypeOK, ReportsAreOfTheBatch
  <2> QED BY <2>1, <1>1, <1>2, Reported
<1>6. TypeOK'
  BY <1>1, <1>3, <1>4, <1>5 DEF TypeOK, IInv
<1>7. IdleIsEmpty'
  BY <1>1, <1>5 DEF IInv, IdleIsEmpty
<1>8. NoEventIsLost'
  <2>1. \A f \in Events : table'[f] = "published" => Stored(f)'
    BY <1>1, <1>4 DEF IInv, NoEventIsLost
  <2>2. \A t \in Relays : \A f \in delivered'[t] : Stored(f)'
    BY <1>2, <1>4, <1>5 DEF IInv, NoEventIsLost, TypeOK
  <2> QED BY <2>1, <2>2 DEF NoEventIsLost
<1>9. ReportsAreOfTheBatch'
  <2>1. \A t \in Relays : InBatch(t)' = InBatch(t)
    BY <1>1 DEF InBatch
  <2> QED BY <2>1, <1>1, <1>5 DEF IInv, ReportsAreOfTheBatch
<1> QED BY <1>3, <1>6, <1>7, <1>8, <1>9 DEF IInv

\* The producer gives a message up, its record stored or not.
LEMMA BrokerFailsKeeps ==
  ASSUME IInv, NEW s \in Relays, BrokerFails(s)
  PROVE  IInv'
<1>1. PICK i \in Heads(s) :
        /\ Store(queue[s][i].event) \/ UNCHANGED log
        /\ UNCHANGED faults \/ Fault
        /\ failed' = Report(s, i, failed)
        /\ queue' = [queue EXCEPT ![s] = RemoveAt(@, i)]
        /\ UNCHANGED <<table, attempts, pc, stopping, batch, delivered>>
  BY DEF BrokerFails
<1>2. i \in DOMAIN queue[s] /\ queue[s][i].event \in Events
  BY Typed DEF Heads, IInv
<1>3. /\ queue' \in [Relays -> Seq([event : Events, awaited : BOOLEAN])]
      /\ OnlyCommitted' /\ AwaitedIsOfTheBatch'
  BY <1>1, <1>2, MessageLeaves, LeavingKeeps DEF IInv
<1>4. /\ log' \in [Keys -> Seq(Events)]
      /\ \A f \in Events : Stored(f) => Stored(f)'
  <2>1. CASE Store(queue[s][i].event)
    <3>1. PICK e \in Events : e = queue[s][i].event
      BY <1>2
    <3> QED BY <2>1, <3>1, StoreKeeps DEF IInv
  <2>2. CASE UNCHANGED log
    BY <2>2 DEF IInv, TypeOK, Stored
  <2> QED BY <1>1, <2>1, <2>2
<1>5. /\ failed' \in [Relays -> SUBSET Events]
      /\ \A t \in Relays : t # s => failed'[t] = failed[t]
      /\ failed'[s] \subseteq InBatch(s)
      /\ pc[s] # "flush" => failed' = failed
  <2>1. failed \in [Relays -> SUBSET Events] /\ failed[s] \subseteq InBatch(s)
    BY DEF IInv, TypeOK, ReportsAreOfTheBatch
  <2> QED BY <2>1, <1>1, <1>2, Reported
<1>6. faults' \in 0 .. MaxFaults
  BY <1>1, RelayAssumption DEF Fault, IInv, TypeOK
<1>7. TypeOK'
  BY <1>1, <1>3, <1>4, <1>5, <1>6 DEF TypeOK, IInv
<1>8. IdleIsEmpty'
  BY <1>1, <1>5 DEF IInv, IdleIsEmpty
<1>9. NoEventIsLost'
  <2>1. \A e \in Events : table'[e] = "published" => Stored(e)'
    BY <1>1, <1>4 DEF IInv, NoEventIsLost
  <2>2. \A t \in Relays : \A e \in delivered'[t] : Stored(e)'
    BY <1>1, <1>4 DEF IInv, NoEventIsLost, TypeOK
  <2> QED BY <2>1, <2>2 DEF NoEventIsLost
<1>10. ReportsAreOfTheBatch'
  <2>1. \A t \in Relays : InBatch(t)' = InBatch(t)
    BY <1>1 DEF InBatch
  <2> QED BY <2>1, <1>1, <1>5 DEF IInv, ReportsAreOfTheBatch
<1> QED BY <1>3, <1>7, <1>8, <1>9, <1>10 DEF IInv

\* flush() returns, with the queue empty or its messages no longer awaited.
LEMMA FlushedKeeps ==
  ASSUME IInv, NEW s \in Relays, Flushed(s)
  PROVE  IInv'
<1> USE DEF IInv
<1> DEFINE Message == [event : Events, awaited : BOOLEAN]
           late == [i \in DOMAIN queue[s] |-> [event |-> queue[s][i].event, awaited |-> FALSE]]
<1>1. /\ pc[s] = "flush" /\ pc' = [pc EXCEPT ![s] = "mark"]
      /\ UNCHANGED <<table, attempts, log, stopping, batch, delivered, failed>>
      /\ \/ queue[s] = <<>> /\ UNCHANGED <<queue, faults>>
         \/ Fault /\ queue' = [queue EXCEPT ![s] = late]
  BY DEF Flushed, Goto
<1>2. /\ Len(queue[s]) \in Nat /\ DOMAIN queue[s] = 1 .. Len(queue[s])
      /\ \A i \in DOMAIN queue[s] : queue[s][i].event \in Events
  BY Typed
<1>3. late \in Seq(Message)
  <2>1. late \in [1 .. Len(queue[s]) -> Message]
    BY <1>2
  <2> QED BY <2>1, <1>2, SeqDef
<1>4. /\ queue' \in [Relays -> Seq(Message)]
      /\ \A t \in Relays : t # s => queue'[t] = queue[t]
      /\ DOMAIN queue'[s] = DOMAIN queue[s]
      /\ \A i \in DOMAIN queue'[s] :
           queue'[s][i].event = queue[s][i].event /\ ~queue'[s][i].awaited
  <2>1. CASE queue[s] = <<>> /\ UNCHANGED queue
    <3>1. DOMAIN queue[s] = {}
      BY <2>1
    <3>2. queue' \in [Relays -> Seq(Message)]
      BY <2>1 DEF TypeOK
    <3> QED BY <2>1, <3>1, <3>2
  <2>2. CASE queue' = [queue EXCEPT ![s] = late]
    <3>1. queue'[s] = late /\ \A t \in Relays : t # s => queue'[t] = queue[t]
      BY <2>2 DEF TypeOK
    <3>2. queue' \in [Relays -> Seq(Message)]
      <4> HIDE DEF late
      <4> QED BY <2>2, <1>3 DEF TypeOK
    <3>3. /\ DOMAIN late = DOMAIN queue[s]
          /\ \A i \in DOMAIN late : late[i].event = queue[s][i].event /\ ~late[i].awaited
      OBVIOUS
    <3> HIDE DEF late
    <3> QED BY <3>1, <3>2, <3>3
  <2> QED BY <1>1, <2>1, <2>2
<1> HIDE DEF late
<1>5. TypeOK'
  <2>1. faults' \in 0 .. MaxFaults
    BY <1>1, RelayAssumption DEF Fault, TypeOK
  <2> QED BY <1>1, <1>4, <2>1 DEF TypeOK, Places
<1>6. IdleIsEmpty'
  BY <1>1 DEF IdleIsEmpty, TypeOK
<1>7. OnlyCommitted'
  <2>1. \A e : Committed(e)' <=> Committed(e)
    BY <1>1 DEF Committed
  <2>2. \A t \in Relays : \A i \in DOMAIN queue'[t] : Committed(queue'[t][i].event)
    BY <1>4 DEF OnlyCommitted
  <2> QED BY <2>1, <2>2, <1>1 DEF OnlyCommitted
<1>8. AwaitedIsOfTheBatch'
  <2>1. \A t \in Relays : InBatch(t)' = InBatch(t) /\ (t # s => pc'[t] = pc[t])
    BY <1>1 DEF InBatch, TypeOK
  <2> QED BY <2>1, <1>4 DEF AwaitedIsOfTheBatch
<1>9. NoEventIsLost' /\ ReportsAreOfTheBatch'
  BY <1>1 DEF NoEventIsLost, Stored, ReportsAreOfTheBatch, InBatch
<1> QED BY <1>5, <1>6, <1>7, <1>8, <1>9

\* What a relay lets go of when it is done with a batch, ends or dies: IInv holds of what
\* the others have, and of the rows if those it has marked are stored.
LEMMA LetGoKeeps ==
  ASSUME IInv, NEW s \in Relays, NEW place \in Places, NEW q,
         place \notin {"produce", "flush", "mark"},
         q = <<>> \/ (q = queue[s] /\ \A i \in DOMAIN queue[s] : ~queue[s][i].awaited),
         pc' = [pc EXCEPT ![s] = place],
         batch' = [batch EXCEPT ![s] = <<>>],
         queue' = [queue EXCEPT ![s] = q],
         delivered' = [delivered EXCEPT ![s] = {}],
         failed' = [failed EXCEPT ![s] = {}],
         UNCHANGED log,
         table' \in [Events -> Rows],
         \A e \in Events : table'[e] = table[e] \/ (table'[e] = "published" /\ Stored(e)),
         attempts' \in [Events -> 0 .. MaxAttempts],
         stopping' \in [Relays -> BOOLEAN],
         faults' \in 0 .. MaxFaults
  PROVE  IInv'
<1> USE DEF IInv
<1>1. /\ batch'[s] = <<>> /\ queue'[s] = q /\ delivered'[s] = {} /\ failed'[s] = {}
      /\ pc'[s] = place
      /\ \A t \in Relays : t # s =>
           /\ batch'[t] = batch[t] /\ queue'[t] = queue[t] /\ pc'[t] = pc[t]
           /\ delivered'[t] = delivered[t] /\ failed'[t] = failed[t]
  BY DEF TypeOK
<1>2. q \in Seq([event : Events, awaited : BOOLEAN]) /\ \A T : <<>> \in Seq(T)
  BY Typed, EmptySeq
<1>3. TypeOK'
  BY <1>2 DEF TypeOK
<1>4. IdleIsEmpty'
  BY <1>1 DEF IdleIsEmpty
<1>5. OnlyCommitted'
  <2>1. \A e \in Events : Committed(e) => Committed(e)'
    BY DEF Committed
  <2>2. ASSUME NEW t \in Relays
        PROVE  /\ \A i \in DOMAIN batch'[t] : Committed(batch'[t][i].event)
                                              /\ batch'[t][i].event \in Events
               /\ \A i \in DOMAIN queue'[t] : Committed(queue'[t][i].event)
                                              /\ queue'[t][i].event \in Events
    <3>1. CASE t = s
      BY <3>1, <1>1, Typed DEF OnlyCommitted
    <3>2. CASE t # s
      BY <3>2, <1>1, Typed DEF OnlyCommitted
    <3> QED BY <3>1, <3>2
  <2> QED BY <2>1, <2>2 DEF OnlyCommitted
<1>6. AwaitedIsOfTheBatch'
  <2>1. \A t \in Relays : t # s => InBatch(t)' = InBatch(t)
    BY <1>1 DEF InBatch
  <2>2. \A i \in DOMAIN queue'[s] : ~queue'[s][i].awaited
    BY <1>1
  <2> QED BY <2>1, <2>2, <1>1 DEF AwaitedIsOfTheBatch
<1>7. NoEventIsLost'
  <2>1. \A e : Stored(e)' <=> Stored(e)
    BY DEF Stored
  <2> QED BY <2>1, <1>1 DEF NoEventIsLost
<1>8. ReportsAreOfTheBatch'
  <2>1. \A t \in Relays : t # s => InBatch(t)' = InBatch(t)
    BY <1>1 DEF InBatch
  <2> QED BY <2>1, <1>1 DEF ReportsAreOfTheBatch
<1> QED BY <1>3, <1>4, <1>5, <1>6, <1>7, <1>8

\* The attempts of a failed row, as read: it is in the batch.
LEMMA ReadAttemptsTyped ==
  ASSUME IInv, NEW s \in Relays, NEW e \in failed[s]
  PROVE  ReadAttempts(s, e) \in 0 .. MaxAttempts
<1>1. PICK i \in DOMAIN batch[s] : batch[s][i].event = e
  BY DEF IInv, ReportsAreOfTheBatch, InBatch
<1>2. batch[s][i] \in Range(batch[s])
  BY DEF Range
<1>3. \A b \in Range(batch[s]) : b.attempts \in 0 .. MaxAttempts
  BY Typed DEF Range, IInv
<1> QED BY <1>1, <1>2, <1>3 DEF ReadAttempts

\* One transaction marks the delivered rows, which are stored.
LEMMA MarkKeeps ==
  ASSUME IInv, NEW s \in Relays, Mark(s)
  PROVE  IInv'
<1> DEFINE place == IF Ends(s) THEN "exited" ELSE "poll"
           q == IF Ends(s) THEN <<>> ELSE queue[s]
<1>1. /\ pc[s] = "mark" /\ pc' = [pc EXCEPT ![s] = place]
      /\ batch' = [batch EXCEPT ![s] = <<>>]
      /\ queue' = [queue EXCEPT ![s] = q]
      /\ delivered' = [delivered EXCEPT ![s] = {}]
      /\ failed' = [failed EXCEPT ![s] = {}]
      /\ UNCHANGED <<log, stopping, faults>>
      /\ table' = [e \in Events |-> IF e \in delivered[s] THEN "published" ELSE table[e]]
      /\ attempts' = [e \in Events |->
           IF e \in failed[s] /\ ReadAttempts(s, e) < MaxAttempts
             THEN ReadAttempts(s, e) + 1 ELSE attempts[e]]
  BY DEF Mark, Goto
<1>2. place \in Places /\ place \notin {"produce", "flush", "mark"}
  BY DEF Places
<1>3. \A i \in DOMAIN queue[s] : ~queue[s][i].awaited
  BY <1>1 DEF IInv, AwaitedIsOfTheBatch
<1>4. /\ table' \in [Events -> Rows]
      /\ \A e \in Events : table'[e] = table[e] \/ (table'[e] = "published" /\ Stored(e))
  BY <1>1 DEF IInv, TypeOK, Rows, NoEventIsLost
<1>5. attempts' \in [Events -> 0 .. MaxAttempts]
  <2>1. \A e \in Events : attempts[e] \in 0 .. MaxAttempts
    BY DEF IInv, TypeOK
  <2>2. \A e \in failed[s] : ReadAttempts(s, e) \in 0 .. MaxAttempts
    BY ReadAttemptsTyped
  <2>3. \A n \in 0 .. MaxAttempts : n < MaxAttempts => n + 1 \in 0 .. MaxAttempts
    BY RelayAssumption
  <2> QED BY <1>1, <2>1, <2>2, <2>3
<1>6. stopping' \in [Relays -> BOOLEAN] /\ faults' \in 0 .. MaxFaults
  BY <1>1 DEF IInv, TypeOK
<1>7. q = <<>> \/ q = queue[s]
  OBVIOUS
<1> HIDE DEF place, q
<1> QED BY <1>1, <1>2, <1>3, <1>4, <1>5, <1>6, <1>7, LetGoKeeps

\* A relay that polls has nothing of a batch to let go of.
LEMMA PollingIsEmpty ==
  ASSUME IInv, NEW s \in Relays, pc[s] \notin {"produce", "flush", "mark"}
  PROVE  /\ batch = [batch EXCEPT ![s] = <<>>]
         /\ delivered = [delivered EXCEPT ![s] = {}]
         /\ failed = [failed EXCEPT ![s] = {}]
         /\ queue = [queue EXCEPT ![s] = queue[s]]
         /\ \A i \in DOMAIN queue[s] : ~queue[s][i].awaited
<1>1. batch[s] = <<>> /\ delivered[s] = {} /\ failed[s] = {}
  BY DEF IInv, IdleIsEmpty
<1>2. \A i \in DOMAIN queue[s] : ~queue[s][i].awaited
  BY DEF IInv, AwaitedIsOfTheBatch
<1> QED BY <1>1, <1>2 DEF IInv, TypeOK

\* The command ends.
LEMMA ExitKeeps ==
  ASSUME IInv, NEW s \in Relays, Exit(s)
  PROVE  IInv'
<1>1. /\ pc[s] = "poll" /\ pc' = [pc EXCEPT ![s] = "exited"]
      /\ queue' = [queue EXCEPT ![s] = <<>>]
      /\ UNCHANGED <<table, attempts, log, stopping, batch, delivered, failed, faults>>
  BY DEF Exit, Goto
<1>2. /\ batch' = [batch EXCEPT ![s] = <<>>]
      /\ delivered' = [delivered EXCEPT ![s] = {}]
      /\ failed' = [failed EXCEPT ![s] = {}]
  BY <1>1, PollingIsEmpty
<1>3. /\ table' \in [Events -> Rows] /\ attempts' \in [Events -> 0 .. MaxAttempts]
      /\ stopping' \in [Relays -> BOOLEAN] /\ faults' \in 0 .. MaxFaults
      /\ \A e \in Events : table'[e] = table[e]
      /\ "exited" \in Places
  BY <1>1 DEF IInv, TypeOK, Places
<1> QED BY <1>1, <1>2, <1>3, LetGoKeeps

\* The process dies, and all it had in memory with it.
LEMMA CrashKeeps ==
  ASSUME IInv, NEW s \in Relays, Crash(s)
  PROVE  IInv'
<1>1. /\ pc' = [pc EXCEPT ![s] = "down"]
      /\ batch' = [batch EXCEPT ![s] = <<>>]
      /\ queue' = [queue EXCEPT ![s] = <<>>]
      /\ delivered' = [delivered EXCEPT ![s] = {}]
      /\ failed' = [failed EXCEPT ![s] = {}]
      /\ UNCHANGED <<table, attempts, log, stopping>>
  BY DEF Crash, Goto
<1>2. faults' \in 0 .. MaxFaults
  BY RelayAssumption DEF Crash, Fault, IInv, TypeOK
<1>3. /\ table' \in [Events -> Rows] /\ attempts' \in [Events -> 0 .. MaxAttempts]
      /\ stopping' \in [Relays -> BOOLEAN]
      /\ \A e \in Events : table'[e] = table[e]
      /\ "down" \in Places
  BY <1>1 DEF IInv, TypeOK, Places
<1> QED BY <1>1, <1>2, <1>3, LetGoKeeps

\* The command begins again, in a new process or by hand.
LEMMA BeginKeeps ==
  ASSUME IInv, NEW s \in Relays, Begin(s), faults' \in 0 .. MaxFaults
  PROVE  IInv'
<1>1. /\ pc[s] \in {"exited", "down"} /\ pc' = [pc EXCEPT ![s] = "poll"]
      /\ stopping' = [stopping EXCEPT ![s] = FALSE]
      /\ UNCHANGED <<table, attempts, log, batch, queue, delivered, failed>>
  BY DEF Begin, Running, Goto
<1>2. /\ batch' = [batch EXCEPT ![s] = <<>>]
      /\ queue' = [queue EXCEPT ![s] = queue[s]]
      /\ delivered' = [delivered EXCEPT ![s] = {}]
      /\ failed' = [failed EXCEPT ![s] = {}]
      /\ \A i \in DOMAIN queue[s] : ~queue[s][i].awaited
  BY <1>1, PollingIsEmpty
<1>3. /\ table' \in [Events -> Rows] /\ attempts' \in [Events -> 0 .. MaxAttempts]
      /\ stopping' \in [Relays -> BOOLEAN]
      /\ \A e \in Events : table'[e] = table[e]
      /\ "poll" \in Places
  BY <1>1 DEF IInv, TypeOK, Places
<1> QED BY <1>1, <1>2, <1>3, LetGoKeeps

\* A signal asks the loop to stop.
LEMMA SignalKeeps ==
  ASSUME IInv, NEW s \in Relays, Signal(s)
  PROVE  IInv'
<1>1. /\ stopping' = [stopping EXCEPT ![s] = TRUE] /\ Fault
      /\ UNCHANGED <<table, attempts, log, pc, batch, queue, delivered, failed>>
  BY DEF Signal
<1>2. TypeOK'
  <2>1. faults' \in 0 .. MaxFaults
    BY <1>1, RelayAssumption DEF Fault, IInv, TypeOK
  <2>2. stopping' \in [Relays -> BOOLEAN]
    BY <1>1 DEF IInv, TypeOK
  <2> QED BY <1>1, <2>1, <2>2 DEF IInv, TypeOK
<1> QED BY <1>1, <1>2 DEF IInv, IdleIsEmpty, OnlyCommitted, Committed, AwaitedIsOfTheBatch,
           InBatch, NoEventIsLost, Stored, ReportsAreOfTheBatch

\* Every step keeps IInv.
LEMMA NextKeeps ==
  ASSUME IInv, [Next]_vars
  PROVE  IInv'
<1>1. CASE UNCHANGED vars
  <2>1. UNCHANGED <<table, attempts, log, pc, stopping, batch, queue, delivered, failed, faults>>
    BY <1>1 DEF vars, relay
  <2>2. TypeOK'
    BY <2>1 DEF IInv, TypeOK
  <2>3. IdleIsEmpty' /\ OnlyCommitted'
    BY <2>1 DEF IInv, IdleIsEmpty, OnlyCommitted, Committed
  <2>4. AwaitedIsOfTheBatch' /\ ReportsAreOfTheBatch'
    BY <2>1 DEF IInv, AwaitedIsOfTheBatch, ReportsAreOfTheBatch, InBatch
  <2>5. NoEventIsLost'
    BY <2>1 DEF IInv, NoEventIsLost, Stored
  <2> QED BY <2>2, <2>3, <2>4, <2>5 DEF IInv
<1>2. ASSUME NEW S \in SUBSET Events, Settle(S) PROVE IInv'
  BY <1>2, SettleKeeps
<1>3. ASSUME NEW s \in Relays, Drain(s) PROVE IInv'
  BY <1>3, PollKeeps, ProduceKeeps, FlushedKeeps, MarkKeeps, ExitKeeps DEF Drain
<1>4. ASSUME NEW s \in Relays, Broker(s) PROVE IInv'
  BY <1>4, BrokerStoresKeeps, BrokerFailsKeeps DEF Broker
<1>5. ASSUME NEW s \in Relays, Disturb(s) \/ Restart(s) PROVE IInv'
  <2>1. faults \in 0 .. MaxFaults
    BY DEF IInv, TypeOK
  <2>2. CASE Launch(s)
    <3>1. faults' \in 0 .. MaxFaults
      BY <2>1, <2>2, RelayAssumption DEF Launch, Fault
    <3> QED BY <2>2, <3>1, BeginKeeps DEF Launch
  <2>3. CASE Restart(s)
    <3>1. faults' \in 0 .. MaxFaults
      BY <2>1, <2>3 DEF Restart
    <3> QED BY <2>3, <3>1, BeginKeeps DEF Restart
  <2> QED BY <1>5, <2>2, <2>3, SignalKeeps, CrashKeeps DEF Disturb
<1> QED BY <1>1, <1>2, <1>3, <1>4, <1>5 DEF Next, Quiet

\* IInv holds in every reachable state.
THEOREM Invariance == Spec => []IInv
BY InitIInv, NextKeeps, PTL DEF Spec

\* Every row, batch, message and report is typed.
THEOREM TypeCorrect == Spec => []TypeOK
<1>1. IInv => TypeOK
  BY DEF IInv
<1> QED BY <1>1, Invariance, PTL

\* No event is lost to a mark, whatever crashes, times out, fails or is run beside it.
THEOREM NothingIsLost == Spec => []NoEventIsLost
<1>1. IInv => NoEventIsLost
  BY DEF IInv
<1> QED BY <1>1, Invariance, PTL

\* A relay only marks rows of the batch it has polled.
THEOREM ReportsCountOnce == Spec => []ReportsAreOfTheBatch
<1>1. IInv => ReportsAreOfTheBatch
  BY DEF IInv
<1> QED BY <1>1, Invariance, PTL

-----------------------------------------------------------------------------
(* The relay implements AtLeastOnce                                        *)

\* A step of the relay delivers what was committed, marks what was delivered, settles a
\* row, or is none of the contract's business.
LEMMA StepKeepsContract ==
  ASSUME IInv, [Next]_vars
  PROVE  [Contract!Next]_<<table, log>>
<1> USE DEF Contract!Next
<1>1. CASE UNCHANGED <<table, log>>
  BY <1>1
<1>2. ASSUME NEW S \in SUBSET Events, Settle(S) PROVE Contract!Settle(S)
  BY <1>2 DEF Settle, Settled, Contract!Settle
<1>3. ASSUME NEW e \in Events, Committed(e), Store(e), UNCHANGED table
      PROVE  Contract!Deliver(e)
  BY <1>3 DEF Store, Committed, Contract!Deliver
<1>4. ASSUME NEW s \in Relays, Broker(s)
      PROVE  \/ UNCHANGED <<table, log>>
             \/ \E e \in Events : Contract!Deliver(e)
  <2>1. PICK i \in DOMAIN queue[s] :
          UNCHANGED table /\ (UNCHANGED log \/ Store(queue[s][i].event))
    BY <1>4 DEF Broker, BrokerStores, BrokerFails, Heads
  <2>2. PICK e \in Events : e = queue[s][i].event /\ Committed(e)
    BY Typed DEF IInv, OnlyCommitted
  <2> QED BY <2>1, <2>2, <1>3
<1>5. ASSUME NEW s \in Relays, Mark(s)
      PROVE  \E S \in SUBSET Events : Contract!Publish(S)
  <2>1. delivered[s] \in SUBSET Events
    BY DEF IInv, TypeOK
  <2>2. \A e \in delivered[s] : Committed(e)
    BY DEF IInv, ReportsAreOfTheBatch, InBatch, OnlyCommitted
  <2>3. \A e \in delivered[s] : Stored(e)
    BY DEF IInv, NoEventIsLost
  <2>4. Contract!Publish(delivered[s])
    BY <1>5, <2>2, <2>3 DEF Mark, Committed, Stored, Contract!Publish, Contains, Contract!Contains
  <2> QED BY <2>1, <2>4
<1>6. ASSUME NEW s \in Relays, Drain(s) \/ Disturb(s) \/ Restart(s)
      PROVE  Mark(s) \/ UNCHANGED <<table, log>>
  BY <1>6 DEF Drain, Poll, Produce, Flushed, Exit, Disturb, Signal, Crash, Launch, Restart, Begin
<1>7. CASE Next
  BY <1>1, <1>2, <1>4, <1>5, <1>6, <1>7 DEF Next, Quiet, vars
<1> QED BY <1>1, <1>7 DEF vars

\* At least once, and nothing that was not committed: the relay implements the contract.
THEOREM ContractKept == Spec => KeepsContract
<1>1. Init => Contract!Init
  BY DEF Init, Contract!Init, Keys, Contract!Keys
<1> QED BY <1>1, Invariance, StepKeepsContract, PTL DEF Spec, KeepsContract, Contract!Spec

-----------------------------------------------------------------------------
(* The order of a partition                                                *)

\* Events of the entities whose row is locked, none of whose deliveries fails.
Clean == {f \in Events : KeyOf[f] \notin LooseKeys
                          /\ \A e \in MayFail \cup Poison : KeyOf[e] # KeyOf[f]}

\* e must have been read before f: the same entity, an earlier id, not rolled back.
Before(e, f) == KeyOf[e] = KeyOf[f] /\ e < f /\ table[e] # "rolledback"

\* Whatever must be read before an event of the list is stored, or ahead of it there.
InOrder(list) ==
  \A i \in DOMAIN list : \A e \in Events :
    list[i].event \in Clean /\ Before(e, list[i].event)
      => Stored(e) \/ \E j \in 1 .. (i - 1) : list[j].event = e

\* Transactions that lock the row of one entity end in the order of their ids.
SettledInOrder ==
  \A e, f \in Events :
    KeyOf[e] = KeyOf[f] /\ KeyOf[f] \notin LooseKeys /\ e < f /\ Settled(f) => Settled(e)

OrderInv ==
  /\ SettledInOrder /\ FirstDeliveriesInOrder
  /\ \A s \in Relays : InOrder(batch[s]) /\ InOrder(queue[s])

\* A relay that runs beside no other and meets no fault produces each event once: what
\* it has in hand is pending and not yet stored, and what is stored is marked or about
\* to be.
HandsAreFresh(s) ==
  /\ s \in OnceRelays => pc[s] = "exited"
  /\ pc[s] # "flush" => queue[s] = <<>>
  /\ \A i \in DOMAIN batch[s] : table[batch[s][i].event] = "pending"
  /\ \A i, j \in DOMAIN batch[s] : batch[s][i].event = batch[s][j].event => i = j
  /\ \A i \in DOMAIN queue[s] :
       LET e == queue[s][i].event
       IN queue[s][i].awaited /\ table[e] = "pending" /\ ~Stored(e)
  /\ \A i, j \in DOMAIN queue[s] : queue[s][i].event = queue[s][j].event => i = j

Calm ==
  faults = 0 =>
    /\ \A s \in Relays : HandsAreFresh(s)
    /\ \A e \in Events :
         Stored(e) => table[e] = "published" \/ \E s \in Relays : e \in delivered[s]
    /\ \A k \in Keys : IsInjective(log[k])

\* The Deployment has one replica (outbox-relay.yaml:20).
OneReplica == \A s, t \in Relays \ OnceRelays : s = t

\* A row that was rolled back stays so, one that has ended stays ended, and what is
\* stored stays stored.
LEMMA Monotone ==
  ASSUME IInv, [Next]_vars, NEW e \in Events
  PROVE  /\ table[e] = "rolledback" => table'[e] = "rolledback"
         /\ Settled(e) => Settled(e)'
         /\ Stored(e) => Stored(e)'
<1>1. \/ UNCHANGED <<table, log>>
      \/ \E S \in SUBSET Events : Contract!Settle(S)
      \/ \E f \in Events : Contract!Deliver(f)
      \/ \E S \in SUBSET Events : Contract!Publish(S)
  BY StepKeepsContract DEF Contract!Next
<1>2. CASE UNCHANGED <<table, log>>
  BY <1>2 DEF Settled, Stored
<1>3. CASE \E S \in SUBSET Events : Contract!Settle(S)
  BY <1>3 DEF Contract!Settle, Settled, Stored, IInv, TypeOK
<1>4. CASE \E f \in Events : Contract!Deliver(f)
  <2>1. PICK f \in Events : UNCHANGED table /\ Store(f)
    BY <1>4 DEF Contract!Deliver, Store
  <2>2. Stored(e) => Stored(e)'
    BY <2>1, StoreKeeps DEF IInv
  <2> QED BY <2>1, <2>2 DEF Settled
<1>5. CASE \E S \in SUBSET Events : Contract!Publish(S)
  BY <1>5 DEF Contract!Publish, Settled, Stored, IInv, TypeOK
<1> QED BY <1>1, <1>2, <1>3, <1>4, <1>5

\* Initially nothing has been read or stored.
LEMMA InitOrder == Init => OrderInv /\ Calm
<1> SUFFICES ASSUME Init PROVE OrderInv /\ Calm
  OBVIOUS
<1>1. SettledInOrder
  BY DEF Init, SettledInOrder, Settled
<1>2. \A k \in Keys : log[k] = <<>>
  BY DEF Init
<1>3. FirstDeliveriesInOrder
  BY <1>2 DEF FirstDeliveriesInOrder, ReadInOrder
<1>4. \A s \in Relays : batch[s] = <<>> /\ queue[s] = <<>>
  BY DEF Init
<1>5. \A s \in Relays : InOrder(batch[s]) /\ InOrder(queue[s])
  BY <1>4 DEF InOrder
<1>6. \A e \in Events : KeyOf[e] \in Keys /\ ~Stored(e)
  BY <1>2 DEF Stored, Contains, Keys
<1>7. \A s \in Relays : HandsAreFresh(s)
  BY <1>4 DEF HandsAreFresh, Init
<1>8. \A k \in Keys : IsInjective(log[k])
  BY <1>2 DEF IsInjective
<1> QED BY <1>1, <1>3, <1>5, <1>6, <1>7, <1>8 DEF OrderInv, Calm

\* A list nobody touches stays in order.
LEMMA InOrderStays ==
  ASSUME IInv, [Next]_vars, NEW list, InOrder(list)
  PROVE  InOrder(list)'
<1>1. \A e \in Events : (Stored(e) => Stored(e)') /\ (table'[e] # "rolledback" => table[e] # "rolledback")
  BY Monotone
<1> QED BY <1>1 DEF InOrder, Before

\* The order in which rows end is that of their ids.
LEMMA SettledInOrderKept ==
  ASSUME IInv, SettledInOrder, [Next]_vars
  PROVE  SettledInOrder'
<1> SUFFICES ASSUME NEW e \in Events, NEW f \in Events,
                    KeyOf[e] = KeyOf[f], KeyOf[f] \notin LooseKeys, e < f, Settled(f)'
             PROVE  Settled(e)'
  BY DEF SettledInOrder
<1>1. Settled(e) => Settled(e)'
  BY Monotone
<1>2. CASE Settled(f)
  BY <1>1, <1>2 DEF SettledInOrder
<1>3. CASE ~Settled(f)
  <2>1. \/ UNCHANGED table \/ \E S \in SUBSET Events : Settle(S)
        \/ \E s \in Relays : Mark(s)
    <3>1. ASSUME NEW s \in Relays, Drain(s) PROVE Mark(s) \/ UNCHANGED table
      BY <3>1 DEF Drain, Poll, Produce, Flushed, Exit
    <3>2. ASSUME NEW s \in Relays, Broker(s) PROVE UNCHANGED table
      BY <3>2 DEF Broker, BrokerStores, BrokerFails
    <3>3. ASSUME NEW s \in Relays, Disturb(s) \/ Restart(s) PROVE UNCHANGED table
      BY <3>3 DEF Disturb, Signal, Crash, Launch, Restart, Begin
    <3> QED BY <3>1, <3>2, <3>3 DEF Next, vars, Quiet
  <2>2. ASSUME NEW s \in Relays, Mark(s) PROVE table'[f] = table[f]
    <3>1. f \notin delivered[s]
      BY <1>3 DEF Settled, IInv, ReportsAreOfTheBatch, InBatch, OnlyCommitted, Committed
    <3> QED BY <2>2, <3>1 DEF Mark
  <2>3. PICK S \in SUBSET Events : Settle(S) /\ f \in S
    BY <2>1, <2>2, <1>3 DEF Settle, Settled
  <2>4. e \in S => Settled(e)'
    BY <2>3 DEF Settle, Settled
  <2> QED BY <2>3, <2>4, <1>1 DEF Settle
<1> QED BY <1>2, <1>3

\* A poll takes an event with all pending ones of its entity before it.
LEMMA PollInOrder ==
  ASSUME IInv, SettledInOrder, NEW s \in Relays, Poll(s)
  PROVE  InOrder(batch'[s])
<1>1. PICK ids \in BoundedSeq(Pending, BatchSize) :
        /\ Oldest(ids, BatchSize)
        /\ DOMAIN ids = 1 .. Len(ids) /\ Len(ids) \in Nat
        /\ \A i \in DOMAIN ids : ids[i] \in Events /\ table[ids[i]] = "pending"
        /\ DOMAIN batch'[s] = DOMAIN ids
        /\ \A i \in DOMAIN ids : batch'[s][i].event = ids[i]
  BY PollReads DEF IInv
<1> SUFFICES ASSUME NEW i \in DOMAIN ids, NEW e \in Events,
                    ids[i] \in Clean, Before(e, ids[i]), ~Stored(e)
             PROVE  \E j \in 1 .. (i - 1) : ids[j] = e
  <2>1. \A i \in DOMAIN ids : \A j \in 1 .. (i - 1) : j \in DOMAIN ids
    BY <1>1
  <2> QED BY <1>1, <2>1 DEF InOrder
<1>2. Settled(e)
  <2>1. Settled(ids[i])
    BY <1>1 DEF Settled
  <2> QED BY <2>1, <1>1 DEF SettledInOrder, Before, Clean
<1>3. e \in Pending
  BY <1>2 DEF Before, Settled, Pending, IInv, TypeOK, Rows, NoEventIsLost
<1>4. e \in Nat /\ ids[i] \in Nat /\ e < ids[i]
  BY <1>1, RelayAssumption DEF Before
<1>5. e \in Range(ids)
  BY <1>1, <1>3, <1>4 DEF Oldest
<1>6. PICK j \in DOMAIN ids : ids[j] = e
  BY <1>5 DEF Range
<1>7. ~(i < j) /\ j # i
  BY <1>1, <1>4, <1>6 DEF Oldest
<1>8. j \in 1 .. (i - 1)
  BY <1>1, <1>7
<1> QED BY <1>6, <1>8

\* A batch in order is appended to a queue in order.
LEMMA ProduceInOrder ==
  ASSUME IInv, NEW s \in Relays, Produce(s), InOrder(batch[s]), InOrder(queue[s])
  PROVE  InOrder(queue'[s])
<1> DEFINE n == Len(queue[s])
           m == Len(batch[s])
<1>1. /\ n \in Nat /\ m \in Nat
      /\ DOMAIN queue[s] = 1 .. n /\ DOMAIN batch[s] = 1 .. m
      /\ DOMAIN queue'[s] = 1 .. (n + m)
      /\ \A i \in 1 .. n : queue'[s][i] = queue[s][i]
      /\ \A i \in 1 .. m : queue'[s][n + i].event = batch[s][i].event
  BY ProduceAppends DEF IInv
<1> HIDE DEF n, m
<1> SUFFICES ASSUME NEW i \in 1 .. (n + m), NEW e \in Events,
                    queue'[s][i].event \in Clean, Before(e, queue'[s][i].event), ~Stored(e)
             PROVE  \E j \in 1 .. (i - 1) : queue'[s][j].event = e
  BY <1>1 DEF InOrder
<1>2. CASE i \in 1 .. n
  <2>1. PICK j \in 1 .. (i - 1) : queue[s][j].event = e
    BY <1>1, <1>2 DEF InOrder
  <2>2. j \in 1 .. n
    BY <1>1, <1>2
  <2> QED BY <2>1, <2>2, <1>1
<1>3. CASE i \notin 1 .. n
  <2>1. PICK k \in 1 .. m : k = i - n /\ n + k = i
    BY <1>1, <1>3, ProducedAt
  <2>2. queue'[s][i].event = batch[s][k].event
    BY <2>1, <1>1
  <2>3. PICK j \in 1 .. (k - 1) : batch[s][j].event = e
    BY <2>2, <1>1 DEF InOrder
  <2>4. j \in 1 .. m /\ n + j \in 1 .. (i - 1)
    BY <1>1, <2>1
  <2>5. queue'[s][n + j].event = e
    BY <2>3, <2>4, <1>1
  <2> QED BY <2>4, <2>5
<1> QED BY <1>2, <1>3

\* A message that leaves a queue leaves it in order, if it is stored or of an entity that
\* the promise leaves out.
LEMMA LeavesInOrder ==
  ASSUME IInv, [Next]_vars, NEW s \in Relays, NEW i \in DOMAIN queue[s],
         queue' = [queue EXCEPT ![s] = RemoveAt(@, i)],
         InOrder(queue[s]),
         NEW m \in Events, m = queue[s][i].event,
         Stored(m)' \/ m \in MayFail \cup Poison
  PROVE  InOrder(queue[s])'
<1> DEFINE n == Len(queue[s])
<1>1. /\ n \in Nat /\ i \in 1 .. n /\ DOMAIN queue[s] = 1 .. n
      /\ DOMAIN queue'[s] = 1 .. (n - 1)
      /\ \A j \in 1 .. (n - 1) :
           queue'[s][j] = IF j < i THEN queue[s][j] ELSE queue[s][j + 1]
  BY MessageLeaves DEF IInv
<1> HIDE DEF n
<1> SUFFICES ASSUME NEW h \in 1 .. (n - 1), NEW e \in Events, NEW f, f = queue'[s][h].event,
                    f \in Clean, Before(e, f)', ~Stored(e)'
             PROVE  \E j \in 1 .. (h - 1) : queue'[s][j].event = e
  BY <1>1 DEF InOrder, Before
<1>2. PICK g \in 1 .. n : queue[s][g].event = f /\ g = IF h < i THEN h ELSE h + 1
  <2>1. h \in 1 .. n /\ h + 1 \in 1 .. n
    BY <1>1
  <2> QED BY <1>1, <2>1
<1>3. ~Stored(e) /\ Before(e, f)
  BY Monotone DEF Before
<1>4. PICK j \in 1 .. (g - 1) : queue[s][j].event = e
  BY <1>1, <1>2, <1>3 DEF InOrder
<1>5. j # i
  <2>1. e # m
    BY DEF Clean, Before
  <2> QED BY <2>1, <1>4
<1>6. CASE j < i
  <2>1. j \in 1 .. (h - 1) /\ j \in 1 .. (n - 1)
    BY <1>1, <1>2, <1>4, <1>6
  <2> QED BY <2>1, <1>1, <1>4, <1>6
<1>7. CASE ~(j < i)
  <2>1. PICK l \in 1 .. (h - 1) : l + 1 = j /\ l \in 1 .. (n - 1) /\ ~(l < i)
    <3>1. j - 1 \in 1 .. (h - 1) /\ (j - 1) + 1 = j /\ j - 1 \in 1 .. (n - 1) /\ ~(j - 1 < i)
      BY <1>1, <1>2, <1>4, <1>5, <1>7
    <3> QED BY <3>1
  <2>2. queue'[s][l] = queue[s][j]
    BY <2>1, <1>1
  <2> QED BY <2>1, <2>2, <1>4
<1> QED BY <1>6, <1>7

\* A partition that nothing is added to is still read in order.
LEMMA ReadInOrderStays ==
  ASSUME IInv, [Next]_vars, NEW k, ReadInOrder(k), log'[k] = log[k]
  PROVE  ReadInOrder(k)'
BY Monotone DEF ReadInOrder

\* The head of a partition is stored with all that must be read before it there.
LEMMA StoresInOrder ==
  ASSUME IInv, [Next]_vars, OrderInv, NEW s \in Relays, NEW i \in Heads(s),
         NEW m \in Events, m = queue[s][i].event, Store(m)
  PROVE  FirstDeliveriesInOrder'
<1> SUFFICES ASSUME NEW k \in Keys \ LooseKeys, \A e \in MayFail \cup Poison : KeyOf[e] # k
             PROVE  ReadInOrder(k)'
  BY DEF FirstDeliveriesInOrder
<1>1. ReadInOrder(k)
  BY DEF OrderInv, FirstDeliveriesInOrder
<1>2. CASE k # KeyOf[m]
  <2>1. log'[k] = log[k]
    BY <1>2, StoreKeeps DEF IInv
  <2> QED BY <2>1, <1>1, ReadInOrderStays
<1>3. CASE k = KeyOf[m]
  <2> DEFINE n == Len(log[k])
  <2>1. /\ DOMAIN log'[k] = 1 .. (n + 1)
        /\ DOMAIN log[k] = 1 .. n /\ n \in Nat
        /\ \A j \in 1 .. n : log'[k][j] = log[k][j]
        /\ log'[k][n + 1] = m
    <3>1. TypeOK
      BY DEF IInv
    <3>2. /\ DOMAIN log'[KeyOf[m]] = 1 .. (Len(log[KeyOf[m]]) + 1)
          /\ DOMAIN log[KeyOf[m]] = 1 .. Len(log[KeyOf[m]]) /\ Len(log[KeyOf[m]]) \in Nat
          /\ \A j \in 1 .. Len(log[KeyOf[m]]) : log'[KeyOf[m]][j] = log[KeyOf[m]][j]
          /\ log'[KeyOf[m]][Len(log[KeyOf[m]]) + 1] = m
      BY <3>1, StoreKeeps
    <3> QED BY <3>2, <1>3
  <2> HIDE DEF n
  <2> SUFFICES ASSUME NEW h \in 1 .. (n + 1), NEW e \in Events,
                      KeyOf[e] = k, e < log'[k][h], table'[e] # "rolledback"
               PROVE  \E j \in 1 .. (h - 1) : log'[k][j] = e
    BY <2>1 DEF ReadInOrder
  <2>2. table[e] # "rolledback"
    BY Monotone
  <2>3. CASE h \in 1 .. n
    <3>1. PICK j \in 1 .. (h - 1) : log[k][j] = e
      BY <1>1, <2>1, <2>2, <2>3 DEF ReadInOrder
    <3>2. j \in 1 .. n
      BY <2>1, <2>3
    <3> QED BY <3>1, <3>2, <2>1
  <2>4. CASE h \notin 1 .. n
    <3>1. h = n + 1
      BY <2>1, <2>4
    <3>2. m \in Clean /\ Before(e, m)
      BY <3>1, <1>3, <2>1, <2>2 DEF Clean, Before
    <3>3. i \in DOMAIN queue[s] /\ \A j \in 1 .. (i - 1) : queue[s][j].event # e
      BY <1>3 DEF Heads
    <3>4. Stored(e)
      BY <3>2, <3>3 DEF OrderInv, InOrder
    <3>5. PICK j \in 1 .. n : log[k][j] = e
      BY <3>4, <2>1 DEF Stored, Contains, n
    <3>6. j \in 1 .. (h - 1)
      BY <3>1, <2>1
    <3> QED BY <3>5, <3>6, <2>1
  <2> QED BY <2>3, <2>4
<1> QED BY <1>2, <1>3

\* What a step does to the lists of a relay, where it stores nothing: they stay, or are
\* dropped, or are as its action leaves them.
LEMMA OrderStays ==
  ASSUME IInv, [Next]_vars, OrderInv, NEW s \in Relays,
         UNCHANGED log,
         \A t \in Relays : t # s => batch'[t] = batch[t] /\ queue'[t] = queue[t],
         batch'[s] = batch[s] \/ batch'[s] = <<>> \/ InOrder(batch[s])',
         queue'[s] = queue[s] \/ queue'[s] = <<>> \/ InOrder(queue[s])'
  PROVE  OrderInv'
<1>1. SettledInOrder'
  BY SettledInOrderKept DEF OrderInv
<1>2. \A k \in Keys : ReadInOrder(k) => ReadInOrder(k)'
  BY ReadInOrderStays
<1>3. FirstDeliveriesInOrder'
  BY <1>2 DEF OrderInv, FirstDeliveriesInOrder
<1>4. ASSUME NEW t \in Relays, NEW l, l = batch[t], l = batch'[t] PROVE InOrder(batch[t])'
  <2>1. InOrder(l)
    BY <1>4 DEF OrderInv
  <2>2. InOrder(l)'
    BY <2>1, InOrderStays
  <2> QED BY <2>2, <1>4
<1>5. ASSUME NEW t \in Relays, NEW l, l = queue[t], l = queue'[t] PROVE InOrder(queue[t])'
  <2>1. InOrder(l)
    BY <1>5 DEF OrderInv
  <2>2. InOrder(l)'
    BY <2>1, InOrderStays
  <2> QED BY <2>2, <1>5
<1>6. ASSUME NEW t \in Relays PROVE /\ batch'[t] = <<>> => InOrder(batch[t])'
                                    /\ queue'[t] = <<>> => InOrder(queue[t])'
  BY DEF InOrder
<1>7. \A t \in Relays : InOrder(batch[t])' /\ InOrder(queue[t])'
  BY <1>4, <1>5, <1>6
<1> QED BY <1>1, <1>3, <1>7 DEF OrderInv

\* The steps of _drain keep the order.
LEMMA DrainOrder ==
  ASSUME IInv, [Next]_vars, OrderInv, NEW s \in Relays, Drain(s)
  PROVE  OrderInv'
<1>1. CASE Poll(s)
  <2>1. UNCHANGED <<log, queue>> /\ \A t \in Relays : t # s => batch'[t] = batch[t]
    BY <1>1 DEF Poll, IInv, TypeOK
  <2>2. InOrder(batch'[s])
    BY <1>1, PollInOrder DEF OrderInv
  <2>3. PICK l : l = batch'[s]
    OBVIOUS
  <2>4. InOrder(l)'
    BY <2>2, <2>3, InOrderStays
  <2>5. InOrder(batch[s])'
    BY <2>3, <2>4
  <2> QED BY <2>1, <2>5, OrderStays
<1>2. CASE Produce(s)
  <2>1. UNCHANGED <<log, batch>> /\ \A t \in Relays : t # s => queue'[t] = queue[t]
    BY <1>2 DEF Produce, IInv, TypeOK
  <2>2. InOrder(queue'[s])
    BY <1>2, ProduceInOrder DEF OrderInv
  <2>3. PICK l : l = queue'[s]
    OBVIOUS
  <2>4. InOrder(l)'
    BY <2>2, <2>3, InOrderStays
  <2>5. InOrder(queue[s])'
    BY <2>3, <2>4
  <2> QED BY <2>1, <2>5, OrderStays
<1>3. CASE Flushed(s)
  <2>1. /\ UNCHANGED <<log, batch>> /\ \A t \in Relays : t # s => queue'[t] = queue[t]
        /\ \/ queue'[s] = queue[s]
           \/ queue'[s] = [i \in DOMAIN queue[s] |->
                             [event |-> queue[s][i].event, awaited |-> FALSE]]
    BY <1>3 DEF Flushed, IInv, TypeOK
  <2>2. CASE queue'[s] = queue[s]
    BY <2>1, <2>2, OrderStays
  <2>3. CASE queue'[s] # queue[s]
    <3>1. PICK l : l = queue[s]
      OBVIOUS
    <3>2. InOrder(l)'
      BY <3>1, InOrderStays DEF OrderInv
    <3>3. /\ DOMAIN queue'[s] = DOMAIN l
          /\ \A i \in DOMAIN l : queue'[s][i].event = l[i].event
      BY <2>1, <2>3, <3>1
    <3>4. Len(l) \in Nat /\ DOMAIN l = 1 .. Len(l)
      BY <3>1, Typed DEF IInv
    <3>5. \A i \in DOMAIN l : \A j \in 1 .. (i - 1) : j \in DOMAIN l
      BY <3>4
    <3>6. InOrder(queue[s])'
      BY <3>2, <3>3, <3>5 DEF InOrder
    <3> QED BY <2>1, <3>6, OrderStays
  <2> QED BY <2>2, <2>3
<1>4. CASE Mark(s)
  <2>1. /\ UNCHANGED log /\ batch'[s] = <<>>
        /\ \A t \in Relays : t # s => batch'[t] = batch[t] /\ queue'[t] = queue[t]
        /\ queue'[s] = queue[s] \/ queue'[s] = <<>>
    BY <1>4 DEF Mark, IInv, TypeOK
  <2> QED BY <2>1, OrderStays
<1>5. CASE Exit(s)
  <2>1. /\ UNCHANGED <<log, batch>> /\ queue'[s] = <<>>
        /\ \A t \in Relays : t # s => queue'[t] = queue[t]
    BY <1>5 DEF Exit, IInv, TypeOK
  <2> QED BY <2>1, OrderStays
<1> QED BY <1>1, <1>2, <1>3, <1>4, <1>5 DEF Drain

\* So do those of the broker.
LEMMA BrokerOrder ==
  ASSUME IInv, [Next]_vars, OrderInv, NEW s \in Relays, Broker(s)
  PROVE  OrderInv'
<1>1. PICK i \in Heads(s) :
        /\ queue' = [queue EXCEPT ![s] = RemoveAt(@, i)]
        /\ UNCHANGED batch
        /\ \/ Store(queue[s][i].event)
           \/ queue[s][i].event \in MayFail \cup Poison /\ UNCHANGED log
           \/ queue[s][i].event \in MayFail \cup Poison /\ Store(queue[s][i].event)
  BY DEF Broker, BrokerStores, BrokerFails
<1>2. PICK m \in Events : i \in DOMAIN queue[s] /\ m = queue[s][i].event
  BY Typed DEF Heads, IInv
<1>3. Stored(m)' \/ m \in MayFail \cup Poison
  BY <1>1, <1>2, StoreKeeps DEF IInv
<1>4. InOrder(queue[s])'
  BY <1>1, <1>2, <1>3, LeavesInOrder DEF OrderInv
<1>5. \A t \in Relays : t # s => queue'[t] = queue[t]
  BY <1>1 DEF IInv, TypeOK
<1>6. CASE Store(m)
  <2>1. SettledInOrder'
    BY SettledInOrderKept DEF OrderInv
  <2>2. FirstDeliveriesInOrder'
    BY <1>1, <1>2, <1>6, StoresInOrder
  <2>3. ASSUME NEW t \in Relays PROVE InOrder(batch[t])' /\ (t # s => InOrder(queue[t])')
    <3>1. PICK b, q : b = batch[t] /\ q = queue[t]
      OBVIOUS
    <3>2. InOrder(b)' /\ InOrder(q)'
      BY <3>1, InOrderStays DEF OrderInv
    <3>3. batch'[t] = b /\ (t # s => queue'[t] = q)
      BY <3>1, <1>1, <1>5
    <3> QED BY <3>2, <3>3
  <2> QED BY <2>1, <2>2, <2>3, <1>4 DEF OrderInv
<1>7. CASE UNCHANGED log
  BY <1>1, <1>4, <1>5, <1>7, OrderStays
<1> QED BY <1>1, <1>2, <1>6, <1>7

\* And every other step.
LEMMA OrderKept ==
  ASSUME IInv, [Next]_vars, OrderInv
  PROVE  OrderInv'
<1>1. CASE \E s \in Relays : Drain(s)
  BY <1>1, DrainOrder
<1>2. CASE \E s \in Relays : Broker(s)
  BY <1>2, BrokerOrder
<1>3. ASSUME NEW s \in Relays, Disturb(s) \/ Restart(s) PROVE OrderInv'
  <2>1. /\ UNCHANGED log
        /\ \A t \in Relays : t # s => batch'[t] = batch[t] /\ queue'[t] = queue[t]
        /\ batch'[s] = batch[s] \/ batch'[s] = <<>>
        /\ queue'[s] = queue[s] \/ queue'[s] = <<>>
    BY <1>3 DEF Disturb, Signal, Crash, Launch, Restart, Begin, IInv, TypeOK
  <2> QED BY <2>1, OrderStays
<1>4. CASE UNCHANGED <<log, batch, queue>>
  <2>1. SettledInOrder'
    BY SettledInOrderKept DEF OrderInv
  <2>2. \A k \in Keys : ReadInOrder(k) => ReadInOrder(k)'
    BY <1>4, ReadInOrderStays
  <2>3. ASSUME NEW t \in Relays PROVE InOrder(batch[t])' /\ InOrder(queue[t])'
    <3>1. PICK b, q : b = batch[t] /\ q = queue[t]
      OBVIOUS
    <3>2. InOrder(b)' /\ InOrder(q)'
      BY <3>1, InOrderStays DEF OrderInv
    <3>3. batch'[t] = b /\ queue'[t] = q
      BY <3>1, <1>4
    <3> QED BY <3>2, <3>3
  <2> QED BY <2>1, <2>2, <2>3 DEF OrderInv, FirstDeliveriesInOrder
<1>5. (\E S \in SUBSET Events : Settle(S)) \/ Quiet \/ UNCHANGED vars => UNCHANGED <<log, batch, queue>>
  BY DEF Settle, Quiet, vars, relay
<1> QED BY <1>1, <1>2, <1>3, <1>4, <1>5 DEF Next

\* A consumer of an entity whose row is locked by those who write of it, and whose
\* deliveries do not fail, reads its events in the order of their ids and misses none,
\* whatever crashes, times out or is repeated.
THEOREM EntitiesAreInOrder == Spec => []FirstDeliveriesInOrder
<1>1. Init => OrderInv
  BY InitOrder
<1>2. OrderInv => FirstDeliveriesInOrder
  BY DEF OrderInv
<1> QED BY <1>1, <1>2, Invariance, OrderKept, PTL DEF Spec

-----------------------------------------------------------------------------
(* One relay and no fault                                                  *)

\* Before the first fault only the replica works, and what it has in hand is fresh.
LEMMA CalmMeans ==
  ASSUME OneReplica, IInv, Calm, [Next]_vars, faults' = 0
  PROVE  /\ faults = 0
         /\ \A s \in Relays : HandsAreFresh(s)
         /\ \A e \in Events :
              Stored(e) => table[e] = "published" \/ \E s \in Relays : e \in delivered[s]
         /\ \A k \in Keys : IsInjective(log[k])
         /\ \A s \in Relays : pc[s] # "exited" => s \notin OnceRelays
         /\ \A s, t \in Relays : pc[s] # "exited" /\ t # s =>
              /\ queue[t] = <<>> /\ batch[t] = <<>>
              /\ delivered[t] = {}
              /\ t \in OnceRelays
<1>1. faults = 0
  <2>1. faults \in Nat
    BY RelayAssumption DEF IInv, TypeOK
  <2>2. ASSUME NEW s \in Relays, Drain(s) PROVE UNCHANGED faults \/ faults' = faults + 1
    BY <2>2 DEF Drain, Poll, Produce, Flushed, Mark, Exit, Fault
  <2>3. ASSUME NEW s \in Relays, Broker(s) PROVE UNCHANGED faults \/ faults' = faults + 1
    BY <2>3 DEF Broker, BrokerStores, BrokerFails, Fault
  <2>4. ASSUME NEW s \in Relays, Disturb(s) \/ Restart(s)
        PROVE  UNCHANGED faults \/ faults' = faults + 1
    BY <2>4 DEF Disturb, Signal, Crash, Launch, Restart, Fault
  <2>5. UNCHANGED faults \/ faults' = faults + 1
    BY <2>2, <2>3, <2>4 DEF Next, Settle, Quiet, vars
  <2> QED BY <2>1, <2>5
<1>2. \A s \in Relays : HandsAreFresh(s) /\ (pc[s] # "exited" => s \notin OnceRelays)
  BY <1>1 DEF Calm, HandsAreFresh
<1>3. ASSUME NEW s \in Relays, NEW t \in Relays, pc[s] # "exited", t # s
      PROVE  queue[t] = <<>> /\ batch[t] = <<>> /\ delivered[t] = {} /\ t \in OnceRelays
  <2>1. t \in OnceRelays
    BY <1>2, <1>3 DEF OneReplica
  <2>2. pc[t] = "exited"
    BY <2>1, <1>2 DEF HandsAreFresh
  <2> QED BY <2>1, <2>2, <1>2 DEF HandsAreFresh, IInv, IdleIsEmpty
<1> QED BY <1>1, <1>2, <1>3 DEF Calm

\* A relay whose hands a step does not touch keeps them fresh, if none of its events is
\* marked or stored.
LEMMA FreshStays ==
  ASSUME TypeOK, NEW s \in Relays, HandsAreFresh(s),
         pc'[s] = pc[s], batch'[s] = batch[s], queue'[s] = queue[s], UNCHANGED log,
         \A e \in Events : table[e] = "pending" => table'[e] = "pending"
  PROVE  HandsAreFresh(s)'
<1>1. /\ \A i \in DOMAIN batch[s] : batch[s][i].event \in Events
      /\ \A i \in DOMAIN queue[s] : queue[s][i].event \in Events
  BY Typed
<1>2. \A e : Stored(e)' <=> Stored(e)
  BY DEF Stored
<1> QED BY <1>1, <1>2 DEF HandsAreFresh

\* One with empty hands has them fresh.
LEMMA EmptyIsFresh ==
  ASSUME NEW s \in Relays, s \in OnceRelays => pc'[s] = "exited",
         batch'[s] = <<>>, queue'[s] = <<>>
  PROVE  HandsAreFresh(s)'
BY DEF HandsAreFresh

\* The steps of _drain.
LEMMA CalmDrain ==
  ASSUME OneReplica, IInv, Calm, [Next]_vars, faults' = 0, NEW s \in Relays, Drain(s)
  PROVE  Calm'
<1>1. /\ HandsAreFresh(s)
      /\ \A e \in Events :
           Stored(e) => table[e] = "published" \/ \E t \in Relays : e \in delivered[t]
      /\ \A k \in Keys : IsInjective(log[k])
      /\ pc[s] # "exited" /\ s \notin OnceRelays
      /\ \A t \in Relays : t # s =>
           queue[t] = <<>> /\ batch[t] = <<>> /\ delivered[t] = {} /\ t \in OnceRelays
                           /\ pc[t] = "exited"
  <2>1. pc[s] # "exited"
    BY DEF Drain, Poll, Produce, Flushed, Mark, Exit
  <2> QED BY <2>1, CalmMeans DEF HandsAreFresh
<1>2. /\ UNCHANGED log
      /\ \A t \in Relays : t # s => /\ queue'[t] = queue[t] /\ batch'[t] = batch[t]
                                    /\ pc'[t] = pc[t] /\ delivered'[t] = delivered[t]
  BY DEF Drain, Poll, Produce, Flushed, Mark, Exit, Goto, IInv, TypeOK
<1>3. \A t \in Relays : t # s => HandsAreFresh(t)'
  BY <1>1, <1>2 DEF HandsAreFresh
<1>4. \A k \in Keys : IsInjective(log'[k])
  BY <1>1, <1>2
<1>5. \A e : Stored(e)' <=> Stored(e)
  BY <1>2 DEF Stored
<1>6. \A e \in Events : Stored(e) => table[e] = "published" \/ e \in delivered[s]
  BY <1>1
<1> SUFFICES /\ HandsAreFresh(s)'
             /\ \A e \in Events : Stored(e) => table'[e] = "published" \/ e \in delivered'[s]
  BY <1>3, <1>4, <1>5 DEF Calm
<1>7. CASE Poll(s)
  <2>1. PICK ids \in BoundedSeq(Pending, BatchSize) :
          /\ Oldest(ids, BatchSize)
          /\ DOMAIN ids = 1 .. Len(ids) /\ Len(ids) \in Nat
          /\ \A i \in DOMAIN ids : ids[i] \in Events /\ table[ids[i]] = "pending"
          /\ DOMAIN batch'[s] = DOMAIN ids
          /\ \A i \in DOMAIN ids : batch'[s][i].event = ids[i]
    BY <1>7, PollReads DEF IInv
  <2>2. /\ pc[s] = "poll" /\ pc'[s] = "produce"
        /\ UNCHANGED <<table, queue, delivered>>
    BY <1>7 DEF Poll, Goto, IInv, TypeOK
  <2>3. \A i, j \in DOMAIN ids : ids[i] = ids[j] => i = j
    <3>1. \A i, j \in DOMAIN ids : i < j => ids[i] < ids[j]
      BY <2>1 DEF Oldest
    <3>2. \A i \in DOMAIN ids : i \in Nat
      BY <2>1
    <3>3. \A i \in DOMAIN ids : ids[i] \in Nat
      BY <2>1, RelayAssumption
    <3> QED BY <3>1, <3>2, <3>3
  <2>4. queue'[s] = <<>>
    BY <2>2, <1>1 DEF HandsAreFresh
  <2>5. HandsAreFresh(s)'
    BY <2>1, <2>2, <2>3, <2>4, <1>1 DEF HandsAreFresh
  <2> QED BY <2>2, <2>5, <1>6
<1>8. CASE Produce(s)
  <2>1. /\ pc[s] = "produce" /\ pc'[s] = "flush" /\ queue[s] = <<>>
        /\ UNCHANGED <<table, batch, delivered>>
    BY <1>8, <1>1 DEF Produce, Goto, HandsAreFresh, IInv, TypeOK
  <2>2. /\ DOMAIN queue'[s] = DOMAIN batch[s]
        /\ \A i \in DOMAIN batch[s] :
             queue'[s][i].event = batch[s][i].event /\ queue'[s][i].awaited
    <3> DEFINE new == [i \in DOMAIN batch[s] |->
                         [event |-> batch[s][i].event, awaited |-> TRUE]]
    <3>1. queue' = [queue EXCEPT ![s] = queue[s] \o new]
      BY <1>8 DEF Produce
    <3>2. queue[s] \o new = new
      <4> DEFINE Message == [event : Events, awaited : BOOLEAN]
      <4>1. Len(batch[s]) \in Nat /\ new \in [1 .. Len(batch[s]) -> Message]
        BY Typed DEF IInv
      <4> HIDE DEF new, Message
      <4>2. new \in Seq(Message)
        BY <4>1, SeqDef
      <4> QED BY <2>1, <4>2, ConcatEmptySeq
    <3>3. /\ DOMAIN new = DOMAIN batch[s]
          /\ \A i \in DOMAIN batch[s] : new[i].event = batch[s][i].event /\ new[i].awaited
      OBVIOUS
    <3> HIDE DEF new
    <3>4. queue'[s] = new
      BY <3>1, <3>2 DEF IInv, TypeOK
    <3> QED BY <3>3, <3>4
  <2>3. \A i \in DOMAIN batch[s] : LET e == batch[s][i].event
                                   IN table[e] = "pending" /\ ~Stored(e)
    <3>1. delivered[s] = {}
      BY <2>1 DEF IInv, IdleIsEmpty
    <3>2. \A i \in DOMAIN batch[s] : /\ batch[s][i].event \in Events
                                     /\ table[batch[s][i].event] = "pending"
      BY <1>1, Typed DEF HandsAreFresh, IInv
    <3> QED BY <3>1, <3>2, <1>6
  <2>4. HandsAreFresh(s)'
    BY <2>1, <2>2, <2>3, <1>1, <1>5 DEF HandsAreFresh
  <2> QED BY <2>1, <2>4, <1>6
<1>9. CASE Flushed(s)
  <2>1. queue[s] = <<>> /\ UNCHANGED queue
    <3>1. faults = 0 /\ ~Fault
      BY CalmMeans DEF Fault
    <3> QED BY <3>1, <1>9 DEF Flushed
  <2>2. pc'[s] = "mark" /\ UNCHANGED <<table, batch, delivered>>
    BY <1>9 DEF Flushed, Goto, IInv, TypeOK
  <2>3. HandsAreFresh(s)'
    BY <2>1, <2>2, <1>1, <1>5 DEF HandsAreFresh
  <2> QED BY <2>2, <2>3, <1>6
<1>10. CASE Mark(s)
  <2>1. /\ pc[s] = "mark" /\ batch'[s] = <<>>
        /\ queue'[s] = <<>> \/ queue'[s] = queue[s]
        /\ table' = [e \in Events |-> IF e \in delivered[s] THEN "published" ELSE table[e]]
    BY <1>10 DEF Mark, IInv, TypeOK
  <2>2. queue'[s] = <<>>
    BY <2>1, <1>1 DEF HandsAreFresh
  <2>3. HandsAreFresh(s)'
    BY <2>1, <2>2, <1>1, EmptyIsFresh
  <2> QED BY <2>1, <2>3, <1>6
<1>11. CASE Exit(s)
  <2>1. /\ pc[s] = "poll" /\ queue'[s] = <<>> /\ UNCHANGED <<table, batch, delivered>>
    BY <1>11 DEF Exit, IInv, TypeOK
  <2>2. batch'[s] = <<>>
    BY <2>1 DEF IInv, IdleIsEmpty
  <2>3. HandsAreFresh(s)'
    BY <2>1, <2>2, <1>1, EmptyIsFresh
  <2> QED BY <2>1, <2>3, <1>6
<1> QED BY <1>7, <1>8, <1>9, <1>10, <1>11 DEF Drain

\* Those of the broker: each message leaves the queue stored, and reported.
LEMMA CalmBroker ==
  ASSUME OneReplica, IInv, Calm, [Next]_vars, faults' = 0, NEW s \in Relays, Broker(s)
  PROVE  Calm'
<1>1. PICK i \in Heads(s) :
        /\ queue' = [queue EXCEPT ![s] = RemoveAt(@, i)]
        /\ UNCHANGED <<table, pc, batch>>
        /\ \/ Store(queue[s][i].event) /\ delivered' = Report(s, i, delivered)
           \/ UNCHANGED <<log, delivered>>
  <2>1. ~Fault
    BY CalmMeans DEF Fault
  <2> QED BY <2>1 DEF Broker, BrokerStores, BrokerFails
<1>2. PICK m \in Events : i \in DOMAIN queue[s] /\ m = queue[s][i].event
  BY Typed DEF Heads, IInv
<1>3. /\ HandsAreFresh(s)
      /\ \A e \in Events :
           Stored(e) => table[e] = "published" \/ \E t \in Relays : e \in delivered[t]
      /\ \A k \in Keys : IsInjective(log[k])
      /\ \A t \in Relays : t # s =>
           queue[t] = <<>> /\ batch[t] = <<>> /\ t \in OnceRelays /\ pc[t] = "exited"
      /\ pc[s] = "flush"
  <2>1. HandsAreFresh(s) /\ pc[s] = "flush"
    BY <1>2, CalmMeans DEF HandsAreFresh
  <2> QED BY <2>1, CalmMeans DEF HandsAreFresh
<1>4. /\ \A t \in Relays : t # s => queue'[t] = queue[t]
      /\ DOMAIN queue'[s] = 1 .. (Len(queue[s]) - 1)
      /\ Len(queue[s]) \in Nat /\ i \in 1 .. Len(queue[s]) /\ DOMAIN queue[s] = 1 .. Len(queue[s])
      /\ \A j \in 1 .. (Len(queue[s]) - 1) :
           queue'[s][j] = IF j < i THEN queue[s][j] ELSE queue[s][j + 1]
  BY <1>1, <1>2, MessageLeaves DEF IInv
<1>5. \A j \in DOMAIN queue'[s] : \E h \in DOMAIN queue[s] :
        h # i /\ queue'[s][j] = queue[s][h] /\ h = IF j < i THEN j ELSE j + 1
  <2> DEFINE n == Len(queue[s])
  <2> HIDE DEF n
  <2>1. ASSUME NEW j \in 1 .. (n - 1)
        PROVE  \E h \in 1 .. n : h # i /\ queue'[s][j] = queue[s][h] /\ h = IF j < i THEN j ELSE j + 1
    <3>1. j \in 1 .. n /\ (j < i \/ (j + 1 \in 1 .. n /\ j + 1 # i))
      BY <1>4 DEF n
    <3> QED BY <3>1, <1>4 DEF n
  <2> QED BY <2>1, <1>4 DEF n
<1>6. \A t \in Relays : t # s => HandsAreFresh(t)'
  BY <1>1, <1>3, <1>4 DEF HandsAreFresh
<1>7. ~Stored(m) /\ queue[s][i].awaited
  BY <1>2, <1>3 DEF HandsAreFresh
<1>8. CASE Store(m) /\ delivered' = Report(s, i, delivered)
  <2>1. /\ \A f \in Events : Stored(f)' => Stored(f) \/ f = m
        /\ \A k \in Keys : k # KeyOf[m] => log'[k] = log[k]
    BY <1>8, StoreKeeps DEF IInv
  <2>2. delivered' = [delivered EXCEPT ![s] = @ \cup {m}]
    BY <1>2, <1>3, <1>7, <1>8 DEF Report
  <2>3. ASSUME NEW e \in Events, Stored(e)'
        PROVE  table'[e] = "published" \/ \E t \in Relays : e \in delivered'[t]
    BY <2>1, <2>2, <2>3, <1>1, <1>3 DEF IInv, TypeOK
  <2>4. ASSUME NEW k \in Keys PROVE IsInjective(log'[k])
    <3>1. CASE k # KeyOf[m]
      BY <2>1, <3>1, <1>3
    <3>2. CASE k = KeyOf[m]
      <4> DEFINE n == Len(log[k])
      <4>1. /\ DOMAIN log'[k] = 1 .. (n + 1) /\ DOMAIN log[k] = 1 .. n /\ n \in Nat
            /\ \A j \in 1 .. n : log'[k][j] = log[k][j]
            /\ log'[k][n + 1] = m
        BY <1>8, <3>2, StoreKeeps DEF IInv
      <4>2. \A j \in 1 .. n : log[k][j] # m
        BY <1>7, <3>2, <4>1 DEF Stored, Contains
      <4>3. \A a, b \in 1 .. n : log[k][a] = log[k][b] => a = b
        BY <1>3, <4>1 DEF IsInjective
      <4> HIDE DEF n
      <4>4. \A a \in 1 .. (n + 1) : a \in 1 .. n \/ a = n + 1
        BY <4>1
      <4>5. \A a, b \in 1 .. (n + 1) : log'[k][a] = log'[k][b] => a = b
        BY <4>1, <4>2, <4>3, <4>4
      <4> QED BY <4>1, <4>5 DEF IsInjective
    <3> QED BY <3>1, <3>2
  <2>5. ASSUME NEW j \in DOMAIN queue'[s], NEW e, e = queue'[s][j].event
        PROVE  queue'[s][j].awaited /\ table'[e] = "pending" /\ ~Stored(e)'
    <3>1. PICK h \in DOMAIN queue[s] : h # i /\ queue'[s][j] = queue[s][h]
      BY <1>5
    <3>2. e \in Events /\ queue[s][h].awaited /\ table[e] = "pending" /\ ~Stored(e) /\ e # m
      BY <3>1, <2>5, <1>2, <1>3, Typed DEF HandsAreFresh, IInv
    <3> QED BY <3>1, <3>2, <2>1, <1>1
  <2>6. ASSUME NEW a \in DOMAIN queue'[s], NEW b \in DOMAIN queue'[s],
               queue'[s][a].event = queue'[s][b].event
        PROVE  a = b
    <3>1. PICK h \in DOMAIN queue[s] : queue'[s][a] = queue[s][h] /\ h = IF a < i THEN a ELSE a + 1
      BY <1>5
    <3>2. PICK g \in DOMAIN queue[s] : queue'[s][b] = queue[s][g] /\ g = IF b < i THEN b ELSE b + 1
      BY <1>5
    <3>3. h = g
      BY <3>1, <3>2, <2>6, <1>3 DEF HandsAreFresh
    <3> QED BY <3>1, <3>2, <3>3, <1>4
  <2>7. HandsAreFresh(s)'
    BY <2>5, <2>6, <1>1, <1>3 DEF HandsAreFresh
  <2> QED BY <2>3, <2>4, <2>7, <1>6 DEF Calm
<1>9. CASE UNCHANGED <<log, delivered>>
  <2>1. \A e : Stored(e)' <=> Stored(e)
    BY <1>9 DEF Stored
  <2>2. ASSUME NEW j \in DOMAIN queue'[s], NEW e, e = queue'[s][j].event
        PROVE  queue'[s][j].awaited /\ table'[e] = "pending" /\ ~Stored(e)'
    BY <2>1, <2>2, <1>1, <1>3, <1>5 DEF HandsAreFresh
  <2>3. ASSUME NEW a \in DOMAIN queue'[s], NEW b \in DOMAIN queue'[s],
               queue'[s][a].event = queue'[s][b].event
        PROVE  a = b
    <3>1. PICK h \in DOMAIN queue[s] : queue'[s][a] = queue[s][h] /\ h = IF a < i THEN a ELSE a + 1
      BY <1>5
    <3>2. PICK g \in DOMAIN queue[s] : queue'[s][b] = queue[s][g] /\ g = IF b < i THEN b ELSE b + 1
      BY <1>5
    <3>3. h = g
      BY <3>1, <3>2, <2>3, <1>3 DEF HandsAreFresh
    <3> QED BY <3>1, <3>2, <3>3, <1>4
  <2>4. HandsAreFresh(s)'
    BY <2>2, <2>3, <1>1, <1>3 DEF HandsAreFresh
  <2> QED BY <2>1, <2>4, <1>1, <1>3, <1>6, <1>9 DEF Calm
<1> QED BY <1>1, <1>2, <1>8, <1>9

\* And every other step.
LEMMA CalmKept ==
  ASSUME OneReplica, IInv, Calm, [Next]_vars
  PROVE  Calm'
<1> SUFFICES ASSUME faults' = 0 PROVE Calm'
  BY DEF Calm
<1>1. /\ \A s \in Relays : HandsAreFresh(s)
      /\ \A e \in Events :
           Stored(e) => table[e] = "published" \/ \E s \in Relays : e \in delivered[s]
      /\ \A k \in Keys : IsInjective(log[k])
  BY CalmMeans
<1>2. CASE \E s \in Relays : Drain(s)
  BY <1>2, CalmDrain
<1>3. CASE \E s \in Relays : Broker(s)
  BY <1>3, CalmBroker
<1>4. ASSUME NEW s \in Relays, Disturb(s) PROVE FALSE
  <2>1. ~Fault
    BY CalmMeans DEF Fault
  <2> QED BY <1>4, <2>1 DEF Disturb, Signal, Crash, Launch
<1>5. ASSUME /\ UNCHANGED <<log, batch, queue, delivered>>
             /\ \A s \in Relays : pc'[s] = pc[s] \/ (s \notin OnceRelays /\ queue[s] = <<>>
                                                     /\ batch[s] = <<>>)
             /\ \A e \in Events : /\ table[e] = "pending" => table'[e] = "pending"
                                  /\ table[e] = "published" => table'[e] = "published"
      PROVE  Calm'
  <2>1. \A s \in Relays : HandsAreFresh(s)'
    BY <1>1, <1>5, FreshStays, EmptyIsFresh DEF IInv
  <2>2. \A e : Stored(e)' <=> Stored(e)
    BY <1>5 DEF Stored
  <2> QED BY <2>1, <2>2, <1>1, <1>5 DEF Calm
<1>6. ASSUME NEW s \in Relays, Restart(s) PROVE Calm'
  <2>1. /\ UNCHANGED <<table, log, batch, queue, delivered>>
        /\ pc[s] \in {"exited", "down"} /\ s \notin OnceRelays
        /\ \A t \in Relays : t # s => pc'[t] = pc[t]
    BY <1>6 DEF Restart, Begin, Running, Goto, IInv, TypeOK
  <2>2. queue[s] = <<>> /\ batch[s] = <<>>
    BY <2>1, <1>1 DEF HandsAreFresh, IInv, IdleIsEmpty
  <2> QED BY <2>1, <2>2, <1>5
<1>7. ASSUME NEW S \in SUBSET Events, Settle(S) PROVE Calm'
  <2>1. /\ UNCHANGED <<log, batch, queue, delivered, pc>>
        /\ \A f \in Events : (f \in S /\ table[f] = "absent") \/ table'[f] = table[f]
    BY <1>7 DEF Settle, Settled, relay, IInv, TypeOK
  <2> QED BY <2>1, <1>5
<1>8. CASE Quiet \/ UNCHANGED vars
  <2>1. UNCHANGED <<log, batch, queue, delivered, pc, table>>
    BY <1>8 DEF Quiet, vars, relay
  <2> QED BY <2>1, <1>5
<1> QED BY <1>2, <1>3, <1>4, <1>6, <1>7, <1>8 DEF Next

\* With one replica, an event is delivered twice only after a fault.
THEOREM NoRepeatWithoutFault ==
  ASSUME OneReplica
  PROVE  Spec => []RepeatsNeedAFault
<1>1. Init => Calm
  BY InitOrder
<1>2. Calm => RepeatsNeedAFault
  BY DEF Calm, RepeatsNeedAFault
<1>3. IInv /\ Calm /\ [Next]_vars => Calm'
  BY CalmKept
<1> QED BY <1>1, <1>2, <1>3, Invariance, PTL DEF Spec
=============================================================================

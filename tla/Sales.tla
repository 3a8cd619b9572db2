-------------------------------- MODULE Sales --------------------------------
(***************************************************************************)
(* Orders, payments, and the rows a chain of foreign keys puts under them: *)
(* customers, their sales reps, the reps' managers and offices.  The views *)
(* are OrderViewSet, PaymentViewSet, and the four that add nothing to      *)
(* BaseModelViewSet: ProductLine, Office, Employee and CustomerViewSet     *)
(* (api/v1/classicmodels/views.py); the events are the order and payment   *)
(* events of events/emit.py.  Isolation, requests and outbox ids are those *)
(* of Catalog; here three kinds of lock meet: the exclusive lock of an     *)
(* order row, the lock of a payments key being inserted, and the shared    *)
(* lock a foreign key takes on the customer.                               *)
(***************************************************************************)
EXTENDS Integers, FiniteSets

CONSTANTS Requests,       \* HTTP requests, each served once
          Tables,         \* the keys of productlines, offices, employees, customers
          Customers,      \* those of customers
          References,     \* what the foreign keys of a row may refer to, by table
          InUse,          \* keys that products refer to: their product lines
          Orders,         \* order numbers
          Statuses,       \* values of orders.status
          Checks,         \* check numbers
          Ops,            \* the endpoints the requests may call
          NoRow, NoJob,   \* "no such row", "nothing left to do"
          NoStatus,       \* a transaction that has read no status
          SeedRows,       \* the tables at the start
          SeedOrders,
          LinedOrders     \* orders that some order line refers to

AllOps == {"create_order", "update_order", "destroy_order",
           "create_payment", "update_payment", "destroy_payment",
           "create_row", "update_row", "destroy_row"}

Keys == UNION Tables

\* What the events, the keys and the foreign keys read of a row.
Order == [customer : Customers, status : Statuses]
Payment == [id : Requests, customer : Customers, check : Checks]

OrderJob == [order : Orders, url : Orders, row : Order]
RowJob == [key : Keys, refs : SUBSET Keys]

ASSUME SalesAssumption ==
  /\ Ops \subseteq AllOps
  /\ NoRow \notin Order /\ NoStatus \notin Statuses
  /\ Customers \in Tables
  /\ \A S, T \in Tables : S # T => S \cap T = {}
  /\ References \in [Tables -> SUBSET SUBSET Keys]
  /\ SeedRows \in [Keys -> {NoRow} \cup SUBSET Keys] /\ \A S \in SUBSET Keys : S # NoRow
  /\ \A T \in Tables : \A k \in T : SeedRows[k] \in {NoRow} \cup References[T]
  /\ \A k, l \in Keys : SeedRows[k] # NoRow /\ l \in SeedRows[k] => SeedRows[l] # NoRow
  /\ InUse \subseteq {k \in Keys \ Customers : SeedRows[k] # NoRow}
  /\ SeedOrders \in [Orders -> Order \cup {NoRow}]
  /\ \A o \in Orders : SeedOrders[o] # NoRow => SeedRows[SeedOrders[o].customer] # NoRow
  /\ LinedOrders \subseteq {o \in Orders : SeedOrders[o] # NoRow}

Event ==
  [type : {"order.created"}, id : Nat, subject : Orders, customer : Customers,
   after : Statuses]
    \cup
  [type : {"order.status_changed"}, id : Nat, subject : Orders, customer : Customers,
   before : Statuses, after : Statuses]
    \cup
  [type : {"payment.recorded"}, id : Nat, subject : Customers, check : Checks]

\* Mutant of order_created: two columns swapped.
order_created_swapped(id, o, row) ==
  [type |-> "order.created", id |-> id, subject |-> o, customer |-> row.status,
   after |-> row.customer]

order_created(id, o, row) ==
  [type |-> "order.created", id |-> id, subject |-> o, customer |-> row.customer,
   after |-> row.status]

order_status_changed(id, o, row, before) ==
  [type |-> "order.status_changed", id |-> id, subject |-> o,
   customer |-> row.customer, before |-> before, after |-> row.status]

payment_recorded(id, c, check) ==
  [type |-> "payment.recorded", id |-> id, subject |-> c, check |-> check]

IsOrderEvent(e) == e.type # "payment.recorded"

VARIABLES rows,       \* committed plain rows: the keys each one refers to, or NoRow
          orders,     \* committed orders rows
          payments,   \* committed payments rows
          outbox,     \* committed outbox_event rows
          nextId,     \* AUTO_INCREMENT of outbox_event
          pc, job,    \* per request: next statement, and what was asked
          seen,       \* per request: was_status
          events      \* per request: the outbox rows its transaction inserted

tables == <<rows, orders, payments, outbox>>
vars == <<rows, orders, payments, outbox, nextId, pc, job, seen, events>>

Answers == {"ok", "refused", "missing", "failed"}  \* 2xx, 400, 404, 500
InTransaction == {"insert_order", "reread_order", "write_order", "commit_order",
                  "insert_payment", "commit_payment"}
Autocommit == {"delete_order", "write_payment", "delete_payment",
               "insert_row", "write_row", "delete_row"}

Init ==
  /\ rows = SeedRows
  /\ orders = SeedOrders
  /\ payments = {}
  /\ outbox = {}
  /\ nextId = 1
  /\ pc = [r \in Requests |-> "new"]
  /\ job = [r \in Requests |-> NoJob]
  /\ seen = [r \in Requests |-> NoStatus]
  /\ events = [r \in Requests |-> {}]

\* The keys whose rows are there.
Present == {k \in Keys : rows[k] # NoRow}

-----------------------------------------------------------------------------
(* Locks held from a statement to the COMMIT of its transaction.           *)

UnlockedOrder(o) == \A r \in Requests : pc[r] = "commit_order" => job[r].order # o

UnlockedPayment(c, check) ==
  \A r \in Requests :
    pc[r] = "commit_payment" => job[r].customer # c \/ job[r].check # check

\* The customers that the rows r has written refer to, before or after: a
\* DELETE of the customer waits for them.
Refers(r) ==
  {c \in Customers :
     \/ pc[r] = "commit_payment" /\ job[r].customer = c
     \/ /\ pc[r] = "commit_order"
        /\ \/ job[r].row.customer = c
           \/ orders[job[r].order] # NoRow /\ orders[job[r].order].customer = c}
UnlockedRow(k) == \A r \in Requests : k \notin Refers(r)

-----------------------------------------------------------------------------
Goto(r, next) == pc' = [pc EXCEPT ![r] = next]

Finish(r, answer) ==
  /\ Goto(r, answer)
  /\ job' = [job EXCEPT ![r] = NoJob]
  /\ seen' = [seen EXCEPT ![r] = NoStatus]
  /\ UNCHANGED <<nextId, events>>

\* The answer of a request whose writes, if it made any, are rolled back.
Answer(r, answer) == Finish(r, answer) /\ UNCHANGED tables

\* The reads before perform_*: they fix what is asked, and the next statement.
Start(r, op, next, what) ==
  /\ pc[r] = "new" /\ op \in Ops
  /\ Goto(r, next)
  /\ job' = [job EXCEPT ![r] = what]
  /\ UNCHANGED <<tables, nextId, seen, events>>

Dismiss(r, op, answer) == Start(r, op, answer, NoJob)

\* A statement that ends with the rows written, its events raised, and COMMIT next.
Write(r, new, next) ==
  /\ events' = [events EXCEPT ![r] = new]
  /\ nextId' = nextId + Cardinality(new)
  /\ Goto(r, next)
  /\ UNCHANGED <<tables, job, seen>>

-----------------------------------------------------------------------------
(* POST /orders/                                                           *)

OrderCreate(r) ==
  \E o \in Orders, row \in Order :
    IF orders[o] = NoRow /\ row.customer \in Present
      THEN Start(r, "create_order", "insert_order", [order |-> o, url |-> o, row |-> row])
      ELSE Dismiss(r, "create_order", "refused")

\* Mutant of InsertOrder: save() without force_insert.
InsertOrderOver(r) ==
  LET j == job[r] IN
  /\ pc[r] = "insert_order" /\ UnlockedOrder(j.order)
  /\ j.row.customer \in Present
  /\ Write(r, {order_created(nextId, j.order, j.row)}, "commit_order")

\* objects.create(): the key may have been taken, and the customer deleted.
InsertOrder(r) ==
  LET j == job[r] IN
  /\ pc[r] = "insert_order" /\ UnlockedOrder(j.order)
  /\ IF orders[j.order] # NoRow \/ j.row.customer \notin Present
       THEN Answer(r, "failed")
       ELSE Write(r, {order_created(nextId, j.order, j.row)}, "commit_order")

-----------------------------------------------------------------------------
(* PUT and PATCH /orders/{number}                                          *)

\* update(): get_object() reads the instance the sent fields are laid over; the
\* number is a field too, and may name another row, not a taken one.
OrderUpdate(r) ==
  \E url, o \in Orders, sent \in Order, fields \in SUBSET {"status", "customer"} :
    IF orders[url] = NoRow
      THEN Dismiss(r, "update_order", "missing")
      ELSE IF (o # url /\ orders[o] # NoRow)
              \/ ("customer" \in fields /\ sent.customer \notin Present)
      THEN Dismiss(r, "update_order", "refused")
      ELSE Start(r, "update_order", "reread_order", [order |-> o, url |-> url, row |->
             [customer |-> IF "customer" \in fields THEN sent.customer
                                                    ELSE orders[url].customer,
              status |-> IF "status" \in fields THEN sent.status
                                                ELSE orders[url].status]])

\* Mutant of RereadOrder: the row is looked up by the number in the body.
RereadOrderByNumber(r) ==
  LET was == orders[job[r].order] IN
  /\ pc[r] = "reread_order" /\ was # NoRow
  /\ seen' = [seen EXCEPT ![r] = was.status]
  /\ Goto(r, "write_order")
  /\ UNCHANGED <<tables, nextId, job, events>>

\* Mutant of RereadOrder: was_status is that of the instance the form is laid over.
RereadOrderLaidOver(r) ==
  /\ pc[r] = "reread_order" /\ orders[job[r].url] # NoRow
  /\ seen' = [seen EXCEPT ![r] = job[r].row.status]
  /\ Goto(r, "write_order")
  /\ UNCHANGED <<tables, nextId, job, events>>

\* perform_update: was_status is a second, unlocked read.
RereadOrder(r) ==
  /\ pc[r] = "reread_order"
  /\ IF orders[job[r].url] = NoRow
       THEN Answer(r, "missing")
       ELSE /\ seen' = [seen EXCEPT ![r] = orders[job[r].url].status]
            /\ Goto(r, "write_order")
            /\ UNCHANGED <<tables, nextId, job, events>>

\* Mutant of WriteOrder: the UPDATE does not wait for the row's lock.
WriteOrderAtOnce(r) ==
  LET j == job[r] IN
  /\ pc[r] = "write_order" /\ j.row.customer \in Present
  /\ Write(r, {order_status_changed(nextId, j.order, j.row, seen[r])}, "commit_order")

\* serializer.save() writes every column; the event compares with was_status.
WriteOrder(r) ==
  LET j == job[r] IN
  /\ pc[r] = "write_order" /\ UnlockedOrder(j.order)
  /\ IF j.row.customer \notin Present
       THEN Answer(r, "failed")
       ELSE Write(r, IF j.row.status = seen[r] THEN {}
                     ELSE {order_status_changed(nextId, j.order, j.row, seen[r])},
                  "commit_order")

\* The end of the atomic perform_create and perform_update of an order.
CommitOrder(r) ==
  /\ pc[r] = "commit_order"
  /\ orders' = [orders EXCEPT ![job[r].order] = job[r].row]
  /\ outbox' = outbox \cup events[r]
  /\ Finish(r, "ok")
  /\ UNCHANGED <<rows, payments>>

-----------------------------------------------------------------------------
(* DELETE /orders/{number}: no transaction of its own, and no event.       *)

OrderDestroy(r) ==
  \E o \in Orders :
    IF orders[o] = NoRow
      THEN Dismiss(r, "destroy_order", "missing")
      ELSE Start(r, "destroy_order", "delete_order",
                 [order |-> o, url |-> o, row |-> orders[o]])

DeleteOrder(r) ==
  LET o == job[r].order IN
  /\ pc[r] = "delete_order" /\ UnlockedOrder(o)
  /\ IF o \in LinedOrders
       THEN Answer(r, "failed")
       ELSE /\ orders' = [orders EXCEPT ![o] = NoRow]
            /\ Finish(r, "ok")
            /\ UNCHANGED <<rows, payments, outbox>>

-----------------------------------------------------------------------------
(* POST /payments/                                                         *)

PaymentOf(c, check) == {p \in payments : p.customer = c /\ p.check = check}

PaymentCreate(r) ==
  \E c \in Customers, check \in Checks :
    IF c \in Present /\ PaymentOf(c, check) = {}
      THEN Start(r, "create_payment", "insert_payment",
                 [id |-> r, customer |-> c, check |-> check])
      ELSE Dismiss(r, "create_payment", "refused")

\* objects.create(): so may the check, and the customer may be gone.
InsertPayment(r) ==
  LET j == job[r] IN
  /\ pc[r] = "insert_payment" /\ UnlockedPayment(j.customer, j.check)
  /\ IF j.customer \notin Present \/ PaymentOf(j.customer, j.check) # {}
       THEN Answer(r, "failed")
       ELSE Write(r, {payment_recorded(nextId, j.customer, j.check)}, "commit_payment")

CommitPayment(r) ==
  /\ pc[r] = "commit_payment"
  /\ payments' = payments \cup {job[r]}
  /\ outbox' = outbox \cup events[r]
  /\ Finish(r, "ok")
  /\ UNCHANGED <<rows, orders>>

-----------------------------------------------------------------------------
(* PUT, PATCH and DELETE /payments/{customer}/{check}: autocommit, by id,  *)
(* and no event.                                                           *)

PaymentUpdate(r) ==
  \E p \in payments, c \in Customers, check \in Checks :
    IF c \in Present /\ PaymentOf(c, check) \subseteq {p}
      THEN Start(r, "update_payment", "write_payment",
                 [id |-> p.id, customer |-> c, check |-> check])
      ELSE Dismiss(r, "update_payment", "refused")

\* UPDATE by id, or INSERT when the row is gone.
WritePayment(r) ==
  LET j == job[r]
      others == {p \in payments : p.id # j.id}
  IN /\ pc[r] = "write_payment" /\ UnlockedPayment(j.customer, j.check)
     /\ IF j.customer \notin Present \/ PaymentOf(j.customer, j.check) \cap others # {}
          THEN Answer(r, "failed")
          ELSE /\ payments' = others \cup {j}
               /\ Finish(r, "ok")
               /\ UNCHANGED <<rows, orders, outbox>>

PaymentDestroy(r) ==
  \E p \in payments : Start(r, "destroy_payment", "delete_payment", p)

DeletePayment(r) ==
  /\ pc[r] = "delete_payment"
  /\ payments' = {p \in payments : p.id # job[r].id}
  /\ Finish(r, "ok")
  /\ UNCHANGED <<rows, orders, outbox>>

\* A payment that is not there.
PaymentMissing(r) ==
  /\ \E c \in Customers, check \in Checks : PaymentOf(c, check) = {}
  /\ \E op \in {"update_payment", "destroy_payment"} : Dismiss(r, op, "missing")

-----------------------------------------------------------------------------
(* /productlines/, /offices/, /employees/ and /customers/: the methods of  *)
(* ModelViewSet as they are, autocommit, and no event.                     *)

RowCreate(r) ==
  \E T \in Tables : \E k \in T, refs \in References[T] :
    IF k \notin Present /\ refs \subseteq Present
      THEN Start(r, "create_row", "insert_row", [key |-> k, refs |-> refs])
      ELSE Dismiss(r, "create_row", "refused")

\* The answer to a statement that leaves row k as new, and touches nothing else.
SaveRow(r, k, new) ==
  /\ rows' = [rows EXCEPT ![k] = new]
  /\ Finish(r, "ok")
  /\ UNCHANGED <<orders, payments, outbox>>

InsertRow(r) ==
  LET j == job[r] IN
  /\ pc[r] = "insert_row"
  /\ IF j.key \in Present \/ ~(j.refs \subseteq Present)
       THEN Answer(r, "failed")
       ELSE SaveRow(r, j.key, j.refs)

\* The fields that are not sent stay those of the row that get_object() read;
\* the key is a field too, and may name another row, not a taken one.
RowUpdate(r) ==
  \E T \in Tables : \E url, k \in T, refs \in References[T] :
    IF url \notin Present
      THEN Dismiss(r, "update_row", "missing")
      ELSE IF (k # url /\ k \in Present) \/ ~(refs \ rows[url] \subseteq Present)
      THEN Dismiss(r, "update_row", "refused")
      ELSE Start(r, "update_row", "write_row", [key |-> k, refs |-> refs])

\* UPDATE by key, or INSERT when there is no such row: the old one stays.
WriteRow(r) ==
  LET j == job[r] IN
  /\ pc[r] = "write_row" /\ UnlockedRow(j.key)
  /\ IF ~(j.refs \subseteq Present)
       THEN Answer(r, "failed")
       ELSE SaveRow(r, j.key, j.refs)

RowDestroy(r) ==
  \E k \in Keys :
    IF k \notin Present
      THEN Dismiss(r, "destroy_row", "missing")
      ELSE Start(r, "destroy_row", "delete_row", [key |-> k, refs |-> rows[k]])

Referenced(k) ==
  \/ k \in InUse
  \/ \E l \in Present \ {k} : k \in rows[l]
  \/ \E o \in Orders : orders[o] # NoRow /\ orders[o].customer = k
  \/ \E p \in payments : p.customer = k

\* Mutant of DeleteRow: an INSERT leaves no lock on what it refers to.
DeleteRowAtOnce(r) ==
  /\ pc[r] = "delete_row" /\ ~Referenced(job[r].key)
  /\ SaveRow(r, job[r].key, NoRow)

\* The foreign keys of the tables restrict the DELETE.
DeleteRow(r) ==
  LET k == job[r].key IN
  /\ pc[r] = "delete_row" /\ UnlockedRow(k)
  /\ IF Referenced(k) THEN Answer(r, "failed") ELSE SaveRow(r, k, NoRow)

-----------------------------------------------------------------------------
\* The worker is killed, a lock wait times out or deadlocks, or a statement raises.
Abort(r) == pc[r] \in InTransaction \cup Autocommit /\ Answer(r, "failed")

Terminated == (\A r \in Requests : pc[r] \in Answers) /\ UNCHANGED vars

Arrive(r) ==
  \/ OrderCreate(r) \/ OrderUpdate(r) \/ OrderDestroy(r)
  \/ PaymentCreate(r) \/ PaymentUpdate(r) \/ PaymentDestroy(r) \/ PaymentMissing(r)
  \/ RowCreate(r) \/ RowUpdate(r) \/ RowDestroy(r)

Step(r) ==
  \/ InsertOrder(r) \/ RereadOrder(r) \/ WriteOrder(r) \/ CommitOrder(r) \/ DeleteOrder(r)
  \/ InsertPayment(r) \/ CommitPayment(r) \/ WritePayment(r) \/ DeletePayment(r)
  \/ InsertRow(r) \/ WriteRow(r) \/ DeleteRow(r)

Next == (\E r \in Requests : Arrive(r) \/ Step(r) \/ Abort(r)) \/ Terminated

Spec == Init /\ [][Next]_vars

-----------------------------------------------------------------------------
\* Every table, and every request, is typed.
TypeOK ==
  /\ rows \in [Keys -> {NoRow} \cup SUBSET Keys]
  /\ orders \in [Orders -> Order \cup {NoRow}]
  /\ payments \subseteq Payment
  /\ outbox \subseteq Event
  /\ nextId \in Nat
  /\ pc \in [Requests -> {"new"} \cup Answers \cup InTransaction \cup Autocommit]
  /\ job \in [Requests -> OrderJob \cup Payment \cup RowJob \cup {NoJob}]
  /\ seen \in [Requests -> Statuses \cup {NoStatus}]
  /\ events \in [Requests -> SUBSET Event]

\* Whatever is created, moved, renamed and deleted at once, whatever a row, an
\* order or a payment refers to is there (the models' foreign keys, DO_NOTHING in
\* Django: classicmodels/models.py:78-86, :113-120, :135-140 and :161-166).
OwnersExist ==
  /\ \A k \in Present : rows[k] \subseteq Present
  /\ \A o \in Orders : orders[o] # NoRow => orders[o].customer \in Present
  /\ \A p \in payments : p.customer \in Present

\* The relay publishes by row id: the ids of one order's events are in the
\* order of their commits (docs/DOMAIN_EVENTS.md:51).
OrderEventIdsFollowCommits ==
  [][\A e \in outbox' \ outbox, f \in outbox :
       IsOrderEvent(e) /\ IsOrderEvent(f) /\ e.subject = f.subject => f.id < e.id]_vars

\* "one customer's payments in order" (events/emit.py:194-195): the ids of one
\* customer's payments are in the order of their commits.
PaymentEventIdsFollowCommits ==
  [][\A e \in outbox' \ outbox, f \in outbox :
       ~IsOrderEvent(e) /\ ~IsOrderEvent(f) /\ e.subject = f.subject => f.id < e.id]_vars
=============================================================================

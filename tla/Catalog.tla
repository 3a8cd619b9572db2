------------------------------- MODULE Catalog -------------------------------
(***************************************************************************)
(* The writes that move stock, and the outbox rows that announce them:     *)
(* ProductViewSet and OrderdetailViewSet (api/v1/classicmodels/views.py),  *)
(* commit_stock (events/stock.py) and the catalogue of product events      *)
(* (events/emit.py), on one InnoDB database.                               *)
(*                                                                         *)
(* Isolation is Django's default for MySQL, READ COMMITTED: a plain SELECT *)
(* sees the last committed row, SELECT ... FOR UPDATE, UPDATE, INSERT and  *)
(* DELETE wait for the row's exclusive lock.  Uncommitted writes are kept  *)
(* in the request that makes them (job, seen, events) and reach the tables *)
(* in its commit step; ids of the outbox are AUTO_INCREMENT, allocated at  *)
(* the INSERT and not given back by a rollback.                            *)
(*                                                                         *)
(* A request is one HTTP call, served once by one gunicorn worker; its pc  *)
(* is the next statement it runs, or the class of answer it was given.     *)
(***************************************************************************)
EXTENDS CatalogEvents, FiniteSets

CONSTANTS Requests,      \* HTTP requests, each served once
          Stocks,        \* quantityinstock values a caller may send
          Quantities,    \* quantityordered values a caller may send
          Ops,           \* the endpoints the requests may call
          NoRow,         \* "no such row"
          NoJob,         \* a request with nothing left to do
          SeedProducts,  \* the products table at the start
          SeedLines      \* the orderdetails table at the start

AllOps == {"create_line", "update_line", "destroy_line",
           "create_product", "update_product", "destroy_product"}

Form == [stock : Stocks, price : Prices]

\* A line's id is the request that inserted it, or the order it was seeded for.
Line == [id : Requests \cup Orders, order : Orders, product : Products,
         quantity : Quantities]

\* What a request was asked, as its remaining statements need it.
TakeJob == [product : Products, order : Orders, quantity : Quantities]
LineJob == [product : Products, line : Line]
RowJob == [product : Products, form : Row]
EditJob == [product : Products, url : Products, form : Row, reason : EditReasons]
DeleteJob == [product : Products]

Job == TakeJob \cup LineJob \cup RowJob \cup EditJob \cup DeleteJob \cup {NoJob}

JobAt(at) ==
  CASE at \in {"lock", "take", "line"} -> TakeJob
    [] at \in {"write_line", "delete_line"} -> LineJob
    [] at \in {"reread", "write"} -> EditJob
    [] at \in {"insert", "commit"} -> RowJob \cup EditJob
    [] at = "delete" -> DeleteJob
    [] OTHER -> {NoJob}

ASSUME CatalogAssumption ==
  /\ MaxStock \in Nat
  /\ Stocks \subseteq StockRange
  /\ Quantities \subseteq Int
  /\ Ops \subseteq AllOps
  /\ NoRow \notin Row
  /\ Orders \cap EditReasons = {}
  /\ SeedProducts \in [Products -> Row \cup {NoRow}]
  /\ SeedLines \subseteq Line

VARIABLES products,      \* committed products rows
          orderdetails,  \* committed orderdetails rows
          outbox,        \* committed outbox_event rows
          nextId,        \* AUTO_INCREMENT of outbox_event
          pc, job,       \* per request: next statement, and what was asked
          seen,          \* per request: the products row its transaction read
          events         \* per request: the outbox rows its transaction inserted

tables == <<products, orderdetails, outbox>>
vars == <<products, orderdetails, outbox, nextId, pc, job, seen, events>>

Answers == {"ok", "refused", "missing", "failed"}  \* 2xx, 400, 404, 500
InTransaction == {"lock", "take", "line", "reread", "write", "insert", "commit"}
Autocommit == {"delete", "write_line", "delete_line"}

\* Statements that run holding the exclusive lock of the product row.
Locking == {"take", "line", "commit"}
Holds(r, p) == pc[r] \in Locking /\ job[r].product = p
Unlocked(p) == \A r \in Requests : ~Holds(r, p)

Init ==
  /\ products = SeedProducts
  /\ orderdetails = SeedLines
  /\ outbox = {}
  /\ nextId = 1
  /\ pc = [r \in Requests |-> "new"]
  /\ job = [r \in Requests |-> NoJob]
  /\ seen = [r \in Requests |-> NoRow]
  /\ events = [r \in Requests |-> {}]

Goto(r, next) == pc' = [pc EXCEPT ![r] = next]

\* r is answered and its worker forgets it.
Finish(r, answer) ==
  /\ Goto(r, answer)
  /\ job' = [job EXCEPT ![r] = NoJob]
  /\ seen' = [seen EXCEPT ![r] = NoRow]
  /\ UNCHANGED <<nextId, events>>

\* The answer of a request whose writes, if it made any, are rolled back.
Answer(r, answer) == Finish(r, answer) /\ UNCHANGED tables

\* The reads before perform_*: they fix what is asked, and the next statement.
Start(r, op, next, what) ==
  /\ pc[r] = "new" /\ op \in Ops
  /\ Goto(r, next)
  /\ job' = [job EXCEPT ![r] = what]
  /\ UNCHANGED <<tables, nextId, seen, events>>

Dismiss(r, op, answer) == Start(r, op, answer, NoJob)

-----------------------------------------------------------------------------
(* emit() inserts a row with the next id, inside the transaction of r.     *)

emit(r, new) ==
  /\ events' = [events EXCEPT ![r] = new]
  /\ nextId' = nextId + Cardinality(new)

\* COMMIT of r: its product row and its events appear together.
CommitProduct(r, p, row) ==
  /\ products' = [products EXCEPT ![p] = row]
  /\ outbox' = outbox \cup events[r]
  /\ Finish(r, "ok")

-----------------------------------------------------------------------------
(* POST /orderdetails/                                                     *)

LineOf(o, p) == {l \in orderdetails : l.order = o /\ l.product = p}

\* is_valid(): the product exists and no line has this (order, product).
LineCreate(r) ==
  \E o \in Orders, p \in Products, q \in Quantities :
    IF products[p] # NoRow /\ LineOf(o, p) = {}
      THEN Start(r, "create_line", "lock",
                 [product |-> p, order |-> o, quantity |-> q])
      ELSE Dismiss(r, "create_line", "refused")

\* Mutant of LockStock: a plain SELECT.
LockStockWithoutLock(r) ==
  /\ pc[r] = "lock" /\ products[job[r].product] # NoRow
  /\ seen' = [seen EXCEPT ![r] = products[job[r].product]]
  /\ Goto(r, "take")
  /\ UNCHANGED <<tables, nextId, job, events>>

\* Product.objects.select_for_update().get(pk): waits, then reads under lock.
LockStock(r) ==
  /\ pc[r] = "lock" /\ Unlocked(job[r].product)
  /\ IF products[job[r].product] = NoRow
       THEN Answer(r, "failed")
       ELSE /\ seen' = [seen EXCEPT ![r] = products[job[r].product]]
            /\ Goto(r, "take")
            /\ UNCHANGED <<tables, nextId, job, events>>

StockLeft(r) == seen[r].stock - job[r].quantity

\* Mutant of TakeStock: nothing is compared with the stock.
TakeStockUnchecked(r) ==
  /\ pc[r] = "take"
  /\ emit(r, {product_stock_changed(nextId, job[r].product, seen[r].stock,
                                    StockLeft(r), job[r].order)})
  /\ Goto(r, "line")
  /\ UNCHANGED <<tables, job, seen>>

\* raise InsufficientStock; or product.save(update_fields), which fails on a value
\* outside the column's range, then emit.product_stock_changed.
TakeStock(r) ==
  /\ pc[r] = "take"
  /\ IF job[r].quantity > seen[r].stock
       THEN Answer(r, "refused")
     ELSE IF StockLeft(r) \notin StockRange
       THEN Answer(r, "failed")
       ELSE /\ emit(r, {product_stock_changed(nextId, job[r].product, seen[r].stock,
                                             StockLeft(r), job[r].order)})
            /\ Goto(r, "line")
            /\ UNCHANGED <<tables, job, seen>>

\* Mutant of SaveLine: no transaction holds the event and the INSERT together.
SaveLineKeepingEvents(r) ==
  /\ pc[r] = "line"
  /\ LET p == job[r].product IN
     IF LineOf(job[r].order, p) # {}
       THEN /\ Finish(r, "failed")
            /\ outbox' = outbox \cup events[r]
            /\ UNCHANGED <<products, orderdetails>>
       ELSE /\ orderdetails' = orderdetails \cup
                 {[id |-> r, order |-> job[r].order, product |-> p,
                   quantity |-> job[r].quantity]}
            /\ CommitProduct(r, p, [seen[r] EXCEPT !.stock = StockLeft(r)])

\* serializer.save(): the INSERT, under UNIQUE (orderNumber, productCode).
SaveLine(r) ==
  /\ pc[r] = "line"
  /\ LET p == job[r].product IN
     IF LineOf(job[r].order, p) # {}
       THEN Answer(r, "failed")
       ELSE /\ orderdetails' = orderdetails \cup
                 {[id |-> r, order |-> job[r].order, product |-> p,
                   quantity |-> job[r].quantity]}
            /\ CommitProduct(r, p, [seen[r] EXCEPT !.stock = StockLeft(r)])

-----------------------------------------------------------------------------
(* PUT, PATCH and DELETE /orderdetails/{order}/{product}: plain            *)
(* serializer.save() and instance.delete(), in autocommit, by primary key. *)

LineUpdate(r) ==
  \E o \in Orders, p \in Products, new \in [order : Orders, product : Products,
                                            quantity : Quantities] :
    IF LineOf(o, p) = {}
      THEN Dismiss(r, "update_line", "missing")
      ELSE \E l \in LineOf(o, p) :
             IF products[new.product] # NoRow /\ LineOf(new.order, new.product) \subseteq {l}
               THEN Start(r, "update_line", "write_line", [product |-> new.product,
                      line |-> [id |-> l.id, order |-> new.order,
                                product |-> new.product, quantity |-> new.quantity]])
               ELSE Dismiss(r, "update_line", "refused")

\* UPDATE by id, or INSERT when the row is gone (Model.save).  A new product
\* code takes a shared lock on the products row it references.
WriteLine(r) ==
  LET l == job[r].line
      others == {k \in orderdetails : k.id # l.id}
      sameProduct == \E k \in orderdetails : k.id = l.id /\ k.product = l.product
  IN /\ pc[r] = "write_line"
     /\ sameProduct \/ Unlocked(l.product)
     /\ IF \/ products[l.product] = NoRow
           \/ \E k \in others : k.order = l.order /\ k.product = l.product
          THEN Answer(r, "failed")
          ELSE /\ orderdetails' = others \cup {l}
               /\ Finish(r, "ok")
               /\ UNCHANGED <<products, outbox>>

LineDestroy(r) ==
  \E o \in Orders, p \in Products :
    IF LineOf(o, p) = {}
      THEN Dismiss(r, "destroy_line", "missing")
      ELSE \E l \in LineOf(o, p) :
             Start(r, "destroy_line", "delete_line", [product |-> p, line |-> l])

DeleteLine(r) ==
  /\ pc[r] = "delete_line"
  /\ orderdetails' = {k \in orderdetails : k.id # job[r].line.id}
  /\ Finish(r, "ok")
  /\ UNCHANGED <<products, outbox>>

-----------------------------------------------------------------------------
(* POST /products/                                                         *)

ProductCreate(r) ==
  \E p \in Products, row \in Form :
    IF products[p] = NoRow
      THEN Start(r, "create_product", "insert", [product |-> p, form |-> row])
      ELSE Dismiss(r, "create_product", "refused")

\* objects.create() forces the INSERT: a key that exists by now is an error.
InsertProduct(r) ==
  LET p == job[r].product IN
  /\ pc[r] = "insert" /\ Unlocked(p)
  /\ IF products[p] # NoRow
       THEN Answer(r, "failed")
       ELSE /\ emit(r, {product_created(nextId, p, job[r].form)})
            /\ Goto(r, "commit")
            /\ UNCHANGED <<tables, job, seen>>

-----------------------------------------------------------------------------
(* PUT and PATCH /products/{code}                                          *)

\* update(): get_object() reads the instance the sent fields are laid over.  The
\* product code is a field too: it may name another row, not a taken one.
ProductUpdate(r) ==
  \E url, p \in Products, sent \in Form, fields \in SUBSET {"stock", "price"},
     why \in EditReasons :
    IF products[url] = NoRow
      THEN Dismiss(r, "update_product", "missing")
      ELSE IF p # url /\ products[p] # NoRow
      THEN Dismiss(r, "update_product", "refused")
      ELSE Start(r, "update_product", "reread",
             [product |-> p, url |-> url, reason |-> why, form |->
               [stock |-> IF "stock" \in fields THEN sent.stock ELSE products[url].stock,
                price |-> IF "price" \in fields THEN sent.price ELSE products[url].price]])

\* perform_update: `before` is a second, unlocked read.
RereadProduct(r) ==
  LET was == products[job[r].url] IN
  /\ pc[r] = "reread"
  /\ IF was = NoRow
       THEN Answer(r, "missing")
       ELSE /\ seen' = [seen EXCEPT ![r] = was]
            /\ Goto(r, "write")
            /\ UNCHANGED <<tables, nextId, job, events>>

\* Mutant of WriteProduct: the UPDATE does not wait for the row's lock.
WriteProductAtOnce(r) ==
  /\ pc[r] = "write"
  /\ emit(r, {product_stock_changed(nextId, job[r].product, seen[r].stock,
                                    job[r].form.stock, job[r].reason)})
  /\ Goto(r, "commit")
  /\ UNCHANGED <<tables, job, seen>>

\* serializer.save() writes every column (INSERT if there is no such row), then
\* the events say what differs from `before`: the stock first, then the price.
WriteProduct(r) ==
  LET p == job[r].product
      was == seen[r]
      now == job[r].form
      stockEvents == IF now.stock = was.stock THEN {}
        ELSE {product_stock_changed(nextId, p, was.stock, now.stock, job[r].reason)}
      priceEvents == IF now.price = was.price THEN {}
        ELSE {product_price_changed(nextId + Cardinality(stockEvents), p,
                                    was.price, now.price)}
  IN /\ pc[r] = "write" /\ Unlocked(p)
     /\ emit(r, stockEvents \cup priceEvents)
     /\ Goto(r, "commit")
     /\ UNCHANGED <<tables, job, seen>>

\* The end of the atomic perform_create and perform_update of a product.
Commit(r) ==
  /\ pc[r] = "commit"
  /\ CommitProduct(r, job[r].product, job[r].form)
  /\ UNCHANGED orderdetails

-----------------------------------------------------------------------------
(* DELETE /products/{code}: no transaction of its own, and no event.       *)

ProductDestroy(r) ==
  \E p \in Products :
    IF products[p] = NoRow
      THEN Dismiss(r, "destroy_product", "missing")
      ELSE Start(r, "destroy_product", "delete", [product |-> p])

\* The foreign key of orderdetails restricts the DELETE.
DeleteProduct(r) ==
  LET p == job[r].product IN
  /\ pc[r] = "delete" /\ Unlocked(p)
  /\ IF \E l \in orderdetails : l.product = p
       THEN Answer(r, "failed")
       ELSE /\ products' = [products EXCEPT ![p] = NoRow]
            /\ Finish(r, "ok")
            /\ UNCHANGED <<orderdetails, outbox>>

-----------------------------------------------------------------------------
\* The worker is killed, a lock wait times out, or a statement raises: the
\* database rolls the transaction back and its locks are released.
Abort(r) == pc[r] \in InTransaction \cup Autocommit /\ Answer(r, "failed")

Terminated == (\A r \in Requests : pc[r] \in Answers) /\ UNCHANGED vars

Step(r) ==
  \/ LockStock(r) \/ TakeStock(r) \/ SaveLine(r)
  \/ WriteLine(r) \/ DeleteLine(r)
  \/ InsertProduct(r) \/ RereadProduct(r) \/ WriteProduct(r) \/ Commit(r)
  \/ DeleteProduct(r)

Arrive(r) ==
  \/ LineCreate(r) \/ LineUpdate(r) \/ LineDestroy(r)
  \/ ProductCreate(r) \/ ProductUpdate(r) \/ ProductDestroy(r)

Next == (\E r \in Requests : Arrive(r) \/ Step(r) \/ Abort(r)) \/ Terminated

Spec == Init /\ [][Next]_vars

-----------------------------------------------------------------------------
\* Every table, and every request at the statement it has reached, is typed.
TypeOK ==
  /\ products \in [Products -> Row \cup {NoRow}]
  /\ orderdetails \subseteq Line
  /\ outbox \subseteq Event
  /\ nextId \in Nat
  /\ pc \in [Requests -> {"new"} \cup Answers \cup InTransaction \cup Autocommit]
  /\ job \in [Requests -> Job]
  /\ \A r \in Requests : job[r] \in JobAt(pc[r])
  /\ seen \in [Requests -> Row \cup {NoRow}]
  /\ events \in [Requests -> SUBSET Event]

\* commit_stock's SELECT ... FOR UPDATE (stock.py:55): no two requests are ever
\* between the lock and the COMMIT of one product, and what the holder read is
\* still the committed row when it writes.
LockedReadIsCurrent ==
  \A r \in Requests : pc[r] \in {"take", "line"} =>
    /\ products[job[r].product] = seen[r]
    /\ \A s \in Requests : Holds(s, job[r].product) => s = r

\* "An event commits with its change, or not at all" (tests/test_events/
\* test_outbox.py:6): every event a request raised is in the outbox if the
\* request was answered ok, and none of them otherwise.
AnnouncedIffCommitted ==
  \A r \in Requests :
    IF pc[r] = "ok" THEN events[r] \subseteq outbox ELSE events[r] \cap outbox = {}

\* A committed order take says exactly what happened, whoever else wrote the
\* product meanwhile: it found the committed stock, left the new one, never
\* below zero, and comes with the line it was taken for (perform_create,
\* views.py:1100-1115).
OrderTakeIsExact ==
  [][\A e \in outbox' \ outbox : IsTake(e) =>
       /\ products[e.subject] # NoRow
       /\ e.before = products[e.subject].stock
       /\ e.after = products'[e.subject].stock
       /\ e.after >= 0
       /\ \E l \in orderdetails' \ orderdetails :
            /\ l.order = e.reason /\ l.product = e.subject
            /\ l.quantity = e.before - e.after]_vars

\* The relay publishes by row id, so the ids of one product's events must be in
\* the order their changes were committed (publish_outbox.py:88, :105-106):
\* an event never appears below one already there for the same product.
EventIdsFollowCommits ==
  [][\A e \in outbox' \ outbox, f \in outbox :
       e.subject = f.subject => f.id < e.id]_vars

\* The event of p that told its stock last.
LastWord(p) ==
  {e \in outbox : /\ e.subject = p /\ TellsStock(e)
                  /\ \A f \in outbox : f.subject = p /\ TellsStock(f) => f.id =< e.id}

\* "Raised whenever stock moves" (docs/DOMAIN_EVENTS.md:80): a consumer that has
\* read everything announced about a product knows its stock.
StockIsLastAnnounced ==
  \A p \in Products : products[p] # NoRow =>
    \A e \in LastWord(p) : e.after = products[p].stock

\* Without the edit of a product, the catalogue implements the ledger.
Ledger == INSTANCE StockLedger
IsALedger == Ledger!Spec
=============================================================================

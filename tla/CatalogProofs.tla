---------------------------- MODULE CatalogProofs ----------------------------
(***************************************************************************)
(* What Catalog guarantees for every number of requests, products, orders  *)
(* and every bound: IInv is the inductive invariant, the named parts of    *)
(* which say what the row lock of a product protects.                      *)
(***************************************************************************)
EXTENDS Catalog, FiniteSetTheorems, TLAPS

\* A statement that uses what was read is only run after a row was read.
ReadWasMade == \A r \in Requests : pc[r] \in {"take", "line", "write"} => seen[r] \in Row

\* The exclusive lock of a products row.
Exclusive ==
  \A r, s \in Requests, p \in Products : Holds(r, p) /\ Holds(s, p) => r = s

\* While an order line holds the lock nobody else writes the row.
ReadIsCurrent ==
  \A r \in Requests : pc[r] \in {"take", "line"} => products[job[r].product] = seen[r]

\* Between the decrement and the INSERT, a line has one event pending: its own.
TakePending ==
  \A r \in Requests : pc[r] = "line" =>
    /\ job[r].quantity =< seen[r].stock
    /\ StockLeft(r) \in StockRange
    /\ \E id \in Nat :
         events[r] = {product_stock_changed(id, job[r].product, seen[r].stock,
                                            StockLeft(r), job[r].order)}

\* An insertion or an edit never speaks for an order.
EditPending ==
  \A r \in Requests : pc[r] = "commit" => \A e \in events[r] : ~IsTake(e)

\* Ids are allocated under the lock, so those pending are above those committed.
IdsPending ==
  /\ \A f \in outbox : f.id < nextId
  /\ \A r \in Requests : pc[r] \in {"line", "commit"} =>
       \A e \in events[r] :
         /\ e.subject = job[r].product
         /\ e.id < nextId
         /\ \A f \in outbox : f.subject = e.subject => f.id < e.id

IInv == TypeOK /\ ReadWasMade /\ Exclusive /\ ReadIsCurrent /\ TakePending
          /\ EditPending /\ IdsPending

-----------------------------------------------------------------------------
\* Initially no request has begun, and the outbox is empty.
LEMMA InitIInv == Init => IInv
<1> SUFFICES ASSUME Init PROVE IInv
  OBVIOUS
<1>1. TypeOK
  BY CatalogAssumption DEF Init, TypeOK, JobAt, Job
<1>2. ReadWasMade /\ Exclusive /\ ReadIsCurrent /\ TakePending /\ EditPending
  BY DEF Init, ReadWasMade, Exclusive, ReadIsCurrent, TakePending, EditPending,
         Holds, Locking
<1>3. IdsPending
  BY DEF Init, IdsPending
<1> QED BY <1>1, <1>2, <1>3 DEF IInv

\* The kind of job a request has at each statement.
LEMMA JobTyped ==
  ASSUME TypeOK, NEW r \in Requests
  PROVE  /\ pc[r] \in {"lock", "take", "line"} => job[r] \in TakeJob
         /\ pc[r] \in {"write_line", "delete_line"} => job[r] \in LineJob
         /\ pc[r] \in {"reread", "write"} => job[r] \in EditJob
         /\ pc[r] \in {"insert", "commit"} => job[r] \in RowJob \cup EditJob
         /\ pc[r] = "delete" => job[r] \in DeleteJob
BY DEF TypeOK, JobAt

\* Taking a request, to answer it or to go on without the product's lock.
LEMMA StartKeeps ==
  ASSUME IInv, NEW r \in Requests, NEW op, NEW next, NEW what,
         next \in Answers \cup {"lock", "write_line", "delete_line", "insert",
                                "reread", "delete"},
         what \in JobAt(next),
         Start(r, op, next, what)
  PROVE  IInv'
<1>1. /\ pc' = [pc EXCEPT ![r] = next] /\ job' = [job EXCEPT ![r] = what]
      /\ UNCHANGED <<products, orderdetails, outbox, nextId, seen, events>>
  BY DEF Start, Goto, tables
<1>2. TypeOK
  BY DEF IInv
<1>3. what \in Job
  BY DEF JobAt, Job, Answers
<1>4. TypeOK'
  BY <1>1, <1>2, <1>3 DEF TypeOK, Answers, InTransaction, Autocommit
<1>5. ASSUME NEW s \in Requests PROVE
        \/ s = r /\ pc'[s] \notin {"take", "line", "write", "commit"}
        \/ pc'[s] = pc[s] /\ job'[s] = job[s]
  BY <1>1, <1>2 DEF TypeOK, Answers
<1>6. ReadWasMade'
  BY <1>1, <1>5 DEF IInv, ReadWasMade
<1>7. Exclusive'
  BY <1>1, <1>5 DEF IInv, Exclusive, Holds, Locking
<1>8. ReadIsCurrent'
  BY <1>1, <1>5 DEF IInv, ReadIsCurrent
<1>9. TakePending'
  BY <1>1, <1>5 DEF IInv, TakePending, StockLeft
<1>10. EditPending'
  BY <1>1, <1>5 DEF IInv, EditPending
<1>11. IdsPending'
  BY <1>1, <1>5 DEF IInv, IdsPending
<1> QED BY <1>4, <1>6, <1>7, <1>8, <1>9, <1>10, <1>11 DEF IInv

\* A refusal or a failure: r lets go of what it held, and wrote nothing.
LEMMA AnswerKeeps ==
  ASSUME IInv, NEW r \in Requests, NEW answer \in Answers, Answer(r, answer)
  PROVE  IInv'
<1>1. /\ pc' = [pc EXCEPT ![r] = answer] /\ job' = [job EXCEPT ![r] = NoJob]
      /\ seen' = [seen EXCEPT ![r] = NoRow]
      /\ UNCHANGED <<products, orderdetails, outbox, nextId, events>>
  BY DEF Answer, Finish, Goto, tables
<1>2. TypeOK
  BY DEF IInv
<1>3. NoJob \in Job /\ NoJob \in JobAt(answer)
  BY DEF JobAt, Job, Answers
<1>4. TypeOK'
  BY <1>1, <1>2, <1>3 DEF TypeOK, Answers
<1>5. ASSUME NEW s \in Requests PROVE
        \/ s = r /\ pc'[s] \notin {"take", "line", "write", "commit"}
        \/ pc'[s] = pc[s] /\ job'[s] = job[s] /\ seen'[s] = seen[s]
  BY <1>1, <1>2 DEF TypeOK, Answers
<1>6. ReadWasMade'
  BY <1>1, <1>5 DEF IInv, ReadWasMade
<1>7. Exclusive'
  BY <1>1, <1>5 DEF IInv, Exclusive, Holds, Locking
<1>8. ReadIsCurrent'
  BY <1>1, <1>5 DEF IInv, ReadIsCurrent
<1>9. TakePending'
  BY <1>1, <1>5 DEF IInv, TakePending, StockLeft
<1>10. EditPending'
  BY <1>1, <1>5 DEF IInv, EditPending
<1>11. IdsPending'
  BY <1>1, <1>5 DEF IInv, IdsPending
<1> QED BY <1>4, <1>6, <1>7, <1>8, <1>9, <1>10, <1>11 DEF IInv

\* The COMMIT of an order line, an insertion or an edit, under the lock.
LEMMA CommitKeeps ==
  ASSUME IInv, NEW r \in Requests, NEW row \in Row,
         pc[r] \in {"line", "commit"},
         CommitProduct(r, job[r].product, row),
         orderdetails' \subseteq Line
  PROVE  IInv'
<1> DEFINE p == job[r].product
<1>1. /\ pc' = [pc EXCEPT ![r] = "ok"] /\ job' = [job EXCEPT ![r] = NoJob]
      /\ seen' = [seen EXCEPT ![r] = NoRow]
      /\ products' = [products EXCEPT ![p] = row]
      /\ outbox' = outbox \cup events[r]
      /\ UNCHANGED <<nextId, events>>
  BY DEF CommitProduct, Finish, Goto
<1>2. TypeOK
  BY DEF IInv
<1>3. NoJob \in Job /\ NoJob \in JobAt("ok")
  BY DEF JobAt, Job
<1>4. TypeOK'
  BY <1>1, <1>2, <1>3 DEF TypeOK, Answers
<1>5. p \in Products
  BY <1>2, JobTyped DEF TakeJob, RowJob, EditJob
<1>6. ASSUME NEW s \in Requests PROVE
        \/ s = r /\ pc'[s] \notin {"take", "line", "write", "commit"}
        \/ s # r /\ pc'[s] = pc[s] /\ job'[s] = job[s] /\ seen'[s] = seen[s]
  BY <1>1, <1>2 DEF TypeOK
<1>7. ASSUME NEW s \in Requests, s # r, pc[s] \in Locking PROVE job[s].product # p
  BY <1>5, <1>7 DEF IInv, Exclusive, Holds, Locking
<1>8. ReadWasMade'
  BY <1>1, <1>6 DEF IInv, ReadWasMade
<1>9. Exclusive'
  BY <1>1, <1>6 DEF IInv, Exclusive, Holds, Locking
<1>10. ReadIsCurrent'
  BY <1>1, <1>2, <1>6, <1>7 DEF IInv, ReadIsCurrent, Locking, TypeOK
<1>11. TakePending'
  BY <1>1, <1>6 DEF IInv, TakePending, StockLeft
<1>12. EditPending'
  BY <1>1, <1>6 DEF IInv, EditPending
<1>13. \A f \in events[r] : f.subject = p /\ f.id < nextId
  BY DEF IInv, IdsPending
<1>14. IdsPending'
  BY <1>1, <1>6, <1>7, <1>13 DEF IInv, IdsPending, Locking
<1> QED BY <1>4, <1>8, <1>9, <1>10, <1>11, <1>12, <1>14 DEF IInv

\* Statements in autocommit: a line rewritten or deleted, a product deleted.
LEMMA AutocommitKeeps ==
  ASSUME IInv, NEW r \in Requests, Finish(r, "ok"), UNCHANGED outbox,
         orderdetails' \subseteq Line,
         \/ UNCHANGED products
         \/ \E p \in Products : /\ Unlocked(p)
                                /\ products' = [products EXCEPT ![p] = NoRow]
  PROVE  IInv'
<1>1. /\ pc' = [pc EXCEPT ![r] = "ok"] /\ job' = [job EXCEPT ![r] = NoJob]
      /\ seen' = [seen EXCEPT ![r] = NoRow]
      /\ UNCHANGED <<nextId, events, outbox>>
  BY DEF Finish, Goto
<1>2. TypeOK
  BY DEF IInv
<1>3. NoJob \in Job /\ NoJob \in JobAt("ok")
  BY DEF JobAt, Job
<1>4. TypeOK'
  BY <1>1, <1>2, <1>3 DEF TypeOK, Answers
<1>5. ASSUME NEW s \in Requests PROVE
        \/ s = r /\ pc'[s] \notin {"take", "line", "write", "commit"}
        \/ s # r /\ pc'[s] = pc[s] /\ job'[s] = job[s] /\ seen'[s] = seen[s]
  BY <1>1, <1>2 DEF TypeOK
<1>6. ReadWasMade'
  BY <1>1, <1>5 DEF IInv, ReadWasMade
<1>7. Exclusive'
  BY <1>1, <1>5 DEF IInv, Exclusive, Holds, Locking
<1>8. ReadIsCurrent'
  <2> SUFFICES ASSUME NEW s \in Requests, pc'[s] \in {"take", "line"}
               PROVE  products'[job'[s].product] = seen'[s]
    BY DEF ReadIsCurrent
  <2>1. pc[s] = pc'[s] /\ job'[s] = job[s] /\ seen'[s] = seen[s]
    BY <1>5
  <2>2. products[job[s].product] = seen[s] /\ job[s].product \in Products
    BY <1>2, <2>1, JobTyped DEF IInv, ReadIsCurrent, TakeJob
  <2>3. products'[job[s].product] = products[job[s].product]
    <3>1. CASE UNCHANGED products
      BY <3>1
    <3>2. ASSUME NEW p \in Products, Unlocked(p),
                 products' = [products EXCEPT ![p] = NoRow]
          PROVE  products'[job[s].product] = products[job[s].product]
      <4>1. ~Holds(s, p)
        BY <3>2 DEF Unlocked
      <4>2. job[s].product # p
        BY <2>1, <4>1 DEF Holds, Locking
      <4> QED BY <2>2, <3>2, <4>2, <1>2 DEF TypeOK
    <3> QED BY <3>1, <3>2
  <2> QED BY <2>1, <2>2, <2>3
<1>9. TakePending'
  BY <1>1, <1>5 DEF IInv, TakePending, StockLeft
<1>10. EditPending'
  BY <1>1, <1>5 DEF IInv, EditPending
<1>11. IdsPending'
  BY <1>1, <1>5 DEF IInv, IdsPending
<1> QED BY <1>4, <1>6, <1>7, <1>8, <1>9, <1>10, <1>11 DEF IInv

\* Reading a row: under the lock for an order line, without it for an edit.
LEMMA ReadKeeps ==
  ASSUME IInv, NEW r \in Requests, NEW next \in {"take", "write"},
         NEW p \in Products, products[p] # NoRow,
         seen' = [seen EXCEPT ![r] = products[p]],
         Goto(r, next), UNCHANGED <<tables, nextId, job, events>>,
         job[r] \in JobAt(next),
         next = "take" => job[r].product = p /\ Unlocked(p)
  PROVE  IInv'
<1>1. /\ pc' = [pc EXCEPT ![r] = next]
      /\ UNCHANGED <<products, orderdetails, outbox, nextId, job, events>>
  BY DEF Goto, tables
<1>2. TypeOK
  BY DEF IInv
<1>3. products[p] \in Row
  BY <1>2 DEF TypeOK
<1>4. TypeOK'
  BY <1>1, <1>2, <1>3 DEF TypeOK, InTransaction
<1>5. ASSUME NEW s \in Requests PROVE
        \/ s = r /\ pc'[s] = next /\ seen'[s] = products[p]
        \/ s # r /\ pc'[s] = pc[s] /\ job'[s] = job[s] /\ seen'[s] = seen[s]
  BY <1>1, <1>2 DEF TypeOK
<1>6. ReadWasMade'
  BY <1>1, <1>3, <1>5 DEF IInv, ReadWasMade
<1>7. Exclusive'
  BY <1>1, <1>5 DEF IInv, Exclusive, Holds, Locking, Unlocked
<1>8. ReadIsCurrent'
  BY <1>1, <1>5 DEF IInv, ReadIsCurrent
<1>9. TakePending'
  BY <1>1, <1>5 DEF IInv, TakePending, StockLeft
<1>10. EditPending'
  BY <1>1, <1>5 DEF IInv, EditPending
<1>11. IdsPending'
  BY <1>1, <1>5 DEF IInv, IdsPending
<1> QED BY <1>4, <1>6, <1>7, <1>8, <1>9, <1>10, <1>11 DEF IInv

-----------------------------------------------------------------------------
\* The events of a request are written under the lock of their product: one
\* pending request per product, and none of its ids is committed yet.
LEMMA EmitKeeps ==
  ASSUME IInv, NEW r \in Requests, NEW new \in SUBSET Event,
         NEW next \in {"line", "commit"}, IsFiniteSet(new),
         emit(r, new), Goto(r, next), UNCHANGED <<tables, job, seen>>,
         pc[r] = "take" \/ Unlocked(job[r].product),
         job[r] \in JobAt(next),
         \A e \in new : /\ e.subject = job[r].product /\ e.id >= nextId
                       /\ e.id < nextId + Cardinality(new),
         next = "line" =>
           /\ pc[r] = "take"
           /\ job[r].quantity =< seen[r].stock /\ StockLeft(r) \in StockRange
           /\ new = {product_stock_changed(nextId, job[r].product, seen[r].stock,
                                           StockLeft(r), job[r].order)},
         next = "commit" => \A e \in new : ~IsTake(e)
  PROVE  IInv'
<1>1. /\ pc' = [pc EXCEPT ![r] = next]
      /\ events' = [events EXCEPT ![r] = new]
      /\ nextId' = nextId + Cardinality(new)
      /\ UNCHANGED <<products, orderdetails, outbox, job, seen>>
  BY DEF Goto, emit, tables
<1>2. TypeOK
  BY DEF IInv
<1>3. nextId \in Nat /\ nextId' \in Nat /\ nextId' >= nextId
  <2>1. Cardinality(new) \in Nat
    BY FS_CardinalityType
  <2> QED BY <2>1, <1>1, <1>2 DEF TypeOK
<1>4. TypeOK'
  BY <1>1, <1>2, <1>3 DEF TypeOK, InTransaction
<1>5. ASSUME NEW s \in Requests PROVE
        \/ s = r /\ pc'[s] = next /\ events'[s] = new
        \/ s # r /\ pc'[s] = pc[s] /\ events'[s] = events[s]
  BY <1>1, <1>2 DEF TypeOK
<1>6. job'[r] = job[r] /\ seen'[r] = seen[r]
  BY <1>1
<1>7. ReadWasMade'
  <2>1. next = "line" => seen[r] \in Row
    BY DEF IInv, ReadWasMade
  <2> QED BY <1>1, <1>5, <2>1 DEF IInv, ReadWasMade
<1>8. Exclusive'
  BY <1>1, <1>5 DEF IInv, Exclusive, Holds, Locking, Unlocked
<1>9. ReadIsCurrent'
  BY <1>1, <1>5 DEF IInv, ReadIsCurrent
<1>10. TakePending'
  BY <1>1, <1>3, <1>5 DEF IInv, TakePending, StockLeft
<1>11. EditPending'
  BY <1>1, <1>5 DEF IInv, EditPending
<1>12. \A e \in Event : e.id \in Nat
  BY DEF Event, StockEvent
<1>13. IdsPending'
  <2>1. \A f \in outbox : f.id < nextId /\ f.id \in Nat
    BY <1>2, <1>12 DEF IInv, IdsPending, TypeOK
  <2>2. \A f \in outbox' : f.id < nextId'
    BY <2>1, <1>1, <1>3
  <2>3. ASSUME NEW s \in Requests, pc'[s] \in {"line", "commit"}, NEW e \in events'[s]
        PROVE  /\ e.subject = job'[s].product /\ e.id < nextId'
               /\ \A f \in outbox' : f.subject = e.subject => f.id < e.id
    <3>1. CASE s = r
      <4>1. e \in new /\ e.id \in Nat
        BY <1>5, <1>12, <2>3, <3>1
      <4> QED BY <4>1, <2>1, <1>1, <1>3, <3>1
    <3>2. CASE s # r
      <4>1. pc[s] = pc'[s] /\ e \in events[s]
        BY <1>5, <2>3, <3>2
      <4>2. /\ e.subject = job[s].product /\ e.id < nextId /\ e.id \in Nat
            /\ \A f \in outbox : f.subject = e.subject => f.id < e.id
        BY <4>1, <2>3, <1>2, <1>12 DEF IInv, IdsPending, TypeOK
      <4> QED BY <4>2, <1>1, <1>3
    <3> QED BY <3>1, <3>2
  <2> QED BY <2>2, <2>3 DEF IdsPending
<1> QED BY <1>4, <1>7, <1>8, <1>9, <1>10, <1>11, <1>13 DEF IInv

-----------------------------------------------------------------------------
\* A request answered before perform_* keeps the invariant.
LEMMA DismissKeeps ==
  ASSUME IInv, NEW r \in Requests, NEW op, NEW answer \in Answers,
         Dismiss(r, op, answer)
  PROVE  IInv'
<1>1. NoJob \in JobAt(answer)
  BY DEF JobAt, Answers
<1> QED BY <1>1, StartKeeps DEF Dismiss

\* Arrivals.
LEMMA ArriveKeeps ==
  ASSUME IInv, NEW r \in Requests, Arrive(r)
  PROVE  IInv'
<1> USE DEF Answers
<1>1. CASE LineCreate(r)
  <2>1. PICK o \in Orders, p \in Products, q \in Quantities :
          \/ Start(r, "create_line", "lock", [product |-> p, order |-> o, quantity |-> q])
          \/ Dismiss(r, "create_line", "refused")
    BY <1>1 DEF LineCreate
  <2>2. [product |-> p, order |-> o, quantity |-> q] \in JobAt("lock")
    BY DEF JobAt, TakeJob
  <2> QED BY <2>1, <2>2, StartKeeps, DismissKeeps
<1>2. CASE LineUpdate(r)
  <2>1. \/ Dismiss(r, "update_line", "missing") \/ Dismiss(r, "update_line", "refused")
        \/ \E l \in orderdetails, new \in [order : Orders, product : Products,
                                             quantity : Quantities] :
             Start(r, "update_line", "write_line", [product |-> new.product,
               line |-> [id |-> l.id, order |-> new.order,
                         product |-> new.product, quantity |-> new.quantity]])
    BY <1>2 DEF LineUpdate, LineOf
  <2>2. ASSUME NEW l \in orderdetails, NEW new \in [order : Orders, product : Products,
                                                   quantity : Quantities]
        PROVE  [product |-> new.product,
                line |-> [id |-> l.id, order |-> new.order,
                          product |-> new.product, quantity |-> new.quantity]]
                 \in JobAt("write_line")
    <3>1. l \in Line
      BY DEF IInv, TypeOK
    <3> QED BY <3>1 DEF JobAt, LineJob, Line
  <2> QED BY <2>1, <2>2, StartKeeps, DismissKeeps
<1>3. CASE LineDestroy(r)
  <2>1. \/ Dismiss(r, "destroy_line", "missing")
        \/ \E p \in Products, l \in orderdetails :
             Start(r, "destroy_line", "delete_line", [product |-> p, line |-> l])
    BY <1>3 DEF LineDestroy, LineOf
  <2>2. ASSUME NEW p \in Products, NEW l \in orderdetails
        PROVE  [product |-> p, line |-> l] \in JobAt("delete_line")
    BY DEF JobAt, LineJob, IInv, TypeOK
  <2> QED BY <2>1, <2>2, StartKeeps, DismissKeeps
<1>4. CASE ProductCreate(r)
  <2>1. PICK p \in Products, row \in Form :
          \/ Start(r, "create_product", "insert", [product |-> p, form |-> row])
          \/ Dismiss(r, "create_product", "refused")
    BY <1>4 DEF ProductCreate
  <2>2. [product |-> p, form |-> row] \in JobAt("insert")
    BY CatalogAssumption DEF JobAt, RowJob, Form, Row
  <2> QED BY <2>1, <2>2, StartKeeps, DismissKeeps
<1>5. CASE ProductUpdate(r)
  <2>1. PICK url \in Products, p \in Products, sent \in Form,
             fields \in SUBSET {"stock", "price"}, why \in EditReasons :
          \/ Dismiss(r, "update_product", "missing")
          \/ Dismiss(r, "update_product", "refused")
          \/ /\ products[url] # NoRow
             /\ Start(r, "update_product", "reread",
                  [product |-> p, url |-> url, reason |-> why, form |->
                    [stock |-> IF "stock" \in fields THEN sent.stock ELSE products[url].stock,
                     price |-> IF "price" \in fields THEN sent.price ELSE products[url].price]])
    BY <1>5 DEF ProductUpdate
  <2>2. ASSUME products[url] # NoRow
        PROVE  [product |-> p, url |-> url, reason |-> why, form |->
                 [stock |-> IF "stock" \in fields THEN sent.stock ELSE products[url].stock,
                  price |-> IF "price" \in fields THEN sent.price ELSE products[url].price]]
                 \in JobAt("reread")
    <3>1. products[url] \in Row
      BY <2>2 DEF IInv, TypeOK
    <3>2. sent.stock \in StockRange /\ sent.price \in Prices
      BY CatalogAssumption DEF Form
    <3> QED BY <3>1, <3>2 DEF JobAt, EditJob, Row
  <2> QED BY <2>1, <2>2, StartKeeps, DismissKeeps
<1>6. CASE ProductDestroy(r)
  <2>1. PICK p \in Products :
          \/ Start(r, "destroy_product", "delete", [product |-> p])
          \/ Dismiss(r, "destroy_product", "missing")
    BY <1>6 DEF ProductDestroy
  <2>2. [product |-> p] \in JobAt("delete")
    BY DEF JobAt, DeleteJob
  <2> QED BY <2>1, <2>2, StartKeeps, DismissKeeps
<1> QED BY <1>1, <1>2, <1>3, <1>4, <1>5, <1>6 DEF Arrive

\* The statements of an order line.
LEMMA LineStepKeeps ==
  ASSUME IInv, NEW r \in Requests,
         LockStock(r) \/ TakeStock(r) \/ SaveLine(r)
  PROVE  IInv'
<1> USE DEF Answers
<1>1. CASE LockStock(r)
  <2>1. job[r] \in TakeJob
    BY <1>1, JobTyped DEF LockStock, IInv
  <2>2. job[r].product \in Products /\ job[r] \in JobAt("take")
    BY <2>1 DEF TakeJob, JobAt
  <2>3. CASE Answer(r, "failed")
    BY <2>3, AnswerKeeps
  <2>4. CASE ~Answer(r, "failed")
    <3>1. /\ Unlocked(job[r].product)
          /\ products[job[r].product] # NoRow
          /\ seen' = [seen EXCEPT ![r] = products[job[r].product]]
          /\ Goto(r, "take")
          /\ UNCHANGED <<tables, nextId, job, events>>
      BY <1>1, <2>4 DEF LockStock
    <3> QED BY <3>1, <2>2, ReadKeeps
  <2> QED BY <2>3, <2>4
<1>2. CASE TakeStock(r) /\ \E answer \in Answers : Answer(r, answer)
  BY <1>2, AnswerKeeps
<1>3. CASE TakeStock(r) /\ ~\E answer \in Answers : Answer(r, answer)
  <2> DEFINE e == product_stock_changed(nextId, job[r].product, seen[r].stock,
                                        StockLeft(r), job[r].order)
  <2>1. pc[r] = "take" /\ StockLeft(r) \in StockRange /\ emit(r, {e}) /\ Goto(r, "line")
        /\ UNCHANGED <<tables, job, seen>>
    BY <1>3 DEF TakeStock
  <2>2. job[r] \in TakeJob /\ seen[r] \in Row /\ nextId \in Nat
    BY <2>1, JobTyped DEF IInv, ReadWasMade, TypeOK
  <2>10. job[r].quantity =< seen[r].stock
    <3>1. job[r].quantity \in Int /\ seen[r].stock \in Int
      <4>1. job[r].quantity \in Quantities /\ seen[r].stock \in StockRange
        BY <2>2 DEF TakeJob, Row
      <4>2. Quantities \subseteq Int /\ MaxStock \in Int
        BY CatalogAssumption
      <4>3. StockRange \subseteq Int
        BY <4>2 DEF StockRange
      <4> QED BY <4>1, <4>2, <4>3
    <3>2. ~(job[r].quantity > seen[r].stock)
      BY <1>3 DEF TakeStock, Answers
    <3> QED BY <3>1, <3>2
  <2>3. e \in Event
    BY <2>1, <2>2 DEF product_stock_changed, Event, StockEvent, TakeJob, Row, Reasons
  <2>4. /\ IsFiniteSet({e}) /\ Cardinality({e}) = 1
    BY FS_Singleton
  <2>5. e.subject = job[r].product /\ e.id = nextId
    BY DEF product_stock_changed
  <2>6. job[r] \in JobAt("line")
    BY <2>2 DEF JobAt
  <2> HIDE DEF e
  <2>7. {e} \in SUBSET Event
    BY <2>3
  <2>8. \A f \in {e} : /\ f.subject = job[r].product /\ f.id >= nextId
                       /\ f.id < nextId + Cardinality({e})
    BY <2>2, <2>4, <2>5
  <2>9. {e} = {product_stock_changed(nextId, job[r].product, seen[r].stock,
                                     StockLeft(r), job[r].order)}
    BY DEF e
  <2> QED BY <2>1, <2>4, <2>6, <2>7, <2>8, <2>9, <2>10, EmitKeeps
<1>4. CASE SaveLine(r)
  <2>1. job[r] \in TakeJob /\ seen[r] \in Row /\ orderdetails \subseteq Line
    BY <1>4, JobTyped DEF SaveLine, IInv, ReadWasMade, TypeOK
  <2>2. CASE Answer(r, "failed")
    BY <2>2, AnswerKeeps
  <2>3. CASE ~Answer(r, "failed")
    <3>1. /\ pc[r] = "line"
          /\ orderdetails' = orderdetails \cup
               {[id |-> r, order |-> job[r].order, product |-> job[r].product,
                 quantity |-> job[r].quantity]}
          /\ CommitProduct(r, job[r].product, [seen[r] EXCEPT !.stock = StockLeft(r)])
      BY <1>4, <2>3 DEF SaveLine
    <3>2. StockLeft(r) \in StockRange
      BY <3>1 DEF IInv, TakePending
    <3>3. [seen[r] EXCEPT !.stock = StockLeft(r)] \in Row
      BY <2>1, <3>2 DEF Row
    <3>4. orderdetails' \subseteq Line
      BY <2>1, <3>1 DEF TakeJob, Line
    <3> QED BY <3>1, <3>3, <3>4, CommitKeeps
  <2> QED BY <2>2, <2>3
<1> QED BY <1>1, <1>2, <1>3, <1>4

\* The statements that edit or delete a line.
LEMMA LineEditKeeps ==
  ASSUME IInv, NEW r \in Requests, WriteLine(r) \/ DeleteLine(r)
  PROVE  IInv'
<1>1. orderdetails \subseteq Line
  BY DEF IInv, TypeOK
<1>2. CASE WriteLine(r)
  <2>1. job[r].line \in Line
    BY <1>2, JobTyped DEF WriteLine, IInv, LineJob
  <2>2. \/ Answer(r, "failed")
        \/ /\ orderdetails' \subseteq orderdetails \cup {job[r].line}
           /\ Finish(r, "ok") /\ UNCHANGED <<products, outbox>>
    BY <1>2 DEF WriteLine
  <2> QED BY <1>1, <2>1, <2>2, AnswerKeeps, AutocommitKeeps DEF Answers
<1>3. CASE DeleteLine(r)
  <2>1. /\ orderdetails' \subseteq orderdetails
        /\ Finish(r, "ok") /\ UNCHANGED <<products, outbox>>
    BY <1>3 DEF DeleteLine
  <2> QED BY <1>1, <2>1, AutocommitKeeps
<1> QED BY <1>2, <1>3

\* An edit writes what differs from what it read, with the next ids.
LEMMA EditEmits ==
  ASSUME IInv, NEW r \in Requests, WriteProduct(r)
  PROVE  \E new \in SUBSET Event :
           /\ IsFiniteSet(new) /\ emit(r, new)
           /\ Unlocked(job[r].product) /\ Goto(r, "commit") /\ UNCHANGED <<tables, job, seen>>
           /\ job[r] \in JobAt("commit")
           /\ \A e \in new : /\ e.subject = job[r].product /\ e.id >= nextId /\ ~IsTake(e)
                            /\ e.id < nextId + Cardinality(new)
           /\ \A n \in Nat : n >= nextId /\ n < nextId + Cardinality(new)
                            => \E e \in new : e.id = n
<1> DEFINE p == job[r].product
<1>0. nextId \in Nat
  BY DEF IInv, TypeOK
<1>1. job[r] \in EditJob /\ seen[r] \in Row
  BY JobTyped DEF WriteProduct, IInv, ReadWasMade
<1> DEFINE sc == product_stock_changed(nextId, p, seen[r].stock, job[r].form.stock,
                                       job[r].reason)
           SE == IF job[r].form.stock = seen[r].stock THEN {} ELSE {sc}
           pcg == product_price_changed(nextId + Cardinality(SE), p,
                                        seen[r].price, job[r].form.price)
           PE == IF job[r].form.price = seen[r].price THEN {} ELSE {pcg}
<1>2. /\ Unlocked(p) /\ emit(r, SE \cup PE) /\ Goto(r, "commit")
      /\ UNCHANGED <<tables, job, seen>>
  BY DEF WriteProduct
<1>3. sc \in Event /\ ~IsTake(sc) /\ sc.subject = p /\ sc.id = nextId
  BY <1>0, <1>1, CatalogAssumption
     DEF product_stock_changed, Event, StockEvent, EditJob, Row, Reasons, IsTake
<1>4. /\ SE \in SUBSET Event /\ IsFiniteSet(SE) /\ Cardinality(SE) \in 0..1
      /\ SE = {sc} => Cardinality(SE) = 1
      /\ Cardinality(SE) = 0 \/ sc \in SE
      /\ \A e \in SE : e = sc
  <2>1. IsFiniteSet({}) /\ Cardinality({}) = 0
    BY FS_EmptySet
  <2>2. IsFiniteSet({sc}) /\ Cardinality({sc}) = 1
    BY FS_Singleton
  <2> QED BY <1>3, <2>1, <2>2
<1> HIDE DEF SE
<1>5. /\ pcg \in Event /\ ~IsTake(pcg) /\ pcg.subject = p
      /\ pcg.id = nextId + Cardinality(SE)
  BY <1>0, <1>1, <1>4 DEF product_price_changed, Event, EditJob, Row, IsTake
<1>6. /\ PE \in SUBSET Event /\ IsFiniteSet(PE)
      /\ PE = {} => Cardinality(PE) = 0
      /\ PE = {pcg} => Cardinality(PE) = 1
      /\ \A e \in PE : e = pcg /\ PE = {pcg}
      /\ PE = {} \/ PE = {pcg}
  <2>1. IsFiniteSet({}) /\ Cardinality({}) = 0
    BY FS_EmptySet
  <2>2. IsFiniteSet({pcg}) /\ Cardinality({pcg}) = 1
    BY FS_Singleton
  <2> QED BY <1>5, <2>1, <2>2
<1>7. sc \in SE => SE = {sc}
  BY <1>4
<1>8. SE \cap PE = {}
  BY <1>4, <1>6 DEF sc, pcg, product_stock_changed, product_price_changed
<1> HIDE DEF PE, sc, pcg
<1>9. IsFiniteSet(SE \cup PE) /\ Cardinality(SE \cup PE) = Cardinality(SE) + Cardinality(PE)
  <2>1. IsFiniteSet(SE \cap PE) /\ Cardinality(SE \cap PE) = 0
    BY <1>8, FS_EmptySet
  <2>2. Cardinality(SE \cup PE) = Cardinality(SE) + Cardinality(PE) - Cardinality(SE \cap PE)
    BY <1>4, <1>6, FS_Union
  <2>3. IsFiniteSet(SE \cup PE)
    BY <1>4, <1>6, FS_Union
  <2>4. Cardinality(PE) \in Nat
    BY <1>6, FS_CardinalityType
  <2> QED BY <1>4, <2>1, <2>2, <2>3, <2>4
<1>10. ASSUME NEW e \in SE \cup PE
       PROVE  /\ e.subject = p /\ e.id >= nextId /\ ~IsTake(e)
              /\ e.id < nextId + Cardinality(SE \cup PE)
  <2>1. CASE e \in SE
    <3>1. e = sc /\ Cardinality(SE) = 1
      BY <1>4, <1>7, <2>1
    <3>2. Cardinality(PE) \in Nat
      BY <1>6, FS_CardinalityType
    <3> QED BY <1>0, <1>3, <1>9, <3>1, <3>2
  <2>2. CASE e \in PE
    BY <1>0, <1>4, <1>5, <1>6, <1>9, <2>2
  <2> QED BY <2>1, <2>2
<1>11. job[r] \in JobAt("commit")
  BY <1>1 DEF JobAt
<1>12. SE \cup PE \in SUBSET Event
  BY <1>4, <1>6
<1>13. ASSUME NEW n \in Nat, n >= nextId, n < nextId + Cardinality(SE \cup PE)
       PROVE  \E e \in SE \cup PE : e.id = n
  <2>1. CASE n < nextId + Cardinality(SE)
    <3>1. sc \in SE /\ Cardinality(SE) = 1
      BY <1>0, <1>4, <1>7, <1>13, <2>1
    <3> QED BY <1>0, <1>3, <1>13, <2>1, <3>1
  <2>2. CASE n >= nextId + Cardinality(SE)
    <3>1. PE = {pcg} /\ Cardinality(PE) = 1
      BY <1>0, <1>4, <1>6, <1>9, <1>13, <2>2
    <3>2. n = nextId + Cardinality(SE) /\ pcg \in PE
      BY <1>0, <1>4, <1>9, <1>13, <2>2, <3>1
    <3> QED BY <1>5, <3>2
  <2> QED BY <1>0, <1>4, <2>1, <2>2
<1> QED BY <1>2, <1>9, <1>10, <1>11, <1>12, <1>13

\* The statements on a products row.
LEMMA ProductStepKeeps ==
  ASSUME IInv, NEW r \in Requests,
         \/ InsertProduct(r) \/ RereadProduct(r) \/ WriteProduct(r)
         \/ Commit(r) \/ DeleteProduct(r)
  PROVE  IInv'
<1> USE DEF Answers
<1> DEFINE p == job[r].product
<1>1. nextId \in Nat /\ orderdetails \subseteq Line
  BY DEF IInv, TypeOK
<1>2. CASE InsertProduct(r)
  <2> DEFINE e == product_created(nextId, p, job[r].form)
  <2>1. CASE Answer(r, "failed")
    BY <2>1, AnswerKeeps
  <2>2. CASE ~Answer(r, "failed")
    <3>1. /\ pc[r] = "insert" /\ Unlocked(p) /\ emit(r, {e})
          /\ Goto(r, "commit") /\ UNCHANGED <<tables, job, seen>>
      BY <1>2, <2>2 DEF InsertProduct
    <3>2. job[r] \in RowJob \cup EditJob
      BY <3>1, JobTyped DEF IInv
    <3>3. e \in Event /\ job[r] \in JobAt("commit") /\ ~IsTake(e)
      BY <1>1, <3>2 DEF product_created, Event, RowJob, EditJob, Row, JobAt, IsTake
    <3>4. e.subject = p /\ e.id = nextId
      BY DEF product_created
    <3>5. IsFiniteSet({e}) /\ Cardinality({e}) = 1
      BY FS_Singleton
    <3> HIDE DEF e
    <3>6. \A f \in {e} : /\ f.subject = p /\ f.id >= nextId
                         /\ f.id < nextId + Cardinality({e})
      BY <1>1, <3>4, <3>5
    <3>7. {e} \in SUBSET Event /\ \A f \in {e} : ~IsTake(f)
      BY <3>3
    <3> QED BY <3>1, <3>3, <3>5, <3>6, <3>7, EmitKeeps
  <2> QED BY <2>1, <2>2
<1>3. CASE RereadProduct(r)
  <2>1. job[r] \in EditJob
    BY <1>3, JobTyped DEF RereadProduct, IInv
  <2>2. job[r].url \in Products /\ job[r] \in JobAt("write")
    BY <2>1 DEF EditJob, JobAt
  <2>3. CASE Answer(r, "missing")
    BY <2>3, AnswerKeeps
  <2>4. CASE ~Answer(r, "missing")
    <3>1. /\ products[job[r].url] # NoRow
          /\ seen' = [seen EXCEPT ![r] = products[job[r].url]]
          /\ Goto(r, "write") /\ UNCHANGED <<tables, nextId, job, events>>
      BY <1>3, <2>4 DEF RereadProduct
    <3> QED BY <3>1, <2>2, ReadKeeps
  <2> QED BY <2>3, <2>4
<1>4. CASE WriteProduct(r)
  BY <1>4, EditEmits, EmitKeeps
<1>5. CASE Commit(r)
  <2>1. pc[r] = "commit" /\ job[r] \in RowJob \cup EditJob
    BY <1>5, JobTyped DEF Commit, IInv
  <2>2. job[r].form \in Row
    BY <2>1 DEF RowJob, EditJob
  <2>3. CommitProduct(r, p, job[r].form) /\ orderdetails' \subseteq Line
    BY <1>1, <1>5 DEF Commit
  <2> QED BY <2>1, <2>2, <2>3, CommitKeeps
<1>6. CASE DeleteProduct(r)
  <2>1. job[r] \in DeleteJob
    BY <1>6, JobTyped DEF DeleteProduct, IInv
  <2>2. p \in Products
    BY <2>1 DEF DeleteJob
  <2>3. CASE Answer(r, "failed")
    BY <2>3, AnswerKeeps
  <2>4. CASE ~Answer(r, "failed")
    <3>1. /\ Unlocked(p) /\ products' = [products EXCEPT ![p] = NoRow]
          /\ Finish(r, "ok") /\ UNCHANGED <<orderdetails, outbox>>
      BY <1>6, <2>4 DEF DeleteProduct
    <3>2. orderdetails' \subseteq Line
      BY <1>1, <3>1
    <3> QED BY <2>2, <3>1, <3>2, AutocommitKeeps
  <2> QED BY <2>3, <2>4
<1> QED BY <1>2, <1>3, <1>4, <1>5, <1>6

\* Every step keeps the invariant.
LEMMA NextIInv == IInv /\ [Next]_vars => IInv'
<1> SUFFICES ASSUME IInv, [Next]_vars PROVE IInv'
  OBVIOUS
<1>1. CASE UNCHANGED vars
  <2>1. UNCHANGED <<products, orderdetails, outbox, nextId, pc, job, seen, events>>
    BY <1>1 DEF vars
  <2>2. TypeOK'
    BY <2>1 DEF IInv, TypeOK
  <2>3. ReadWasMade' /\ Exclusive' /\ ReadIsCurrent' /\ EditPending' /\ IdsPending'
    BY <2>1 DEF IInv, ReadWasMade, Exclusive, Holds, ReadIsCurrent, EditPending, IdsPending
  <2>4. TakePending'
    BY <2>1 DEF IInv, TakePending, StockLeft
  <2> QED BY <2>2, <2>3, <2>4 DEF IInv
<1>2. ASSUME NEW r \in Requests, Arrive(r) PROVE IInv'
  BY <1>2, ArriveKeeps
<1>3. ASSUME NEW r \in Requests, Step(r) PROVE IInv'
  BY <1>3, LineStepKeeps, LineEditKeeps, ProductStepKeeps DEF Step
<1>4. ASSUME NEW r \in Requests, Abort(r) PROVE IInv'
  BY <1>4, AnswerKeeps DEF Abort, Answers
<1> QED BY <1>1, <1>2, <1>3, <1>4 DEF Next, Terminated

\* IInv holds in every reachable state.
THEOREM Invariance == Spec => []IInv
BY InitIInv, NextIInv, PTL DEF Spec

\* Every table and every request stays well typed, for any number of requests.
THEOREM TypeCorrect == Spec => []TypeOK
<1>1. IInv => TypeOK
  BY DEF IInv
<1> QED BY <1>1, Invariance, PTL

\* The row commit_stock read under FOR UPDATE is the committed row until the
\* COMMIT, and no other request holds its lock (events/stock.py:55-62).
THEOREM LockProtects == Spec => []LockedReadIsCurrent
<1>1. IInv => LockedReadIsCurrent
  <2> SUFFICES ASSUME IInv, NEW r \in Requests, pc[r] \in {"take", "line"}
               PROVE  /\ products[job[r].product] = seen[r]
                      /\ \A s \in Requests : Holds(s, job[r].product) => s = r
    BY DEF LockedReadIsCurrent
  <2>1. job[r].product \in Products
    BY JobTyped DEF IInv, TakeJob
  <2> QED BY <2>1 DEF IInv, ReadIsCurrent, Exclusive, Holds, Locking
<1> QED BY <1>1, Invariance, PTL

-----------------------------------------------------------------------------
\* Only a commit of a product's transaction adds to the outbox.
LEMMA OutboxGrowsAtCommit ==
  ASSUME IInv, [Next]_vars, outbox' # outbox
  PROVE  \E r \in Requests : (SaveLine(r) /\ pc'[r] = "ok") \/ Commit(r)
<1>1. UNCHANGED vars => UNCHANGED outbox
  BY DEF vars
<1>2. ASSUME NEW r \in Requests, Arrive(r) PROVE UNCHANGED outbox
  BY <1>2 DEF Arrive, LineCreate, LineUpdate, LineDestroy, ProductCreate, ProductUpdate,
              ProductDestroy, Dismiss, Start, tables
<1>3. ASSUME NEW r \in Requests, Abort(r) PROVE UNCHANGED outbox
  BY <1>3 DEF Abort, Answer, tables
<1>4. ASSUME NEW r \in Requests, Step(r), outbox' # outbox
      PROVE  (SaveLine(r) /\ pc'[r] = "ok") \/ Commit(r)
  <2>1. ASSUME NEW a, Answer(r, a) PROVE FALSE
    BY <2>1, <1>4 DEF Answer, tables
  <2>2. LockStock(r) => FALSE
    BY <2>1, <1>4 DEF LockStock, tables
  <2>3. TakeStock(r) => FALSE
    BY <2>1, <1>4 DEF TakeStock, tables
  <2>4. WriteLine(r) \/ DeleteLine(r) \/ DeleteProduct(r) => FALSE
    BY <2>1, <1>4 DEF WriteLine, DeleteLine, DeleteProduct
  <2>5. InsertProduct(r) \/ RereadProduct(r) \/ WriteProduct(r) => FALSE
    BY <2>1, <1>4 DEF InsertProduct, RereadProduct, WriteProduct, tables
  <2>6. SaveLine(r) => pc'[r] = "ok"
    <3>1. pc' = [pc EXCEPT ![r] = "ok"] => pc'[r] = "ok"
      BY DEF IInv, TypeOK
    <3> QED BY <2>1, <3>1 DEF SaveLine, CommitProduct, Finish, Goto
  <2> QED BY <1>4, <2>2, <2>3, <2>4, <2>5, <2>6 DEF Step
<1> QED BY <1>1, <1>2, <1>3, <1>4 DEF Next, Terminated

\* What an order line's COMMIT does to the tables.
LEMMA SaveLineCommits ==
  ASSUME IInv, NEW r \in Requests, SaveLine(r), pc'[r] = "ok"
  PROVE  LET p == job[r].product
             line == [id |-> r, order |-> job[r].order, product |-> p,
                      quantity |-> job[r].quantity]
         IN /\ p \in Products /\ products[p] = seen[r] /\ seen[r] \in Row
            /\ job[r] \in TakeJob
            /\ line \in orderdetails' \ orderdetails
            /\ products' = [products EXCEPT ![p] = [@ EXCEPT !.stock = StockLeft(r)]]
            /\ StockLeft(r) \in StockRange /\ StockLeft(r) >= 0
            /\ outbox' = outbox \cup events[r]
            /\ \E id \in Nat :
                 events[r] = {product_stock_changed(id, p, seen[r].stock,
                                                    StockLeft(r), job[r].order)}
<1> DEFINE p == job[r].product
           line == [id |-> r, order |-> job[r].order, product |-> p,
                    quantity |-> job[r].quantity]
<1>1. ~Answer(r, "failed")
  <2>1. pc' = [pc EXCEPT ![r] = "failed"] => pc'[r] = "failed"
    BY DEF IInv, TypeOK
  <2> QED BY <2>1 DEF Answer, Finish, Goto
<1>2. /\ pc[r] = "line" /\ LineOf(job[r].order, p) = {}
      /\ orderdetails' = orderdetails \cup {line}
      /\ CommitProduct(r, p, [seen[r] EXCEPT !.stock = StockLeft(r)])
  BY <1>1 DEF SaveLine
<1>3. job[r] \in TakeJob /\ p \in Products
  BY <1>2, JobTyped DEF IInv, TakeJob
<1>4. products[p] = seen[r] /\ seen[r] \in Row
  BY <1>2 DEF IInv, ReadIsCurrent, ReadWasMade
<1>5. line \in orderdetails' /\ line \notin orderdetails
  BY <1>2 DEF LineOf
<1>6. /\ job[r].quantity =< seen[r].stock /\ StockLeft(r) \in StockRange
      /\ \E id \in Nat :
           events[r] = {product_stock_changed(id, p, seen[r].stock,
                                              StockLeft(r), job[r].order)}
  BY <1>2 DEF IInv, TakePending
<1>7. StockLeft(r) >= 0
  <2>1. seen[r].stock \in Int
    BY <1>4, CatalogAssumption DEF Row, StockRange
  <2>2. job[r].quantity \in Int
    BY <1>3, CatalogAssumption DEF TakeJob
  <2> QED BY <1>6, <2>1, <2>2 DEF StockLeft
<1>8. /\ products' = [products EXCEPT ![p] = [@ EXCEPT !.stock = StockLeft(r)]]
      /\ outbox' = outbox \cup events[r]
  BY <1>2, <1>3, <1>4 DEF CommitProduct, IInv, TypeOK
<1> QED BY <1>3, <1>4, <1>5, <1>6, <1>7, <1>8

\* A committed order take says exactly what happened to stock and to the order,
\* under every interleaving of any number of requests of every kind.
THEOREM TakesAreExact == Spec => OrderTakeIsExact
<1> DEFINE Exact(e) == IsTake(e) =>
      /\ products[e.subject] # NoRow
      /\ e.before = products[e.subject].stock
      /\ e.after = products'[e.subject].stock
      /\ e.after >= 0
      /\ \E l \in orderdetails' \ orderdetails :
           /\ l.order = e.reason /\ l.product = e.subject
           /\ l.quantity = e.before - e.after
<1>1. IInv /\ [Next]_vars => \A e \in outbox' \ outbox : Exact(e)
  <2> SUFFICES ASSUME IInv, [Next]_vars, NEW e \in outbox' \ outbox, IsTake(e)
               PROVE  Exact(e)
    OBVIOUS
  <2>1. PICK r \in Requests : (SaveLine(r) /\ pc'[r] = "ok") \/ Commit(r)
    BY OutboxGrowsAtCommit
  <2>2. ~Commit(r)
    BY DEF Commit, CommitProduct, IInv, EditPending
  <2> DEFINE p == job[r].product
             l == [id |-> r, order |-> job[r].order, product |-> p,
                   quantity |-> job[r].quantity]
  <2>3. /\ p \in Products /\ products[p] = seen[r] /\ seen[r] \in Row
        /\ job[r] \in TakeJob
        /\ l \in orderdetails' \ orderdetails
        /\ products' = [products EXCEPT ![p] = [@ EXCEPT !.stock = StockLeft(r)]]
        /\ StockLeft(r) \in StockRange /\ StockLeft(r) >= 0
        /\ outbox' = outbox \cup events[r]
        /\ \E id \in Nat :
             events[r] = {product_stock_changed(id, p, seen[r].stock,
                                                StockLeft(r), job[r].order)}
    BY <2>1, <2>2, SaveLineCommits
  <2>4. /\ e.subject = p /\ e.before = seen[r].stock /\ e.after = StockLeft(r)
        /\ e.reason = job[r].order
    BY <2>3 DEF product_stock_changed
  <2>5. products'[p].stock = StockLeft(r)
    BY <2>3 DEF IInv, TypeOK, Row
  <2>6. l.quantity = e.before - e.after
    BY <2>3, <2>4, CatalogAssumption DEF StockLeft, TakeJob, Row, StockRange
  <2>7. products[p] # NoRow
    BY <2>3, CatalogAssumption
  <2>8. l.order = e.reason /\ l.product = e.subject
    BY <2>4
  <2> HIDE DEF l
  <2>9. l \in orderdetails' \ orderdetails
    BY <2>3 DEF l
  <2> QED BY <2>3, <2>4, <2>5, <2>6, <2>7, <2>8, <2>9
<1>2. IInv /\ [Next]_vars => [\A e \in outbox' \ outbox : Exact(e)]_vars
  BY <1>1
<1> QED BY <1>2, Invariance, PTL DEF Spec, OrderTakeIsExact

\* Ids follow commits: the relay, reading by id, meets the events of a product
\* in the order their changes took effect.
THEOREM IdsFollowCommits == Spec => EventIdsFollowCommits
<1> DEFINE Above == \A e \in outbox' \ outbox, f \in outbox :
                      e.subject = f.subject => f.id < e.id
<1>1. IInv /\ [Next]_vars => Above
  <2> SUFFICES ASSUME IInv, [Next]_vars, NEW e \in outbox' \ outbox, NEW f \in outbox,
                      e.subject = f.subject
               PROVE  f.id < e.id
    OBVIOUS
  <2>1. PICK r \in Requests : (SaveLine(r) /\ pc'[r] = "ok") \/ Commit(r)
    BY OutboxGrowsAtCommit
  <2>2. e \in events[r] /\ pc[r] \in {"line", "commit"}
    BY <2>1, SaveLineCommits DEF Commit, CommitProduct, SaveLine
  <2> QED BY <2>2 DEF IInv, IdsPending
<1>2. IInv /\ [Next]_vars => [Above]_vars
  BY <1>1
<1> QED BY <1>2, Invariance, PTL DEF Spec, EventIdsFollowCommits

-----------------------------------------------------------------------------
(* An event commits with its change, or not at all.                        *)

\* Where a request has not raised an event yet; and has, and its commit is to come.
Silent == {"new", "lock", "take", "reread", "write", "insert"} \cup Autocommit
Pending == {"line", "commit"}

\* No two requests raise one event, and each is below the ids to come.
EventsDiffer ==
  \A r \in Requests : \A e \in events[r] :
    e.id < nextId /\ \A s \in Requests : s # r => \A f \in events[s] : f.id # e.id

\* On top of IInv: what AnnouncedIffCommitted needs to be inductive.
AnnouncedInv ==
  /\ \A r \in Requests : pc[r] \in Silent => events[r] = {}
  /\ EventsDiffer
  /\ AnnouncedIffCommitted

\* What a step does to events: nothing, it raises those of r, or it commits them.
Quiet ==
  /\ UNCHANGED <<outbox, nextId, events>>
  /\ \A r \in Requests :
       \/ pc'[r] = pc[r]
       \/ pc[r] \in Silent
       \/ pc[r] \in Pending /\ pc'[r] \notin Silent \cup {"ok"}

Raises(r) ==
  /\ pc[r] \in Silent /\ pc' = [pc EXCEPT ![r] = pc'[r]] /\ pc'[r] \in Pending
  /\ UNCHANGED outbox
  /\ \E new \in SUBSET Event :
       /\ IsFiniteSet(new) /\ emit(r, new)
       /\ \A e \in new : e.id >= nextId /\ e.id < nextId + Cardinality(new)
       /\ \A n \in Nat : n >= nextId /\ n < nextId + Cardinality(new)
                        => \E e \in new : e.id = n

Commits(r) ==
  /\ pc[r] \in Pending /\ pc' = [pc EXCEPT ![r] = "ok"]
  /\ outbox' = outbox \cup events[r]
  /\ UNCHANGED <<nextId, events>>

\* An answer without a commit raises no event and forgets none.
LEMMA AnswerIsQuiet ==
  ASSUME IInv, NEW r \in Requests, NEW answer \in Answers,
         Finish(r, answer), UNCHANGED outbox,
         pc[r] \in Silent \cup Pending, answer = "ok" => pc[r] \in Silent
  PROVE  Quiet
BY DEF Finish, Goto, IInv, TypeOK, Quiet, Silent, Answers, Autocommit

\* A statement that reads raises none.
LEMMA ReadIsQuiet ==
  ASSUME IInv, NEW r \in Requests, NEW next, Goto(r, next), pc[r] \in Silent,
         UNCHANGED <<outbox, nextId, events>>
  PROVE  Quiet
BY DEF Goto, IInv, TypeOK, Quiet

\* Every step is one of the three.
LEMMA StepOfEvents ==
  ASSUME IInv, [Next]_vars
  PROVE  Quiet \/ \E r \in Requests : Raises(r) \/ Commits(r)
<1>1. CASE UNCHANGED vars
  BY <1>1 DEF vars, Quiet
<1>2. ASSUME NEW r \in Requests, Arrive(r) PROVE Quiet
  <2>1. \E next : Goto(r, next) /\ pc[r] = "new" /\ UNCHANGED <<outbox, nextId, events>>
    BY <1>2 DEF Arrive, LineCreate, LineUpdate, LineDestroy, ProductCreate, ProductUpdate,
                ProductDestroy, Dismiss, Start, tables
  <2> QED BY <2>1, ReadIsQuiet DEF Silent
<1>3. ASSUME NEW r \in Requests, NEW answer \in {"failed", "refused", "missing"},
             Answer(r, answer), pc[r] \in InTransaction \cup Autocommit
      PROVE  Quiet
  <2>1. pc[r] \in Silent \/ pc[r] \in Pending
    BY <1>3 DEF Silent, Pending, InTransaction
  <2> QED BY <1>3, <2>1, AnswerIsQuiet DEF Answer, Answers, tables
<1>4. ASSUME NEW r \in Requests, LockStock(r) \/ RereadProduct(r) PROVE Quiet
  <2>1. pc[r] \in {"lock", "reread"}
    BY <1>4 DEF LockStock, RereadProduct
  <2>2. CASE Answer(r, "failed") \/ Answer(r, "missing")
    BY <1>3, <2>1, <2>2 DEF InTransaction
  <2>3. CASE ~(Answer(r, "failed") \/ Answer(r, "missing"))
    <3>1. \E next : Goto(r, next) /\ UNCHANGED <<outbox, nextId, events>>
      BY <1>4, <2>3 DEF LockStock, RereadProduct, tables
    <3> QED BY <2>1, <3>1, ReadIsQuiet DEF Silent
  <2> QED BY <2>2, <2>3
<1>6. ASSUME NEW r \in Requests, WriteLine(r) \/ DeleteLine(r) \/ DeleteProduct(r) PROVE Quiet
  <2>1. pc[r] \in Autocommit
    BY <1>6 DEF WriteLine, DeleteLine, DeleteProduct, Autocommit
  <2>2. CASE Answer(r, "failed")
    BY <1>3, <2>1, <2>2
  <2>3. CASE ~Answer(r, "failed")
    <3>1. Finish(r, "ok") /\ UNCHANGED outbox
      BY <1>6, <2>3 DEF WriteLine, DeleteLine, DeleteProduct
    <3>2. "ok" \in Answers /\ pc[r] \in Silent
      BY <2>1 DEF Silent, Answers
    <3>3. PICK answer \in Answers : answer = "ok"
      BY <3>2
    <3> QED BY <3>1, <3>2, <3>3, AnswerIsQuiet
  <2> QED BY <2>2, <2>3
<1>5. ASSUME NEW r \in Requests, TakeStock(r), Answer(r, "refused") \/ Answer(r, "failed")
      PROVE  Quiet
  <2>1. pc[r] = "take"
    BY <1>5 DEF TakeStock
  <2> QED BY <1>3, <1>5, <2>1 DEF InTransaction
<1>7. ASSUME NEW r \in Requests, TakeStock(r), ~(Answer(r, "refused") \/ Answer(r, "failed"))
      PROVE  Raises(r)
  <2> DEFINE e == product_stock_changed(nextId, job[r].product, seen[r].stock,
                                        StockLeft(r), job[r].order)
  <2>1. /\ pc[r] = "take" /\ StockLeft(r) \in StockRange /\ emit(r, {e})
        /\ Goto(r, "line") /\ UNCHANGED outbox
    BY <1>7 DEF TakeStock, tables
  <2>2. job[r] \in TakeJob /\ seen[r] \in Row /\ nextId \in Nat
    BY <2>1, JobTyped DEF IInv, ReadWasMade, TypeOK
  <2>3. e \in Event /\ e.id = nextId
    BY <2>1, <2>2 DEF product_stock_changed, Event, StockEvent, TakeJob, Row, Reasons
  <2> HIDE DEF e
  <2>4. IsFiniteSet({e}) /\ Cardinality({e}) = 1
    BY FS_Singleton
  <2>5. /\ \A f \in {e} : f.id >= nextId /\ f.id < nextId + Cardinality({e})
        /\ \A n \in Nat : n >= nextId /\ n < nextId + Cardinality({e}) => n = e.id
    BY <2>2, <2>3, <2>4
  <2>6. {e} \in SUBSET Event
    BY <2>3
  <2>7. pc' = [pc EXCEPT ![r] = "line"] /\ pc'[r] = "line"
    BY <2>1 DEF Goto, IInv, TypeOK
  <2> QED BY <2>1, <2>4, <2>5, <2>6, <2>7 DEF Raises, Silent, Pending
<1>8. ASSUME NEW r \in Requests, InsertProduct(r) PROVE Quiet \/ Raises(r)
  <2> DEFINE e == product_created(nextId, job[r].product, job[r].form)
  <2>1. pc[r] = "insert"
    BY <1>8 DEF InsertProduct
  <2>2. CASE Answer(r, "failed")
    BY <1>3, <2>1, <2>2 DEF InTransaction
  <2>3. CASE ~Answer(r, "failed")
    <3>1. emit(r, {e}) /\ Goto(r, "commit") /\ UNCHANGED outbox
      BY <1>8, <2>3 DEF InsertProduct, tables
    <3>2. job[r] \in RowJob \cup EditJob /\ nextId \in Nat
      BY <2>1, JobTyped DEF IInv, TypeOK
    <3>3. e \in Event /\ e.id = nextId
      BY <3>2 DEF product_created, Event, RowJob, EditJob, Row
    <3> HIDE DEF e
    <3>4. IsFiniteSet({e}) /\ Cardinality({e}) = 1
      BY FS_Singleton
    <3>5. /\ \A f \in {e} : f.id >= nextId /\ f.id < nextId + Cardinality({e})
          /\ \A n \in Nat : n >= nextId /\ n < nextId + Cardinality({e}) => n = e.id
      BY <3>2, <3>3, <3>4
    <3>6. {e} \in SUBSET Event
      BY <3>3
    <3>7. pc' = [pc EXCEPT ![r] = "commit"] /\ pc'[r] = "commit"
      BY <3>1 DEF Goto, IInv, TypeOK
    <3> QED BY <2>1, <3>1, <3>4, <3>5, <3>6, <3>7 DEF Raises, Silent, Pending
  <2> QED BY <2>2, <2>3
<1>9. ASSUME NEW r \in Requests, WriteProduct(r) PROVE Raises(r)
  <2>1. pc[r] = "write"
    BY <1>9 DEF WriteProduct
  <2>2. PICK new \in SUBSET Event :
          /\ IsFiniteSet(new) /\ emit(r, new) /\ Goto(r, "commit") /\ UNCHANGED tables
          /\ \A e \in new : e.id >= nextId /\ e.id < nextId + Cardinality(new)
          /\ \A n \in Nat : n >= nextId /\ n < nextId + Cardinality(new)
                           => \E e \in new : e.id = n
    BY <1>9, EditEmits
  <2>3. pc' = [pc EXCEPT ![r] = "commit"] /\ pc'[r] = "commit" /\ UNCHANGED outbox
    BY <2>2 DEF Goto, tables, IInv, TypeOK
  <2> QED BY <2>1, <2>2, <2>3 DEF Raises, Silent, Pending
<1>10. ASSUME NEW r \in Requests, SaveLine(r) PROVE Quiet \/ Commits(r)
  <2>1. pc[r] = "line"
    BY <1>10 DEF SaveLine
  <2>2. CASE Answer(r, "failed")
    BY <1>3, <2>1, <2>2 DEF InTransaction
  <2>3. CASE ~Answer(r, "failed")
    BY <1>10, <2>1, <2>3 DEF SaveLine, CommitProduct, Finish, Goto, Commits, Pending
  <2> QED BY <2>2, <2>3
<1>11. ASSUME NEW r \in Requests, Commit(r) PROVE Commits(r)
  BY <1>11 DEF Commit, CommitProduct, Finish, Goto, Commits, Pending
<1>12. ASSUME NEW r \in Requests, Abort(r) PROVE Quiet
  BY <1>3, <1>12 DEF Abort
<1>13. ASSUME NEW r \in Requests, Step(r) PROVE Quiet \/ Raises(r) \/ Commits(r)
  BY <1>4, <1>5, <1>6, <1>7, <1>8, <1>9, <1>10, <1>11, <1>13 DEF Step
<1> QED BY <1>1, <1>2, <1>12, <1>13 DEF Next, Terminated

\* AnnouncedInv is inductive, given IInv.
LEMMA AnnouncedKeeps == IInv /\ AnnouncedInv /\ [Next]_vars => AnnouncedInv'
<1> SUFFICES ASSUME IInv, AnnouncedInv, [Next]_vars PROVE AnnouncedInv'
  OBVIOUS
<1>1. nextId \in Nat /\ (\A e \in Event : e.id \in Nat)
      /\ outbox \subseteq Event /\ \A r \in Requests : events[r] \subseteq Event
  BY DEF IInv, TypeOK, Event, StockEvent
<1>2. \A e \in outbox : e.id < nextId
  BY DEF IInv, IdsPending
<1>3. Silent \cap (Pending \cup {"ok"}) = {} /\ "ok" \notin Pending
  BY DEF Silent, Pending, Autocommit
<1>4. \A r \in Requests : pc[r] # "ok" => events[r] \cap outbox = {}
  BY DEF AnnouncedInv, AnnouncedIffCommitted
<1>5. CASE Quiet
  <2>1. \A r \in Requests : pc'[r] \in Silent => events'[r] = {}
    BY <1>3, <1>5 DEF Quiet, AnnouncedInv
  <2>2. EventsDiffer'
    BY <1>5 DEF Quiet, AnnouncedInv, EventsDiffer
  <2>3. AnnouncedIffCommitted'
    BY <1>3, <1>5 DEF Quiet, AnnouncedInv, AnnouncedIffCommitted
  <2> QED BY <2>1, <2>2, <2>3 DEF AnnouncedInv
<1>6. ASSUME NEW r \in Requests, Raises(r) PROVE AnnouncedInv'
  <2>1. PICK new \in SUBSET Event :
          /\ IsFiniteSet(new) /\ events' = [events EXCEPT ![r] = new]
          /\ nextId' = nextId + Cardinality(new)
          /\ \A e \in new : e.id >= nextId /\ e.id < nextId + Cardinality(new)
    BY <1>6 DEF Raises, emit
  <2>2. nextId' \in Nat /\ nextId' >= nextId
    BY <1>1, <2>1, FS_CardinalityType
  <2>3. /\ events'[r] = new /\ pc'[r] \in Pending /\ UNCHANGED outbox
        /\ \A s \in Requests : s # r => events'[s] = events[s] /\ pc'[s] = pc[s]
    BY <1>6, <2>1 DEF Raises, IInv, TypeOK
  <2>4. \A s \in Requests : pc'[s] \in Silent => events'[s] = {}
    BY <1>3, <2>3 DEF AnnouncedInv
  <2>5. EventsDiffer'
    <3>1. \A s \in Requests : \A e \in events[s] : e.id < nextId /\ e.id \in Nat
      BY <1>1 DEF AnnouncedInv, EventsDiffer
    <3>2. \A e \in new : e.id \in Nat /\ e.id >= nextId /\ e.id < nextId'
      BY <1>1, <2>1
    <3>3. ASSUME NEW s \in Requests, NEW e \in events'[s] PROVE e.id < nextId'
      <4>1. CASE s = r
        BY <2>3, <3>2, <3>3, <4>1
      <4>2. CASE s # r
        BY <1>1, <2>2, <2>3, <3>1, <3>3, <4>2
      <4> QED BY <4>1, <4>2
    <3>4. ASSUME NEW s \in Requests, NEW u \in Requests, s # u,
                 NEW e \in events'[s], NEW f \in events'[u]
          PROVE  f.id # e.id
      <4>1. CASE s = r
        <5>1. e \in new /\ f \in events[u]
          BY <2>3, <3>4, <4>1
        <5> QED BY <1>1, <3>1, <3>2, <5>1
      <4>2. CASE u = r
        <5>1. f \in new /\ e \in events[s]
          BY <2>3, <3>4, <4>2
        <5> QED BY <1>1, <3>1, <3>2, <5>1
      <4>3. CASE s # r /\ u # r
        BY <2>3, <3>4, <4>3 DEF AnnouncedInv, EventsDiffer
      <4> QED BY <4>1, <4>2, <4>3
    <3> QED BY <3>3, <3>4 DEF EventsDiffer
  <2>6. AnnouncedIffCommitted'
    <3>1. \A e \in new : e \notin outbox
      BY <1>1, <1>2, <2>1
    <3>2. pc'[r] # "ok" /\ events'[r] \cap outbox' = {}
      BY <2>3, <3>1 DEF Pending
    <3> QED BY <2>3, <3>2 DEF AnnouncedInv, AnnouncedIffCommitted
  <2> QED BY <2>4, <2>5, <2>6 DEF AnnouncedInv
<1>7. ASSUME NEW r \in Requests, Commits(r) PROVE AnnouncedInv'
  <2>1. /\ pc'[r] = "ok" /\ (\A s \in Requests : s # r => pc'[s] = pc[s])
        /\ outbox' = outbox \cup events[r] /\ UNCHANGED <<nextId, events>>
    BY <1>7 DEF Commits, IInv, TypeOK
  <2>2. \A s \in Requests : pc'[s] \in Silent => events'[s] = {}
    BY <1>3, <2>1 DEF AnnouncedInv
  <2>3. EventsDiffer'
    BY <2>1 DEF AnnouncedInv, EventsDiffer
  <2>4. ASSUME NEW s \in Requests, s # r PROVE events[s] \cap events[r] = {}
    BY <2>4 DEF AnnouncedInv, EventsDiffer
  <2>5. AnnouncedIffCommitted'
    BY <2>1, <2>4 DEF AnnouncedInv, AnnouncedIffCommitted
  <2> QED BY <2>2, <2>3, <2>5 DEF AnnouncedInv
<1> QED BY <1>5, <1>6, <1>7, StepOfEvents

\* So it holds in every reachable state.
LEMMA AnnouncedHolds == Spec => []AnnouncedInv
<1>1. Init => AnnouncedInv
  BY DEF Init, AnnouncedInv, EventsDiffer, AnnouncedIffCommitted
<1> QED BY <1>1, AnnouncedKeeps, Invariance, PTL DEF Spec

\* "An event commits with its change, or not at all": whatever is interleaved, refused
\* or rolled back, the outbox has every event of a request that was answered ok, and none
\* of another (tests/test_events/test_outbox.py:6).
THEOREM AnnouncementsAreCommits == Spec => []AnnouncedIffCommitted
<1>1. AnnouncedInv => AnnouncedIffCommitted
  BY DEF AnnouncedInv
<1> QED BY <1>1, AnnouncedHolds, PTL

-----------------------------------------------------------------------------
(* Where no endpoint edits products, Catalog implements StockLedger, and   *)
(* what the events of a product say last is what there is of it.           *)

\* Nothing edits a product: what a transaction is about to commit, other than
\* an order line, is the insertion of a row that is still absent.
OnlyInsertions ==
  \A r \in Requests :
    /\ pc[r] \notin {"reread", "write"}
    /\ pc[r] = "commit" =>
         /\ products[job[r].product] = NoRow
         /\ \E id \in Nat : events[r] = {product_created(id, job[r].product, job[r].form)}

NoEdit == "update_product" \notin Ops

\* A step of r that leaves products alone, and does not take r to its commit.
LEMMA OnlyInsertionsStutter ==
  ASSUME IInv, OnlyInsertions, NEW r \in Requests,
         UNCHANGED products,
         NEW next, pc' = [pc EXCEPT ![r] = next], next \notin {"reread", "write", "commit"},
         \A s \in Requests \ {r} : job'[s] = job[s] /\ events'[s] = events[s]
  PROVE  OnlyInsertions'
<1>1. pc \in [Requests -> {"new"} \cup Answers \cup InTransaction \cup Autocommit]
  BY DEF IInv, TypeOK
<1> QED BY <1>1 DEF OnlyInsertions

\* A commit, or a deletion under no lock, of the row of p.
LEMMA OnlyInsertionsWrite ==
  ASSUME IInv, OnlyInsertions, NEW r \in Requests, NEW p \in Products, NEW row,
         products' = [products EXCEPT ![p] = row], Finish(r, "ok"),
         \A s \in Requests \ {r} : pc[s] = "commit" => job[s].product # p
  PROVE  OnlyInsertions'
<1>1. /\ pc' = [pc EXCEPT ![r] = "ok"] /\ job' = [job EXCEPT ![r] = NoJob]
      /\ UNCHANGED events
  BY DEF Finish, Goto
<1>2. TypeOK
  BY DEF IInv
<1> SUFFICES ASSUME NEW s \in Requests
             PROVE  /\ pc'[s] \notin {"reread", "write"}
                    /\ pc'[s] = "commit" =>
                         /\ products'[job'[s].product] = NoRow
                         /\ \E id \in Nat : events'[s] =
                              {product_created(id, job'[s].product, job'[s].form)}
  BY DEF OnlyInsertions
<1>3. CASE s = r
  BY <1>1, <1>2, <1>3 DEF TypeOK
<1>4. CASE s # r
  <2>1. pc'[s] = pc[s] /\ job'[s] = job[s] /\ events'[s] = events[s]
    BY <1>1, <1>2, <1>4 DEF TypeOK
  <2>2. ASSUME pc[s] = "commit" PROVE products'[job[s].product] = NoRow
    <3>1. job[s].product \in Products
      BY <1>2, <2>2, JobTyped DEF RowJob, EditJob
    <3>2. job[s].product # p
      BY <1>4, <2>2
    <3>3. products[job[s].product] = NoRow
      BY <2>2 DEF OnlyInsertions
    <3> QED BY <3>1, <3>2, <3>3, <1>2 DEF TypeOK
  <2> QED BY <2>1, <2>2 DEF OnlyInsertions
<1> QED BY <1>3, <1>4

\* Arrivals bring no edit.
LEMMA OnlyInsertionsArrive ==
  ASSUME IInv, OnlyInsertions, NoEdit, NEW r \in Requests, Arrive(r)
  PROVE  OnlyInsertions'
<1>1. PICK op \in Ops, next \in Answers \cup {"lock", "write_line", "delete_line",
                                              "insert", "delete"} :
        \E what : Start(r, op, next, what)
  <2>1. ~ProductUpdate(r)
    BY DEF ProductUpdate, Dismiss, Start, NoEdit
  <2>2. LineCreate(r) => \E next \in Answers \cup {"lock"} : \E what :
                           Start(r, "create_line", next, what)
    BY DEF LineCreate, Dismiss, Answers
  <2>3. LineUpdate(r) => \E next \in Answers \cup {"write_line"} : \E what :
                           Start(r, "update_line", next, what)
    BY DEF LineUpdate, Dismiss, Answers
  <2>4. LineDestroy(r) => \E next \in Answers \cup {"delete_line"} : \E what :
                            Start(r, "destroy_line", next, what)
    BY DEF LineDestroy, Dismiss, Answers
  <2>5. ProductCreate(r) => \E next \in Answers \cup {"insert"} : \E what :
                              Start(r, "create_product", next, what)
    BY DEF ProductCreate, Dismiss, Answers
  <2>6. ProductDestroy(r) => \E next \in Answers \cup {"delete"} : \E what :
                               Start(r, "destroy_product", next, what)
    BY DEF ProductDestroy, Dismiss, Answers
  <2>7. \A op, next, what : Start(r, op, next, what) => op \in Ops
    BY DEF Start
  <2> QED BY <2>1, <2>2, <2>3, <2>4, <2>5, <2>6, <2>7 DEF Arrive
<1>2. PICK what : Start(r, op, next, what)
  BY <1>1
<1>3. /\ UNCHANGED <<products, events>>
      /\ pc' = [pc EXCEPT ![r] = next] /\ job' = [job EXCEPT ![r] = what]
  BY <1>2 DEF Start, Goto, tables
<1>4. \A s \in Requests \ {r} : job'[s] = job[s] /\ events'[s] = events[s]
  BY <1>3 DEF IInv, TypeOK
<1>5. next \notin {"reread", "write", "commit"}
  BY DEF Answers
<1> QED BY <1>3, <1>4, <1>5, OnlyInsertionsStutter

\* Nor do the statements that follow.
LEMMA OnlyInsertionsAnswer ==
  ASSUME IInv, OnlyInsertions, NEW r \in Requests, NEW answer \in Answers,
         Answer(r, answer)
  PROVE  OnlyInsertions'
<1>1. /\ UNCHANGED <<products, events>>
      /\ pc' = [pc EXCEPT ![r] = answer] /\ job' = [job EXCEPT ![r] = NoJob]
  BY DEF Answer, Finish, Goto, tables
<1>2. \A s \in Requests \ {r} : job'[s] = job[s] /\ events'[s] = events[s]
  BY <1>1 DEF IInv, TypeOK
<1>3. answer \notin {"reread", "write", "commit"}
  BY DEF Answers
<1> QED BY <1>1, <1>2, <1>3, OnlyInsertionsStutter

LEMMA OnlyInsertionsStep ==
  ASSUME IInv, OnlyInsertions, NEW r \in Requests, Step(r)
  PROVE  OnlyInsertions'
<1> USE DEF Answers
<1>1. TypeOK
  BY DEF IInv
<1>2. CASE \E answer \in Answers : Answer(r, answer)
  BY <1>2, OnlyInsertionsAnswer
<1>3. CASE ~\E answer \in Answers : Answer(r, answer)
  <2>1. CASE LockStock(r)
    <3>1. pc' = [pc EXCEPT ![r] = "take"] /\ UNCHANGED <<products, job, events>>
      BY <1>3, <2>1 DEF LockStock, Goto, tables
    <3> QED BY <3>1, OnlyInsertionsStutter
  <2>3. CASE TakeStock(r)
    <3>1. pc' = [pc EXCEPT ![r] = "line"] /\ UNCHANGED <<products, job>>
      BY <1>3, <2>3 DEF TakeStock, Goto, tables
    <3>2. \A s \in Requests \ {r} : job'[s] = job[s] /\ events'[s] = events[s]
      BY <1>1, <1>3, <2>3, <3>1 DEF TakeStock, emit, TypeOK
    <3> QED BY <3>1, <3>2, OnlyInsertionsStutter
  <2>4. CASE WriteLine(r) \/ DeleteLine(r)
    <3>1. Finish(r, "ok") /\ UNCHANGED products
      BY <1>3, <2>4 DEF WriteLine, DeleteLine
    <3>2. /\ pc' = [pc EXCEPT ![r] = "ok"]
          /\ \A s \in Requests \ {r} : job'[s] = job[s] /\ events'[s] = events[s]
      BY <1>1, <3>1 DEF Finish, Goto, TypeOK
    <3> QED BY <3>1, <3>2, OnlyInsertionsStutter
  <2>5. CASE SaveLine(r) \/ Commit(r)
    <3> DEFINE p == job[r].product
    <3>1. /\ pc[r] \in {"line", "commit"} /\ Finish(r, "ok")
          /\ \E row : products' = [products EXCEPT ![p] = row]
      BY <1>3, <2>5 DEF SaveLine, Commit, CommitProduct
    <3>2. p \in Products
      BY <1>1, <3>1, JobTyped DEF TakeJob, RowJob, EditJob
    <3>3. \A s \in Requests \ {r} : pc[s] = "commit" => job[s].product # p
      BY <3>1, <3>2 DEF IInv, Exclusive, Holds, Locking
    <3> QED BY <3>1, <3>2, <3>3, OnlyInsertionsWrite
  <2>6. CASE InsertProduct(r)
    <3> DEFINE p == job[r].product
    <3>1. /\ pc' = [pc EXCEPT ![r] = "commit"] /\ UNCHANGED <<products, job>>
          /\ events' = [events EXCEPT ![r] = {product_created(nextId, p, job[r].form)}]
          /\ products[p] = NoRow
      BY <1>3, <2>6 DEF InsertProduct, Goto, emit, tables
    <3>2. nextId \in Nat
      BY <1>1 DEF TypeOK
    <3>3. ASSUME NEW s \in Requests
          PROVE  /\ pc'[s] \notin {"reread", "write"}
                 /\ pc'[s] = "commit" =>
                      /\ products'[job'[s].product] = NoRow
                      /\ \E id \in Nat : events'[s] =
                           {product_created(id, job'[s].product, job'[s].form)}
      <4>1. CASE s = r
        BY <1>1, <3>1, <3>2, <4>1 DEF TypeOK
      <4>2. CASE s # r
        BY <1>1, <3>1, <4>2 DEF TypeOK, OnlyInsertions
      <4> QED BY <4>1, <4>2
    <3> QED BY <3>3 DEF OnlyInsertions
  <2>7. CASE RereadProduct(r) \/ WriteProduct(r)
    BY <2>7 DEF RereadProduct, WriteProduct, OnlyInsertions
  <2>8. CASE DeleteProduct(r)
    <3> DEFINE p == job[r].product
    <3>1. /\ pc[r] = "delete" /\ Unlocked(p) /\ Finish(r, "ok")
          /\ products' = [products EXCEPT ![p] = NoRow]
      BY <1>3, <2>8 DEF DeleteProduct
    <3>2. p \in Products
      BY <1>1, <3>1, JobTyped DEF DeleteJob
    <3>3. \A s \in Requests \ {r} : pc[s] = "commit" => job[s].product # p
      BY <3>1 DEF Unlocked, Holds, Locking
    <3> QED BY <3>1, <3>2, <3>3, OnlyInsertionsWrite
  <2> QED BY <2>1, <2>3, <2>4, <2>5, <2>6, <2>7, <2>8 DEF Step
<1> QED BY <1>2, <1>3

LEMMA OnlyInsertionsNext == NoEdit /\ IInv /\ OnlyInsertions /\ [Next]_vars => OnlyInsertions'
<1> SUFFICES ASSUME NoEdit, IInv, OnlyInsertions, [Next]_vars PROVE OnlyInsertions'
  OBVIOUS
<1>1. CASE UNCHANGED vars
  BY <1>1 DEF vars, OnlyInsertions
<1>2. ASSUME NEW r \in Requests, Arrive(r) PROVE OnlyInsertions'
  BY <1>2, OnlyInsertionsArrive
<1>3. ASSUME NEW r \in Requests, Step(r) PROVE OnlyInsertions'
  BY <1>3, OnlyInsertionsStep
<1>4. ASSUME NEW r \in Requests, Abort(r) PROVE OnlyInsertions'
  BY <1>4, OnlyInsertionsAnswer DEF Abort, Answers
<1> QED BY <1>1, <1>2, <1>3, <1>4 DEF Next, Terminated

LEMMA OnlyInsertionsHolds ==
  ASSUME NoEdit
  PROVE  Spec => []OnlyInsertions
<1>1. Init => OnlyInsertions
  BY DEF Init, OnlyInsertions
<1>2. IInv /\ OnlyInsertions /\ [Next]_vars => OnlyInsertions'
  BY OnlyInsertionsNext
<1> QED BY <1>1, <1>2, Invariance, PTL DEF Spec

-----------------------------------------------------------------------------
\* An event committed by r is entered in the ledger.
LEMMA Entered ==
  ASSUME IInv, NEW r \in Requests, pc[r] \in {"line", "commit"},
         NEW e, events[r] = {e}, outbox' = outbox \cup events[r]
  PROVE  e \in outbox' \ outbox /\ Ledger!Enter(e) /\ e.subject = job[r].product
<1>1. e \in Event /\ e.id \in Nat
  BY DEF IInv, TypeOK, Event, StockEvent
<1>2. e \in Ledger!Event
  BY <1>1 DEF Event, StockEvent, Ledger!Event, Ledger!StockEvent, StockRange,
              Ledger!StockRange, Reasons, Ledger!Reasons, EditReasons, Ledger!EditReasons
<1>3. /\ e.subject = job[r].product
      /\ \A f \in outbox : f.subject = e.subject => f.id < e.id
  BY DEF IInv, IdsPending
<1>4. e \notin outbox
  BY <1>1, <1>3
<1> QED BY <1>2, <1>3, <1>4 DEF Ledger!Enter

LEMMA SaveLineIsTake ==
  ASSUME IInv, NEW r \in Requests, SaveLine(r), pc'[r] = "ok"
  PROVE  \E e \in outbox' \ outbox : Ledger!Take(e)
<1> DEFINE p == job[r].product
<1>1. /\ p \in Products /\ products[p] = seen[r] /\ seen[r] \in Row /\ job[r] \in TakeJob
      /\ products' = [products EXCEPT ![p] = [@ EXCEPT !.stock = StockLeft(r)]]
      /\ StockLeft(r) >= 0 /\ outbox' = outbox \cup events[r]
      /\ \E id \in Nat :
           events[r] = {product_stock_changed(id, p, seen[r].stock,
                                              StockLeft(r), job[r].order)}
  BY SaveLineCommits
<1>2. PICK id \in Nat :
        events[r] = {product_stock_changed(id, p, seen[r].stock, StockLeft(r), job[r].order)}
  BY <1>1
<1> DEFINE e == product_stock_changed(id, p, seen[r].stock, StockLeft(r), job[r].order)
<1>3. /\ e.type = "product.stock_changed" /\ e.before = seen[r].stock
      /\ e.after = StockLeft(r) /\ e.reason = job[r].order
  BY DEF product_stock_changed
<1> HIDE DEF e
<1>4. e \in outbox' \ outbox /\ Ledger!Enter(e) /\ e.subject = p
  BY <1>1, <1>2, Entered DEF SaveLine, e
<1>5. Ledger!IsTake(e)
  BY <1>1, <1>3 DEF Ledger!IsTake, TakeJob
<1>6. products[p] # NoRow
  BY <1>1, CatalogAssumption
<1>7. Ledger!Take(e)
  BY <1>1, <1>3, <1>4, <1>5, <1>6 DEF Ledger!Take
<1> QED BY <1>4, <1>7

LEMMA CommitIsList ==
  ASSUME IInv, OnlyInsertions, NEW r \in Requests, Commit(r)
  PROVE  \E e \in outbox' \ outbox : Ledger!List(e)
<1> DEFINE p == job[r].product
<1>1. /\ pc[r] = "commit" /\ outbox' = outbox \cup events[r]
      /\ products' = [products EXCEPT ![p] = job[r].form]
  BY DEF Commit, CommitProduct
<1>2. job[r] \in RowJob \cup EditJob
  BY <1>1, JobTyped DEF IInv
<1>3. job[r].form \in Ledger!Row
  BY <1>2 DEF RowJob, EditJob, Row, Ledger!Row, StockRange, Ledger!StockRange
<1>4. products[p] = NoRow
  BY <1>1 DEF OnlyInsertions
<1>5. PICK id \in Nat : events[r] = {product_created(id, p, job[r].form)}
  BY <1>1 DEF OnlyInsertions
<1> DEFINE e == product_created(id, p, job[r].form)
<1>6. e.id = id /\ e = Ledger!product_created(id, p, job[r].form)
  BY DEF product_created, Ledger!product_created
<1> HIDE DEF e
<1>7. e \in outbox' \ outbox /\ Ledger!Enter(e) /\ e.subject = p
  BY <1>1, <1>5, Entered DEF e
<1>8. Ledger!List(e)
  BY <1>1, <1>3, <1>4, <1>6, <1>7 DEF Ledger!List
<1> QED BY <1>7, <1>8

\* Products change at a commit, or when one is deleted.
LEMMA ProductsChange ==
  ASSUME IInv, [Next]_vars, UNCHANGED outbox, products' # products
  PROVE  (\E p \in Products : Ledger!Delist(p))
           \/ \E r \in Requests : (SaveLine(r) /\ pc'[r] = "ok") \/ Commit(r)
<1>1. UNCHANGED vars => FALSE
  BY DEF vars
<1>2. ASSUME NEW r \in Requests, Arrive(r) PROVE FALSE
  BY <1>2 DEF Arrive, LineCreate, LineUpdate, LineDestroy, ProductCreate, ProductUpdate,
              ProductDestroy, Dismiss, Start, tables
<1>3. ASSUME NEW r \in Requests, Abort(r) PROVE FALSE
  BY <1>3 DEF Abort, Answer, tables
<1>4. ASSUME NEW r \in Requests, Step(r)
      PROVE  (\E p \in Products : Ledger!Delist(p))
               \/ (SaveLine(r) /\ pc'[r] = "ok") \/ Commit(r)
  <2>1. ASSUME NEW a, Answer(r, a) PROVE FALSE
    BY <2>1 DEF Answer, tables
  <2>2. LockStock(r) => FALSE
    BY <2>1 DEF LockStock, tables
  <2>3. TakeStock(r) => FALSE
    BY <2>1 DEF TakeStock, tables
  <2>4. WriteLine(r) \/ DeleteLine(r) => FALSE
    BY <2>1 DEF WriteLine, DeleteLine
  <2>5. InsertProduct(r) \/ RereadProduct(r) \/ WriteProduct(r) => FALSE
    BY <2>1 DEF InsertProduct, RereadProduct, WriteProduct, tables
  <2>6. SaveLine(r) => pc'[r] = "ok"
    <3>1. pc' = [pc EXCEPT ![r] = "ok"] => pc'[r] = "ok"
      BY DEF IInv, TypeOK
    <3>2. SaveLine(r) => pc' = [pc EXCEPT ![r] = "ok"]
      BY <2>1 DEF SaveLine, CommitProduct, Finish, Goto
    <3> QED BY <3>1, <3>2
  <2>7. DeleteProduct(r) => \E p \in Products : Ledger!Delist(p)
    <3> SUFFICES ASSUME DeleteProduct(r) PROVE \E p \in Products : Ledger!Delist(p)
      OBVIOUS
    <3>1. job[r] \in DeleteJob
      BY JobTyped DEF DeleteProduct, IInv
    <3>2. job[r].product \in Products
      BY <3>1 DEF DeleteJob
    <3>3. products' = [products EXCEPT ![job[r].product] = NoRow]
      BY <2>1 DEF DeleteProduct
    <3> QED BY <3>2, <3>3 DEF Ledger!Delist
  <2> QED BY <1>4, <2>2, <2>3, <2>4, <2>5, <2>6, <2>7 DEF Step
<1>5. PICK r \in Requests : Arrive(r) \/ Step(r) \/ Abort(r)
  BY <1>1 DEF Next, Terminated
<1>6. CASE Step(r)
  BY <1>4, <1>6
<1> QED BY <1>2, <1>3, <1>5, <1>6

LEMMA LedgerStep ==
  IInv /\ OnlyInsertions /\ [Next]_vars => [Ledger!Next]_<<products, outbox>>
<1> SUFFICES ASSUME IInv, OnlyInsertions, [Next]_vars, ~UNCHANGED <<products, outbox>>
             PROVE  Ledger!Next
  OBVIOUS
<1>1. \/ \E p \in Products : Ledger!Delist(p)
      \/ \E r \in Requests : (SaveLine(r) /\ pc'[r] = "ok") \/ Commit(r)
  BY OutboxGrowsAtCommit, ProductsChange
<1>2. ASSUME NEW r \in Requests, SaveLine(r), pc'[r] = "ok" PROVE Ledger!Next
  BY <1>2, SaveLineIsTake DEF Ledger!Next
<1>3. ASSUME NEW r \in Requests, Commit(r) PROVE Ledger!Next
  BY <1>3, CommitIsList DEF Ledger!Next
<1> QED BY <1>1, <1>2, <1>3 DEF Ledger!Next

\* Where products are not edited the catalogue is a ledger: every movement of
\* stock is one announced entry, exact and in order, whatever the interleaving.
THEOREM ImplementsLedger ==
  ASSUME "update_product" \notin Ops
  PROVE  Spec => IsALedger
<1> NoEdit
  BY DEF NoEdit
<1>1. Init => Ledger!Init
  BY DEF Init, Ledger!Init
<1>2. Spec => []OnlyInsertions
  BY OnlyInsertionsHolds
<1> QED BY <1>1, <1>2, LedgerStep, Invariance, PTL DEF Spec, IsALedger, Ledger!Spec

-----------------------------------------------------------------------------
\* A new entry for p is the last word on p, and leaves that of others.
LEMMA LastWordEntered ==
  ASSUME outbox \subseteq Event, NEW e \in Event, Ledger!Enter(e), NEW p \in Products
  PROVE  /\ e.subject # p => LastWord(p)' = LastWord(p)
         /\ e.subject = p /\ TellsStock(e) => LastWord(p)' = {e}
<1>1. /\ outbox' = outbox \cup {e}
      /\ \A f \in outbox : f.subject = e.subject => f.id < e.id
  BY DEF Ledger!Enter
<1>2. \A f \in outbox \cup {e} : f.id \in Nat
  BY DEF Event, StockEvent
<1>3. ASSUME e.subject # p PROVE LastWord(p)' = LastWord(p)
  BY <1>1, <1>3 DEF LastWord, TellsStock
<1>4. ASSUME e.subject = p, TellsStock(e) PROVE LastWord(p)' = {e}
  <2>1. e \in LastWord(p)'
    BY <1>1, <1>2, <1>4 DEF LastWord
  <2>2. ASSUME NEW f \in LastWord(p)' PROVE f = e
    <3>1. f \in outbox \cup {e} /\ f.subject = p /\ e.id =< f.id
      BY <1>1, <1>4 DEF LastWord
    <3> QED BY <1>1, <1>2, <1>4, <3>1
  <2> QED BY <2>1, <2>2
<1> QED BY <1>3, <1>4

LEMMA LedgerKeepsLastWord ==
  ASSUME TypeOK, TypeOK', StockIsLastAnnounced, [Ledger!Next]_<<products, outbox>>
  PROVE  StockIsLastAnnounced'
<1> SUFFICES ASSUME NEW p \in Products, products'[p] # NoRow, NEW e \in LastWord(p)'
             PROVE  e.after = products'[p].stock
  BY DEF StockIsLastAnnounced
<1>1. outbox \subseteq Event /\ outbox' \subseteq Event
  BY DEF TypeOK
<1>2. products \in [Products -> Row \cup {NoRow}]
  BY DEF TypeOK
<1>3. CASE UNCHANGED <<products, outbox>>
  <2>1. LastWord(p)' = LastWord(p)
    BY <1>3 DEF LastWord
  <2> QED BY <1>3, <2>1 DEF StockIsLastAnnounced
<1>4. ASSUME NEW q \in Products, Ledger!Delist(q) PROVE e.after = products'[p].stock
  <2>1. products' = [products EXCEPT ![q] = NoRow] /\ UNCHANGED outbox
    BY <1>4 DEF Ledger!Delist
  <2>2. LastWord(p)' = LastWord(p)
    BY <2>1 DEF LastWord
  <2>3. products'[p] = products[p]
    BY <1>2, <2>1
  <2> QED BY <2>2, <2>3 DEF StockIsLastAnnounced
<1>5. ASSUME NEW new \in outbox' \ outbox, Ledger!List(new) \/ Ledger!Take(new)
      PROVE  e.after = products'[p].stock
  <2>1. Ledger!Enter(new) /\ new \in Event
    BY <1>1, <1>5 DEF Ledger!List, Ledger!Take
  <2>2. /\ TellsStock(new) /\ new.subject \in Products
        /\ \A q \in Products : q # new.subject => products'[q] = products[q]
        /\ products'[new.subject].stock = new.after
    <3>1. CASE Ledger!List(new)
      <4>1. PICK row \in Ledger!Row :
              /\ new = Ledger!product_created(new.id, new.subject, row)
              /\ products' = [products EXCEPT ![new.subject] = row]
        BY <3>1 DEF Ledger!List
      <4>2. new.type = "product.created" /\ new.after = row.stock
        BY <4>1 DEF Ledger!product_created
      <4>3. new.subject \in Products
        BY <2>1 DEF Event, StockEvent
      <4> QED BY <1>2, <4>1, <4>2, <4>3 DEF TellsStock
    <3>2. CASE Ledger!Take(new)
      <4>1. /\ new.type = "product.stock_changed" /\ products[new.subject] # NoRow
            /\ products' = [products EXCEPT ![new.subject] = [@ EXCEPT !.stock = new.after]]
        BY <3>2 DEF Ledger!Take, Ledger!IsTake
      <4>2. new.subject \in Products
        BY <2>1 DEF Event, StockEvent
      <4>3. products[new.subject] \in Row
        BY <1>2, <4>1, <4>2
      <4>4. products'[new.subject].stock = new.after
        BY <1>2, <4>1, <4>2, <4>3 DEF Row
      <4> QED BY <1>2, <4>1, <4>2, <4>4 DEF TellsStock
    <3> QED BY <1>5, <3>1, <3>2
  <2>3. CASE new.subject = p
    <3>1. LastWord(p)' = {new}
      BY <1>1, <2>1, <2>2, <2>3, LastWordEntered
    <3> QED BY <2>2, <2>3, <3>1
  <2>4. CASE new.subject # p
    <3>1. LastWord(p)' = LastWord(p)
      BY <1>1, <2>1, <2>4, LastWordEntered
    <3> QED BY <2>2, <2>4, <3>1 DEF StockIsLastAnnounced
  <2> QED BY <2>3, <2>4
<1> QED BY <1>3, <1>4, <1>5 DEF Ledger!Next

\* A consumer that has read every event of a product knows its stock, where
\* products are not edited (docs/DOMAIN_EVENTS.md:80).
THEOREM LastWordIsStock ==
  ASSUME "update_product" \notin Ops
  PROVE  Spec => []StockIsLastAnnounced
<1> NoEdit
  BY DEF NoEdit
<1>1. Init => StockIsLastAnnounced
  BY DEF Init, StockIsLastAnnounced, LastWord
<1>2. /\ IInv /\ IInv' /\ OnlyInsertions /\ StockIsLastAnnounced /\ [Next]_vars
      => StockIsLastAnnounced'
  BY LedgerStep, LedgerKeepsLastWord DEF IInv
<1>3. Spec => []OnlyInsertions
  BY OnlyInsertionsHolds
<1> QED BY <1>1, <1>2, <1>3, Invariance, PTL DEF Spec
=============================================================================

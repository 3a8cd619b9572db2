----------------------------- MODULE SalesProofs -----------------------------
(***************************************************************************)
(* What Sales guarantees for every number of requests, orders, payments    *)
(* and rows: IInv is the inductive invariant, whose named parts say what   *)
(* the locks of an order, of a payments key and of a customer protect.     *)
(***************************************************************************)
EXTENDS SalesAccess, SalesHistory, FiniteSetTheorems, TLAPS

-----------------------------------------------------------------------------
\* What Access promises every user about every object, for any customers.

\* What is read of the views whose objects belong to a customer but are not one: the
\* permission on an object, beside that on the view, only looks at the owner.
LEMMA ScopedReads ==
  ASSUME NEW view \in {"order", "payment", "orderdetail"}, NEW u, NEW sent, NEW owner
  PROVE  HasPermission(view, u, "GET") =>
           (HasObjectPermission(view, u, "GET", sent, owner)
              <=> IsAdmin(u) \/ (IsCustomer(u) => owner = u.profile))
  BY SMT DEF HasPermission, HasObjectPermission, Check, ScopedCheck, OrderObject, PaymentObject,
     OrderdetailObject, ScopedObject, RoleObject, Safe

\* So does what is read of the other views.
LEMMA PlainReads ==
  ASSUME NEW view \in Views \ {"order", "payment", "orderdetail"}, NEW u, NEW sent, NEW owner
  PROVE  HasPermission(view, u, "GET") =>
           (HasObjectPermission(view, u, "GET", sent, owner)
              <=> IsAdmin(u) \/ (view = "customer" /\ IsCustomer(u) => owner = u.profile))
  BY SMT DEF HasPermission, HasObjectPermission, RoleObject, Views

\* What the list of a view shows a user is what they may retrieve by key, and an admin
\* who is also in "customer" retrieves every payment and order line.
LEMMA ReachedIsListed ==
  ASSUME NEW view \in Views, NEW u, NEW owner
  PROVE  Reached(view, u, "GET", {}, owner) <=>
           \/ Listed(view, u, owner)
           \/ view \in {"payment", "orderdetail"} /\ IsCustomer(u) /\ IsAdmin(u)
<1>1. IsAdmin(u) => HasPermission(view, u, "GET")
  BY DEF HasPermission, IsAdmin
<1> QED
  BY <1>1, ScopedReads, PlainReads, SMT DEF Reached, Listed, Found, InQueryset, Owned, Views

\* And so is what the list under a parent shows: who may read the parent may read its
\* rows, by roles that differ in one place, a customer's, and there by the owner.
LEMMA ShownIsListed ==
  ASSUME NEW n \in Nested, NEW u, NEW owner,
         ~(n \in {ProductOrderdetails, EmployeeCustomers} /\ IsCustomer(u))
  PROVE  Shown(n, u, owner) <=> Listed(n[2], u, owner)
<1> USE DEF Nested, LineProducts, ProductOrderdetails, OfficeEmployees, EmployeeReports,
        EmployeeCustomers, CustomerOrders, CustomerPayments, OrderOrderdetails
<1>1. n[1] \in Views /\ n[2] \in Views /\ n[1] \notin {"payment", "orderdetail"}
  BY DEF Views
<1>2. Shown(n, u, owner) <=> Listed(n[1], u, owner)
  BY <1>1, ReachedIsListed DEF Shown
<1>3. InQueryset(n[1], u, owner) <=> InQueryset(n[2], u, owner)
  BY <1>1, SMT DEF InQueryset, Owned
<1>4. HasPermission(n[1], u, "GET") <=> HasPermission(n[2], u, "GET")
  BY SMT DEF HasPermission, Check, CatalogCheck, ReferenceCheck, CustomerCheck, ScopedCheck,
     InAny, IsCustomer, IsSupport, Safe, Owned
<1> QED
  BY <1>2, <1>3, <1>4 DEF Listed

\* The two lists that cross ask only whether the user may read the parent.
LEMMA ShownIsCrossing ==
  ASSUME NEW n \in {ProductOrderdetails, EmployeeCustomers}, NEW u, NEW owner, IsCustomer(u)
  PROVE  Shown(n, u, owner) <=> Crosses(n, u)
<1> USE DEF ProductOrderdetails, EmployeeCustomers
<1>1. n[1] \in {"product", "employee"} /\ (n[1] = "product" <=> n = ProductOrderdetails)
  BY SMT
<1>2. Shown(n, u, owner) <=> HasPermission(n[1], u, "GET")
  BY <1>1, ReachedIsListed DEF Shown, Listed, InQueryset, Owned, Views
<1>3. CASE n[1] = "product"
  <2>1. HasPermission(n[1], u, "GET") /\ Crosses(n, u)
    BY <1>1, <1>3, SMT DEF HasPermission, Check, CatalogCheck, InAny, IsCustomer, Safe, Crosses
  <2> QED BY <1>2, <2>1
<1>4. CASE n[1] = "employee"
  <2>1. HasPermission(n[1], u, "GET") <=> Crosses(n, u)
    BY <1>1, <1>4, SMT DEF HasPermission, Check, ReferenceCheck, InAny, IsCustomer, IsAdmin,
       Safe, Crosses
  <2> QED BY <1>2, <2>1
<1> QED BY <1>1, <1>3, <1>4

\* However many customers there are and whatever groups a user is in, the queryset of a
\* list, the permission on an object and the list under a parent are one rule, but for
\* an admin's payments and order lines and for the two lists that cross.
THEOREM RoutesAgree ==
  ASSUME NEW view \in Views, NEW u, NEW owner
  PROVE  Agree(view, u, owner)
<1>1. ASSUME NEW n \in Nested, n[2] = view
      PROVE  Shown(n, u, owner) <=>
               IF n \in {ProductOrderdetails, EmployeeCustomers} /\ IsCustomer(u)
                 THEN Crosses(n, u) ELSE Listed(view, u, owner)
  BY <1>1, ShownIsListed, ShownIsCrossing
<1> QED BY <1>1, ReachedIsListed DEF Agree

\* A user in "customer", whatever their other groups but "admin", gets to nothing of
\* another customer's by a list of its view or by its key, nor by the list under a
\* parent, but for the order lines under a product and, if another role lets them read
\* employees, the customers under an employee: those they are all shown.
THEOREM TwoListsCross ==
  ASSUME NEW view \in Owned, NEW u, NEW owner
  PROVE  Confined(view, u, owner)
<1> SUFFICES ASSUME IsCustomer(u), ~IsAdmin(u), owner # u.profile
             PROVE  /\ ~Listed(view, u, owner)
                    /\ \A method \in Methods \ {"POST"}, sent \in Sent :
                         ~Reached(view, u, method, sent, owner)
                    /\ \A n \in Nested : n[2] = view => (Shown(n, u, owner) <=> Crosses(n, u))
  BY DEF Confined
\* Their only way past the permission on an object is to be its owner.
<1>1. ASSUME NEW v \in Owned, NEW method, NEW sent
      PROVE  ~HasObjectPermission(v, u, method, sent, owner)
  BY SMT DEF HasObjectPermission, OrderObject, PaymentObject, OrderdetailObject, ScopedObject,
     RoleObject, Owned
<1>2. ~Listed(view, u, owner)
  BY DEF Listed, InQueryset
<1>3. \A method \in Methods \ {"POST"}, sent \in Sent : ~Reached(view, u, method, sent, owner)
  BY <1>1 DEF Reached
<1>4. ASSUME NEW n \in Nested, n[2] = view PROVE Shown(n, u, owner) <=> Crosses(n, u)
  <2>1. CASE n \in {ProductOrderdetails, EmployeeCustomers}
    BY <2>1, ShownIsCrossing
  <2>2. CASE n \notin {ProductOrderdetails, EmployeeCustomers}
    <3>1. ~Shown(n, u, owner)
      BY <1>2, <1>4, <2>2, ShownIsListed
    <3> QED BY <2>2, <3>1 DEF Crosses
  <2> QED BY <2>1, <2>2
<1> QED
  BY <1>2, <1>3, <1>4

-----------------------------------------------------------------------------
\* The inductive invariant of Sales.

\* The statement a request stands before says what kind of job it has.
Fits ==
  \A r \in Requests :
    /\ pc[r] \in {"insert_order", "reread_order", "write_order", "commit_order",
                  "delete_order"} => job[r] \in OrderJob
    /\ pc[r] \in {"insert_payment", "commit_payment", "write_payment",
                  "delete_payment"} => job[r] \in Payment
    /\ pc[r] \in {"insert_row", "write_row", "delete_row"} => job[r] \in RowJob
    /\ pc[r] = "write_order" => seen[r] \in Statuses

\* The shared lock a foreign key takes: the customer of what is written and not yet
\* committed is there.
PendingOwner ==
  \A r \in Requests :
    /\ pc[r] = "commit_order" => job[r].row.customer \in Present
    /\ pc[r] = "commit_payment" => job[r].customer \in Present

\* The order of an order line cannot be deleted.
LinesHaveOrders == \A o \in LinedOrders : orders[o] # NoRow

\* The exclusive locks of an order row and of a payments key.
Exclusive ==
  \A r, s \in Requests :
    /\ pc[r] = "commit_order" /\ pc[s] = "commit_order" /\ job[r].order = job[s].order => r = s
    /\ pc[r] = "commit_payment" /\ pc[s] = "commit_payment"
         /\ job[r].customer = job[s].customer /\ job[r].check = job[s].check => r = s

\* The events of a transaction say what its COMMIT will do.
PendingTells ==
  \A r \in Requests :
    /\ pc[r] = "commit_order" => \A e \in events[r] :
         /\ IsOrderEvent(e) /\ e.subject = job[r].order
         /\ e.customer = job[r].row.customer /\ e.after = job[r].row.status
         /\ e.type = "order.created" => orders[job[r].order] = NoRow
    /\ pc[r] = "commit_payment" => \A e \in events[r] :
         /\ ~IsOrderEvent(e) /\ e.subject = job[r].customer /\ e.check = job[r].check
         /\ PaymentOf(job[r].customer, job[r].check) = {}

\* Ids are allocated under the lock of the order, so those pending are above those
\* committed for it.
IdsPending ==
  /\ \A f \in outbox : f.id < nextId
  /\ \A r \in Requests : pc[r] \in {"commit_order", "commit_payment"} =>
       \A e \in events[r] : e.id < nextId
  /\ \A r \in Requests : pc[r] = "commit_order" =>
       \A e \in events[r], f \in outbox :
         IsOrderEvent(f) /\ f.subject = e.subject => f.id < e.id

IInv == TypeOK /\ Fits /\ OwnersExist /\ PendingOwner /\ LinesHaveOrders /\ Exclusive
          /\ PendingTells /\ IdsPending

-----------------------------------------------------------------------------
\* A customer's row is a plain row; a set of keys is not the absence of one.
LEMMA CustomersAreKeys ==
  Customers \subseteq Keys /\ \A refs \in SUBSET Keys : refs # NoRow
BY SalesAssumption DEF Keys

\* Initially no request has begun, and the outbox is empty.
LEMMA InitIInv == Init => IInv
<1> SUFFICES ASSUME Init PROVE IInv
  OBVIOUS
<1>1. TypeOK
  BY SalesAssumption DEF Init, TypeOK
<1>2. Fits /\ PendingOwner /\ Exclusive /\ PendingTells /\ IdsPending
  BY DEF Init, Fits, PendingOwner, Exclusive, PendingTells, IdsPending
<1>3. OwnersExist
  <2>1. ASSUME NEW k \in Present PROVE rows[k] \subseteq Present
    BY <2>1, SalesAssumption DEF Init, Present
  <2>2. ASSUME NEW o \in Orders, orders[o] # NoRow PROVE orders[o].customer \in Present
    BY <2>2, SalesAssumption, CustomersAreKeys DEF Init, Present, Order
  <2> QED BY <2>1, <2>2 DEF Init, OwnersExist
<1>4. LinesHaveOrders
  BY SalesAssumption DEF Init, LinesHaveOrders
<1> QED BY <1>1, <1>2, <1>3, <1>4 DEF IInv

-----------------------------------------------------------------------------
\* A step of r that touches no table and leaves r without a lock.
LEMMA LetGoKeeps ==
  ASSUME IInv, NEW r \in Requests, UNCHANGED <<tables, nextId, events>>, TypeOK', Fits',
         pc'[r] \notin {"commit_order", "commit_payment"},
         \A s \in Requests \ {r} : pc'[s] = pc[s] /\ job'[s] = job[s]
  PROVE  IInv'
<1>1. UNCHANGED <<rows, orders, payments, outbox, nextId, events>>
  BY DEF tables
<1>2. OwnersExist'
  BY <1>1 DEF IInv, OwnersExist, Present
<1>3. PendingOwner'
  BY <1>1 DEF IInv, PendingOwner, Present
<1>4. LinesHaveOrders'
  BY <1>1 DEF IInv, LinesHaveOrders
<1>5. Exclusive'
  BY DEF IInv, Exclusive
<1>6. PendingTells'
  BY <1>1 DEF IInv, PendingTells, PaymentOf
<1>7. IdsPending'
  BY <1>1 DEF IInv, IdsPending
<1> QED BY <1>2, <1>3, <1>4, <1>5, <1>6, <1>7 DEF IInv

\* The kind of job that goes with a statement.
Fitting(next, what) ==
  /\ next \in {"insert_order", "reread_order", "delete_order"} => what \in OrderJob
  /\ next \in {"insert_payment", "write_payment", "delete_payment"} => what \in Payment
  /\ next \in {"insert_row", "write_row", "delete_row"} => what \in RowJob

\* Taking a request, to answer it or to go on without a lock.
LEMMA StartKeeps ==
  ASSUME IInv, NEW r \in Requests, NEW op, NEW what,
         NEW next \in Answers \cup Autocommit \cup {"insert_order", "reread_order",
                                                    "insert_payment"},
         what \in OrderJob \cup Payment \cup RowJob \cup {NoJob}, Fitting(next, what),
         Start(r, op, next, what)
  PROVE  IInv'
<1>1. /\ pc' = [pc EXCEPT ![r] = next] /\ job' = [job EXCEPT ![r] = what]
      /\ UNCHANGED <<tables, nextId, seen, events>>
  BY DEF Start, Goto
<1>2. TypeOK /\ Fits
  BY DEF IInv
<1>3. next \in Answers \cup Autocommit \cup InTransaction
      /\ next \notin {"write_order", "commit_order", "commit_payment"}
  BY DEF Answers, Autocommit, InTransaction
<1>4. TypeOK'
  BY <1>1, <1>2, <1>3 DEF TypeOK, tables
<1>5. pc'[r] = next /\ job'[r] = what
  BY <1>1, <1>2 DEF TypeOK
<1>6. \A s \in Requests \ {r} : pc'[s] = pc[s] /\ job'[s] = job[s]
  BY <1>1, <1>2 DEF TypeOK
<1>7. Fits'
  <2> SUFFICES ASSUME NEW s \in Requests
               PROVE  /\ pc'[s] \in {"insert_order", "reread_order", "write_order",
                                     "commit_order", "delete_order"} => job'[s] \in OrderJob
                      /\ pc'[s] \in {"insert_payment", "commit_payment", "write_payment",
                                     "delete_payment"} => job'[s] \in Payment
                      /\ pc'[s] \in {"insert_row", "write_row", "delete_row"} =>
                           job'[s] \in RowJob
                      /\ pc'[s] = "write_order" => seen'[s] \in Statuses
    BY DEF Fits
  <2>1. CASE s = r
    BY <1>3, <1>5, <2>1 DEF Fitting
  <2>2. CASE s # r
    BY <1>1, <1>2, <1>6, <2>2 DEF Fits
  <2> QED BY <2>1, <2>2
<1> QED BY <1>1, <1>3, <1>4, <1>5, <1>6, <1>7, LetGoKeeps

\* A request answered before perform_* keeps the invariant.
LEMMA DismissKeeps ==
  ASSUME IInv, NEW r \in Requests, NEW op, NEW answer \in Answers, Dismiss(r, op, answer)
  PROVE  IInv'
<1>1. Fitting(answer, NoJob)
  BY DEF Fitting, Answers
<1> QED BY <1>1, StartKeeps DEF Dismiss

\* What the end of a request does to its own variables, whatever its answer.
LEMMA FinishFits ==
  ASSUME IInv, NEW r \in Requests, NEW answer \in Answers, Finish(r, answer)
  PROVE  /\ pc'[r] = answer /\ job'[r] = NoJob
         /\ \A s \in Requests \ {r} : pc'[s] = pc[s] /\ job'[s] = job[s] /\ seen'[s] = seen[s]
         /\ UNCHANGED <<nextId, events>>
         /\ Fits'
         /\ pc' \in [Requests -> {"new"} \cup Answers \cup InTransaction \cup Autocommit]
         /\ job' \in [Requests -> OrderJob \cup Payment \cup RowJob \cup {NoJob}]
         /\ seen' \in [Requests -> Statuses \cup {NoStatus}]
<1>1. /\ pc' = [pc EXCEPT ![r] = answer] /\ job' = [job EXCEPT ![r] = NoJob]
      /\ seen' = [seen EXCEPT ![r] = NoStatus] /\ UNCHANGED <<nextId, events>>
  BY DEF Finish, Goto
<1>2. TypeOK /\ Fits
  BY DEF IInv
<1>3. /\ pc' \in [Requests -> {"new"} \cup Answers \cup InTransaction \cup Autocommit]
      /\ job' \in [Requests -> OrderJob \cup Payment \cup RowJob \cup {NoJob}]
      /\ seen' \in [Requests -> Statuses \cup {NoStatus}]
  BY <1>1, <1>2 DEF TypeOK
<1>4. /\ pc'[r] = answer /\ job'[r] = NoJob
      /\ \A s \in Requests \ {r} : pc'[s] = pc[s] /\ job'[s] = job[s] /\ seen'[s] = seen[s]
  BY <1>1, <1>2 DEF TypeOK
<1>5. Fits'
  BY <1>2, <1>4 DEF Fits, Answers
<1> QED BY <1>1, <1>3, <1>4, <1>5

\* A refusal or a failure: r lets go of what it held, and wrote nothing.
LEMMA AnswerKeeps ==
  ASSUME IInv, NEW r \in Requests, NEW answer \in Answers, Answer(r, answer)
  PROVE  IInv'
<1>1. TypeOK'
  BY FinishFits DEF Answer, tables, IInv, TypeOK
<1> QED BY <1>1, FinishFits, LetGoKeeps DEF Answer, Answers

-----------------------------------------------------------------------------
\* Arrivals of the requests on orders.
LEMMA OrderArriveKeeps ==
  ASSUME IInv, NEW r \in Requests, OrderCreate(r) \/ OrderUpdate(r) \/ OrderDestroy(r)
  PROVE  IInv'
<1> USE DEF Answers, Autocommit
<1>1. CASE OrderCreate(r)
  <2>1. PICK o \in Orders, row \in Order :
          \/ Start(r, "create_order", "insert_order", [order |-> o, url |-> o, row |-> row])
          \/ Dismiss(r, "create_order", "refused")
    BY <1>1 DEF OrderCreate
  <2>2. [order |-> o, url |-> o, row |-> row] \in OrderJob
    BY DEF OrderJob
  <2> QED BY <2>1, <2>2, StartKeeps, DismissKeeps DEF Fitting
<1>2. CASE OrderUpdate(r)
  <2>1. PICK url \in Orders, o \in Orders, sent \in Order,
             fields \in SUBSET {"status", "customer"} :
          \/ Dismiss(r, "update_order", "missing")
          \/ Dismiss(r, "update_order", "refused")
          \/ /\ orders[url] # NoRow
             /\ Start(r, "update_order", "reread_order", [order |-> o, url |-> url, row |->
                  [customer |-> IF "customer" \in fields THEN sent.customer
                                                         ELSE orders[url].customer,
                   status |-> IF "status" \in fields THEN sent.status
                                                     ELSE orders[url].status]])
    BY <1>2 DEF OrderUpdate
  <2>2. ASSUME orders[url] # NoRow
        PROVE  [order |-> o, url |-> url, row |->
                  [customer |-> IF "customer" \in fields THEN sent.customer
                                                         ELSE orders[url].customer,
                   status |-> IF "status" \in fields THEN sent.status
                                                     ELSE orders[url].status]] \in OrderJob
    <3>1. orders[url] \in Order
      BY <2>2 DEF IInv, TypeOK
    <3> QED BY <3>1 DEF OrderJob, Order
  <2> QED BY <2>1, <2>2, StartKeeps, DismissKeeps DEF Fitting
<1>3. CASE OrderDestroy(r)
  <2>1. PICK o \in Orders :
          \/ Dismiss(r, "destroy_order", "missing")
          \/ /\ orders[o] # NoRow
             /\ Start(r, "destroy_order", "delete_order",
                      [order |-> o, url |-> o, row |-> orders[o]])
    BY <1>3 DEF OrderDestroy
  <2>2. orders[o] # NoRow => [order |-> o, url |-> o, row |-> orders[o]] \in OrderJob
    BY DEF IInv, TypeOK, OrderJob
  <2> QED BY <2>1, <2>2, StartKeeps, DismissKeeps DEF Fitting
<1> QED BY <1>1, <1>2, <1>3

\* Arrivals of the requests on payments.
LEMMA PaymentArriveKeeps ==
  ASSUME IInv, NEW r \in Requests,
         PaymentCreate(r) \/ PaymentUpdate(r) \/ PaymentDestroy(r) \/ PaymentMissing(r)
  PROVE  IInv'
<1> USE DEF Answers, Autocommit
<1>1. payments \subseteq Payment
  BY DEF IInv, TypeOK
<1>2. CASE PaymentCreate(r)
  <2>1. PICK c \in Customers, check \in Checks :
          \/ Start(r, "create_payment", "insert_payment",
                   [id |-> r, customer |-> c, check |-> check])
          \/ Dismiss(r, "create_payment", "refused")
    BY <1>2 DEF PaymentCreate
  <2>2. [id |-> r, customer |-> c, check |-> check] \in Payment
    BY DEF Payment
  <2> QED BY <2>1, <2>2, StartKeeps, DismissKeeps DEF Fitting
<1>3. CASE PaymentUpdate(r)
  <2>1. PICK p \in payments, c \in Customers, check \in Checks :
          \/ Start(r, "update_payment", "write_payment",
                   [id |-> p.id, customer |-> c, check |-> check])
          \/ Dismiss(r, "update_payment", "refused")
    BY <1>3 DEF PaymentUpdate
  <2>2. [id |-> p.id, customer |-> c, check |-> check] \in Payment
    BY <1>1 DEF Payment
  <2> QED BY <2>1, <2>2, StartKeeps, DismissKeeps DEF Fitting
<1>4. CASE PaymentDestroy(r)
  <2>1. PICK p \in payments : Start(r, "destroy_payment", "delete_payment", p)
    BY <1>4 DEF PaymentDestroy
  <2> QED BY <1>1, <2>1, StartKeeps DEF Fitting
<1>5. CASE PaymentMissing(r)
  BY <1>5, DismissKeeps DEF PaymentMissing
<1> QED BY <1>2, <1>3, <1>4, <1>5

\* Arrivals of the requests on plain rows.
LEMMA RowArriveKeeps ==
  ASSUME IInv, NEW r \in Requests, RowCreate(r) \/ RowUpdate(r) \/ RowDestroy(r)
  PROVE  IInv'
<1> USE DEF Answers, Autocommit
<1>1. ASSUME NEW T \in Tables, NEW k \in T, NEW refs \in References[T]
      PROVE  [key |-> k, refs |-> refs] \in RowJob
  BY SalesAssumption DEF RowJob, Keys
<1>2. CASE RowCreate(r)
  <2>1. PICK T \in Tables : \E k \in T, refs \in References[T] :
          \/ Start(r, "create_row", "insert_row", [key |-> k, refs |-> refs])
          \/ Dismiss(r, "create_row", "refused")
    BY <1>2 DEF RowCreate
  <2> QED BY <1>1, <2>1, StartKeeps, DismissKeeps DEF Fitting
<1>3. CASE RowUpdate(r)
  <2>1. PICK T \in Tables : \E url, k \in T, refs \in References[T] :
          \/ Dismiss(r, "update_row", "missing")
          \/ Dismiss(r, "update_row", "refused")
          \/ Start(r, "update_row", "write_row", [key |-> k, refs |-> refs])
    BY <1>3 DEF RowUpdate
  <2> QED BY <1>1, <2>1, StartKeeps, DismissKeeps DEF Fitting
<1>4. CASE RowDestroy(r)
  <2>1. PICK k \in Keys :
          \/ Dismiss(r, "destroy_row", "missing")
          \/ /\ k \in Present
             /\ Start(r, "destroy_row", "delete_row", [key |-> k, refs |-> rows[k]])
    BY <1>4 DEF RowDestroy
  <2>2. k \in Present => [key |-> k, refs |-> rows[k]] \in RowJob
    BY DEF IInv, TypeOK, Present, RowJob
  <2> QED BY <2>1, <2>2, StartKeeps, DismissKeeps DEF Fitting
<1> QED BY <1>2, <1>3, <1>4

-----------------------------------------------------------------------------
\* A transaction's write of r, under its lock: what it will commit has an owner, is
\* nobody else's, and is what its events say, with ids no event has.
LEMMA WriteKeeps ==
  ASSUME IInv, NEW r \in Requests, NEW next \in {"commit_order", "commit_payment"},
         NEW new \in SUBSET Event, IsFiniteSet(new), Write(r, new, next),
         \A e \in new : e.id >= nextId /\ e.id < nextId + Cardinality(new),
         next = "commit_order" =>
           /\ job[r] \in OrderJob /\ job[r].row.customer \in Present
           /\ UnlockedOrder(job[r].order)
           /\ \A e \in new :
                /\ IsOrderEvent(e) /\ e.subject = job[r].order
                /\ e.customer = job[r].row.customer /\ e.after = job[r].row.status
                /\ e.type = "order.created" => orders[job[r].order] = NoRow,
         next = "commit_payment" =>
           /\ job[r] \in Payment /\ job[r].customer \in Present
           /\ UnlockedPayment(job[r].customer, job[r].check)
           /\ \A e \in new :
                /\ ~IsOrderEvent(e) /\ e.subject = job[r].customer /\ e.check = job[r].check
                /\ PaymentOf(job[r].customer, job[r].check) = {},
         pc[r] \notin {"commit_order", "commit_payment"}
  PROVE  IInv'
<1>1. /\ events' = [events EXCEPT ![r] = new] /\ nextId' = nextId + Cardinality(new)
      /\ pc' = [pc EXCEPT ![r] = next]
      /\ UNCHANGED <<rows, orders, payments, outbox, job, seen>>
  BY DEF Write, Goto, tables
<1>2. TypeOK /\ Fits /\ OwnersExist /\ PendingOwner /\ LinesHaveOrders /\ Exclusive
      /\ PendingTells /\ IdsPending
  BY DEF IInv
<1>3. Cardinality(new) \in Nat /\ nextId \in Nat
  BY <1>2, FS_CardinalityType DEF TypeOK
<1>4. TypeOK'
  BY <1>1, <1>2, <1>3 DEF TypeOK, InTransaction
<1>5. /\ pc'[r] = next /\ events'[r] = new
      /\ \A s \in Requests \ {r} : pc'[s] = pc[s] /\ events'[s] = events[s]
  BY <1>1, <1>2 DEF TypeOK
<1>6. Fits'
  BY <1>1, <1>2, <1>5 DEF Fits
<1>7. OwnersExist' /\ LinesHaveOrders'
  BY <1>1, <1>2 DEF OwnersExist, Present, LinesHaveOrders
<1>8. PendingOwner'
  BY <1>1, <1>2, <1>5 DEF PendingOwner, Present
<1>9. Exclusive'
  BY <1>1, <1>2, <1>5 DEF Exclusive, UnlockedOrder, UnlockedPayment
<1>10. PendingTells'
  BY <1>1, <1>2, <1>5 DEF PendingTells, PaymentOf
<1>11. \A e \in Event : e.id \in Nat
  BY DEF Event
<1>12. /\ \A f \in outbox : f.id \in Nat /\ f.id < nextId
       /\ \A s \in Requests : \A e \in events[s] : e.id \in Nat
  BY <1>2, <1>11 DEF IdsPending, TypeOK
<1>13. IdsPending'
  <2>1. \A f \in outbox' : f.id < nextId'
    BY <1>1, <1>3, <1>12
  <2>2. ASSUME NEW s \in Requests, pc'[s] \in {"commit_order", "commit_payment"},
               NEW e \in events'[s]
        PROVE  e.id < nextId'
    <3>1. CASE s = r
      BY <1>1, <1>5, <2>2, <3>1
    <3>2. CASE s # r
      <4>1. e.id < nextId /\ e.id \in Nat
        BY <1>2, <1>5, <1>12, <2>2, <3>2 DEF IdsPending
      <4> QED BY <4>1, <1>1, <1>3
    <3> QED BY <3>1, <3>2
  <2>3. ASSUME NEW s \in Requests, pc'[s] = "commit_order", NEW e \in events'[s],
               NEW f \in outbox', IsOrderEvent(f), f.subject = e.subject
        PROVE  f.id < e.id
    <3>1. CASE s = r
      <4>1. e.id >= nextId /\ e.id \in Nat /\ f.id < nextId /\ f.id \in Nat
        BY <1>1, <1>5, <1>11, <1>12, <2>3, <3>1
      <4> QED BY <4>1, <1>3
    <3>2. CASE s # r
      BY <1>1, <1>2, <1>5, <2>3, <3>2 DEF IdsPending
    <3> QED BY <3>1, <3>2
  <2> QED BY <2>1, <2>2, <2>3 DEF IdsPending
<1> QED BY <1>4, <1>6, <1>7, <1>8, <1>9, <1>10, <1>13 DEF IInv

\* The statements of a transaction, up to its COMMIT.
LEMMA WritesKeep ==
  ASSUME IInv, NEW r \in Requests,
         InsertOrder(r) \/ RereadOrder(r) \/ WriteOrder(r) \/ InsertPayment(r)
  PROVE  IInv'
<1> USE DEF Answers
<1>1. TypeOK /\ Fits /\ nextId \in Nat
  BY DEF IInv, TypeOK
<1>2. \A e : IsFiniteSet({e}) /\ Cardinality({e}) = 1
  BY FS_Singleton
<1>3. \A e : e.id = nextId =>
        \A f \in {e} : f.id >= nextId /\ f.id < nextId + Cardinality({e})
  <2> TAKE e
  <2>1. Cardinality({e}) = 1
    BY <1>2
  <2> QED BY <1>1, <2>1
<1>4. CASE InsertOrder(r)
  <2> DEFINE e == order_created(nextId, job[r].order, job[r].row)
  <2>1. CASE Answer(r, "failed")
    BY <2>1, AnswerKeeps
  <2>2. CASE ~Answer(r, "failed")
    <3>1. /\ pc[r] = "insert_order" /\ UnlockedOrder(job[r].order)
          /\ orders[job[r].order] = NoRow /\ job[r].row.customer \in Present
          /\ Write(r, {e}, "commit_order")
      BY <1>4, <2>2 DEF InsertOrder
    <3>2. job[r] \in OrderJob
      BY <1>1, <3>1 DEF Fits
    <3>3. /\ e \in Event /\ IsOrderEvent(e) /\ e.subject = job[r].order
          /\ e.customer = job[r].row.customer /\ e.after = job[r].row.status
          /\ e.id = nextId
      BY <1>1, <3>2 DEF order_created, Event, IsOrderEvent, OrderJob, Order
    <3> HIDE DEF e
    <3>4. {e} \in SUBSET Event
      BY <3>3
    <3>5. \A f \in {e} : f.id >= nextId /\ f.id < nextId + Cardinality({e})
      BY <1>3, <3>3
    <3> QED BY <1>2, <3>1, <3>2, <3>3, <3>4, <3>5, WriteKeeps
  <2> QED BY <2>1, <2>2
<1>5. CASE RereadOrder(r)
  <2>1. CASE Answer(r, "missing")
    BY <2>1, AnswerKeeps
  <2>2. CASE ~Answer(r, "missing")
    <3>1. /\ pc[r] = "reread_order" /\ orders[job[r].url] # NoRow
          /\ seen' = [seen EXCEPT ![r] = orders[job[r].url].status]
          /\ pc' = [pc EXCEPT ![r] = "write_order"]
          /\ UNCHANGED <<tables, nextId, job, events>>
      BY <1>5, <2>2 DEF RereadOrder, Goto
    <3>2. job[r] \in OrderJob
      BY <1>1, <3>1 DEF Fits
    <3>3. orders[job[r].url] \in Order
      BY <1>1, <3>1, <3>2 DEF TypeOK, OrderJob
    <3>4. orders[job[r].url].status \in Statuses
      BY <3>3 DEF Order
    <3>5. TypeOK'
      BY <1>1, <3>1, <3>4 DEF TypeOK, tables, InTransaction
    <3>6. /\ pc'[r] = "write_order" /\ seen'[r] \in Statuses
          /\ \A s \in Requests \ {r} : pc'[s] = pc[s] /\ seen'[s] = seen[s]
      BY <1>1, <3>1, <3>4 DEF TypeOK
    <3>7. Fits'
      BY <1>1, <3>1, <3>2, <3>6 DEF Fits
    <3> QED BY <3>1, <3>5, <3>6, <3>7, LetGoKeeps
  <2> QED BY <2>1, <2>2
<1>6. CASE WriteOrder(r)
  <2> DEFINE e == order_status_changed(nextId, job[r].order, job[r].row, seen[r])
             new == IF job[r].row.status = seen[r] THEN {} ELSE {e}
  <2>1. CASE Answer(r, "failed")
    BY <2>1, AnswerKeeps
  <2>2. CASE ~Answer(r, "failed")
    <3>1. /\ pc[r] = "write_order" /\ UnlockedOrder(job[r].order)
          /\ job[r].row.customer \in Present
          /\ Write(r, new, "commit_order")
      BY <1>6, <2>2 DEF WriteOrder
    <3>2. job[r] \in OrderJob /\ seen[r] \in Statuses
      BY <1>1, <3>1 DEF Fits
    <3>3. /\ e \in Event /\ IsOrderEvent(e) /\ e.subject = job[r].order
          /\ e.customer = job[r].row.customer /\ e.after = job[r].row.status
          /\ e.id = nextId /\ e.type # "order.created"
      BY <1>1, <3>2 DEF order_status_changed, Event, IsOrderEvent, OrderJob, Order
    <3> HIDE DEF e
    <3>4. new \in SUBSET Event /\ IsFiniteSet(new)
      BY <1>2, <3>3, FS_EmptySet
    <3>5. \A f \in new : f = e /\ new = {e}
      OBVIOUS
    <3>6. \A f \in new : f.id >= nextId /\ f.id < nextId + Cardinality(new)
      BY <1>3, <3>3, <3>5
    <3> HIDE DEF new
    <3> QED BY <3>1, <3>2, <3>3, <3>4, <3>5, <3>6, WriteKeeps
  <2> QED BY <2>1, <2>2
<1>7. CASE InsertPayment(r)
  <2> DEFINE e == payment_recorded(nextId, job[r].customer, job[r].check)
  <2>1. CASE Answer(r, "failed")
    BY <2>1, AnswerKeeps
  <2>2. CASE ~Answer(r, "failed")
    <3>1. /\ pc[r] = "insert_payment" /\ UnlockedPayment(job[r].customer, job[r].check)
          /\ job[r].customer \in Present
          /\ PaymentOf(job[r].customer, job[r].check) = {}
          /\ Write(r, {e}, "commit_payment")
      BY <1>7, <2>2 DEF InsertPayment
    <3>2. job[r] \in Payment
      BY <1>1, <3>1 DEF Fits
    <3>3. /\ e \in Event /\ ~IsOrderEvent(e) /\ e.subject = job[r].customer
          /\ e.check = job[r].check /\ e.id = nextId
      BY <1>1, <3>2 DEF payment_recorded, Event, IsOrderEvent, Payment
    <3> HIDE DEF e
    <3>4. {e} \in SUBSET Event
      BY <3>3
    <3>5. \A f \in {e} : f.id >= nextId /\ f.id < nextId + Cardinality({e})
      BY <1>3, <3>3
    <3> QED BY <1>2, <3>1, <3>2, <3>3, <3>4, <3>5, WriteKeeps
  <2> QED BY <2>1, <2>2
<1> QED BY <1>4, <1>5, <1>6, <1>7

-----------------------------------------------------------------------------
\* Once r has ended, those that hold locks are those that did, r excepted.
LEMMA EndedFits ==
  ASSUME IInv, NEW r \in Requests, Finish(r, "ok")
  PROVE  /\ Exclusive'
         /\ \A s \in Requests : pc'[s] \in {"commit_order", "commit_payment"} =>
              s # r /\ pc[s] = pc'[s] /\ job'[s] = job[s] /\ events'[s] = events[s]
<1>1. \A s \in Requests : pc'[s] \in {"commit_order", "commit_payment"} =>
        s # r /\ pc[s] = pc'[s] /\ job'[s] = job[s] /\ events'[s] = events[s]
  BY FinishFits DEF Answers
<1>2. Exclusive'
  BY <1>1 DEF IInv, Exclusive
<1> QED BY <1>1, <1>2

\* The COMMIT of an order, under its lock.
LEMMA CommitOrderKeeps ==
  ASSUME IInv, NEW r \in Requests, CommitOrder(r)
  PROVE  IInv'
<1> DEFINE o == job[r].order
           row == job[r].row
<1>1. /\ pc[r] = "commit_order" /\ Finish(r, "ok")
      /\ orders' = [orders EXCEPT ![o] = row] /\ outbox' = outbox \cup events[r]
      /\ UNCHANGED <<rows, payments>>
  BY DEF CommitOrder
<1>2. TypeOK /\ Fits /\ OwnersExist /\ PendingOwner /\ LinesHaveOrders /\ Exclusive
      /\ PendingTells /\ IdsPending
  BY DEF IInv
<1>3. o \in Orders /\ row \in Order /\ row.customer \in Present
  BY <1>1, <1>2 DEF Fits, OrderJob, PendingOwner
<1>4. UNCHANGED <<nextId, events>> /\ Fits'
  BY <1>1, FinishFits DEF Answers
<1>5. TypeOK'
  <2>1. orders' \in [Orders -> Order \cup {NoRow}] /\ outbox' \subseteq Event
    BY <1>1, <1>2, <1>3 DEF TypeOK
  <2> QED BY <1>1, <1>2, <2>1, FinishFits DEF TypeOK, Answers
<1>6. \A p \in Orders : orders'[p] = IF p = o THEN row ELSE orders[p]
  BY <1>1, <1>2 DEF TypeOK
<1>7. /\ \A s \in Requests : pc'[s] \in {"commit_order", "commit_payment"} =>
           s # r /\ pc[s] = pc'[s] /\ job'[s] = job[s] /\ events'[s] = events[s]
      /\ \A s \in Requests : pc'[s] = "commit_order" => job[s].order # o
  BY <1>1, <1>2, EndedFits DEF Exclusive
<1>8. Present' = Present
  BY <1>1 DEF Present
<1>9. OwnersExist'
  <2>1. \A p \in Orders : orders'[p] # NoRow => orders'[p].customer \in Present'
    BY <1>2, <1>3, <1>6, <1>8 DEF OwnersExist
  <2> QED BY <1>1, <1>2, <1>8, <2>1 DEF OwnersExist
<1>10. PendingOwner'
  BY <1>2, <1>7, <1>8 DEF PendingOwner
<1>11. LinesHaveOrders'
  <2>1. row # NoRow
    BY <1>3, SalesAssumption
  <2> QED BY <1>2, <1>6, <2>1, SalesAssumption DEF LinesHaveOrders
<1>12. PendingTells'
  <2>1. \A s \in Requests : pc'[s] = "commit_order" =>
          orders'[job[s].order] = orders[job[s].order]
    <3> TAKE s \in Requests
    <3> HAVE pc'[s] = "commit_order"
    <3>1. job[s].order \in Orders /\ job[s].order # o
      BY <1>2, <1>7 DEF Fits, OrderJob
    <3> QED BY <1>6, <3>1
  <2> QED BY <1>1, <1>2, <1>7, <2>1 DEF PendingTells, PaymentOf
<1>13. IdsPending'
  <2>1. \A f \in outbox' : f.id < nextId'
    BY <1>1, <1>2, <1>4 DEF IdsPending
  <2>2. \A s \in Requests : pc'[s] \in {"commit_order", "commit_payment"} =>
          \A e \in events'[s] : e.id < nextId'
    BY <1>2, <1>4, <1>7 DEF IdsPending
  <2>3. ASSUME NEW s \in Requests, pc'[s] = "commit_order", NEW e \in events'[s],
               NEW f \in outbox', IsOrderEvent(f), f.subject = e.subject
        PROVE  f.id < e.id
    <3>1. e \in events[s] /\ e.subject = job[s].order /\ e.subject # o /\ pc[s] = "commit_order"
      BY <1>2, <1>7, <2>3 DEF PendingTells
    <3>2. f \notin events[r]
      BY <1>1, <1>2, <2>3, <3>1 DEF PendingTells
    <3> QED BY <1>1, <1>2, <2>3, <3>1, <3>2 DEF IdsPending
  <2> QED BY <2>1, <2>2, <2>3 DEF IdsPending
<1> QED BY <1>1, <1>4, <1>5, <1>9, <1>10, <1>11, <1>12, <1>13, EndedFits DEF IInv

\* The COMMIT of a payment, under the lock of its key.
LEMMA CommitPaymentKeeps ==
  ASSUME IInv, NEW r \in Requests, CommitPayment(r)
  PROVE  IInv'
<1>1. /\ pc[r] = "commit_payment" /\ Finish(r, "ok")
      /\ payments' = payments \cup {job[r]} /\ outbox' = outbox \cup events[r]
      /\ UNCHANGED <<rows, orders>>
  BY DEF CommitPayment
<1>2. TypeOK /\ Fits /\ OwnersExist /\ PendingOwner /\ LinesHaveOrders /\ Exclusive
      /\ PendingTells /\ IdsPending
  BY DEF IInv
<1>3. job[r] \in Payment /\ job[r].customer \in Present
  BY <1>1, <1>2 DEF Fits, PendingOwner
<1>4. UNCHANGED <<nextId, events>> /\ Fits'
  BY <1>1, FinishFits DEF Answers
<1>5. TypeOK'
  <2>1. payments' \subseteq Payment /\ outbox' \subseteq Event
    BY <1>1, <1>2, <1>3 DEF TypeOK
  <2> QED BY <1>1, <1>2, <2>1, FinishFits DEF TypeOK, Answers
<1>6. /\ \A s \in Requests : pc'[s] \in {"commit_order", "commit_payment"} =>
           s # r /\ pc[s] = pc'[s] /\ job'[s] = job[s] /\ events'[s] = events[s]
      /\ \A s \in Requests : pc'[s] = "commit_payment" =>
           job[s].customer # job[r].customer \/ job[s].check # job[r].check
  BY <1>1, <1>2, EndedFits DEF Exclusive
<1>7. Present' = Present
  BY <1>1 DEF Present
<1>8. OwnersExist' /\ PendingOwner' /\ LinesHaveOrders'
  BY <1>1, <1>2, <1>3, <1>6, <1>7 DEF OwnersExist, PendingOwner, LinesHaveOrders
<1>9. PendingTells'
  <2>1. ASSUME NEW s \in Requests, pc'[s] = "commit_payment",
               PaymentOf(job[s].customer, job[s].check) = {}
        PROVE  {p \in payments' : p.customer = job[s].customer /\ p.check = job[s].check} = {}
    BY <1>1, <1>6, <2>1 DEF PaymentOf
  <2> QED BY <1>1, <1>2, <1>6, <2>1 DEF PendingTells, PaymentOf
<1>10. IdsPending'
  <2>1. \A f \in outbox' : f.id < nextId'
    BY <1>1, <1>2, <1>4 DEF IdsPending
  <2>2. \A f \in outbox' : IsOrderEvent(f) => f \in outbox
    BY <1>1, <1>2 DEF PendingTells
  <2> QED BY <1>2, <1>4, <1>6, <2>1, <2>2 DEF IdsPending
<1> QED BY <1>1, <1>4, <1>5, <1>8, <1>9, <1>10, EndedFits DEF IInv

\* A statement in autocommit: it raises no event, and is to be seen to keep the rest.
LEMMA AutocommitKeeps ==
  ASSUME IInv, NEW r \in Requests, Finish(r, "ok"), UNCHANGED outbox,
         rows' \in [Keys -> {NoRow} \cup SUBSET Keys],
         orders' \in [Orders -> Order \cup {NoRow}], payments' \subseteq Payment,
         OwnersExist', PendingOwner', LinesHaveOrders', PendingTells'
  PROVE  IInv'
<1>1. TypeOK' /\ Fits'
  BY FinishFits DEF IInv, TypeOK, Answers
<1>2. IdsPending'
  <2>1. UNCHANGED <<nextId, outbox>>
    BY FinishFits DEF Answers
  <2> QED BY <2>1, EndedFits DEF IInv, IdsPending
<1> QED BY <1>1, <1>2, EndedFits DEF IInv

\* DELETE of an order that no line refers to, when nobody holds its lock.
LEMMA DeleteOrderKeeps ==
  ASSUME IInv, NEW r \in Requests, DeleteOrder(r)
  PROVE  IInv'
<1> DEFINE o == job[r].order
<1>1. CASE Answer(r, "failed")
  BY <1>1, AnswerKeeps DEF Answers
<1>2. CASE ~Answer(r, "failed")
  <2>1. /\ pc[r] = "delete_order" /\ o \notin LinedOrders /\ Finish(r, "ok")
        /\ orders' = [orders EXCEPT ![o] = NoRow] /\ UNCHANGED <<rows, payments, outbox>>
    BY <1>2 DEF DeleteOrder
  <2>2. TypeOK /\ Fits /\ OwnersExist /\ PendingOwner /\ LinesHaveOrders /\ PendingTells
    BY DEF IInv
  <2>3. /\ rows' \in [Keys -> {NoRow} \cup SUBSET Keys]
        /\ orders' \in [Orders -> Order \cup {NoRow}] /\ payments' \subseteq Payment
    BY <2>1, <2>2 DEF TypeOK
  <2>4. Present' = Present /\ \A p \in Orders : orders'[p] = IF p = o THEN NoRow ELSE orders[p]
    BY <2>1, <2>2 DEF TypeOK, Present
  <2>5. OwnersExist'
    BY <2>1, <2>2, <2>4 DEF OwnersExist
  <2>6. PendingOwner'
    BY <2>1, <2>2, <2>4, EndedFits DEF PendingOwner
  <2>7. LinesHaveOrders'
    BY <2>1, <2>2, <2>4, SalesAssumption DEF LinesHaveOrders
  <2>8. PendingTells'
    <3>1. \A s \in Requests : pc[s] = "commit_order" => job[s].order \in Orders
      BY <2>2 DEF Fits, OrderJob
    <3> QED BY <2>1, <2>2, <2>4, <3>1, EndedFits DEF PendingTells, PaymentOf
  <2> QED BY <2>1, <2>3, <2>5, <2>6, <2>7, <2>8, AutocommitKeeps
<1> QED BY <1>1, <1>2

\* UPDATE or INSERT of a payment, when nobody holds the lock of its key; and DELETE.
LEMMA PaymentWritesKeep ==
  ASSUME IInv, NEW r \in Requests, WritePayment(r) \/ DeletePayment(r)
  PROVE  IInv'
<1>1. TypeOK /\ Fits /\ OwnersExist /\ PendingOwner /\ LinesHaveOrders /\ PendingTells
  BY DEF IInv
<1>2. CASE Answer(r, "failed")
  BY <1>2, AnswerKeeps DEF Answers
<1>3. CASE ~Answer(r, "failed")
  <2>1. /\ pc[r] \in {"write_payment", "delete_payment"} /\ Finish(r, "ok")
        /\ UNCHANGED <<rows, orders, outbox>>
        /\ \A p \in payments' :
             \/ p \in payments
             \/ /\ p = job[r] /\ job[r].customer \in Present
                /\ UnlockedPayment(job[r].customer, job[r].check)
    BY <1>3 DEF WritePayment, DeletePayment
  <2>2. job[r] \in Payment
    BY <1>1, <2>1 DEF Fits
  <2>3. /\ rows' \in [Keys -> {NoRow} \cup SUBSET Keys]
        /\ orders' \in [Orders -> Order \cup {NoRow}] /\ payments' \subseteq Payment
    BY <1>1, <2>1, <2>2 DEF TypeOK
  <2>4. Present' = Present
    BY <2>1 DEF Present
  <2>5. OwnersExist'
    BY <1>1, <2>1, <2>4 DEF OwnersExist
  <2>6. PendingOwner' /\ LinesHaveOrders'
    BY <1>1, <2>1, <2>4, EndedFits DEF PendingOwner, LinesHaveOrders
  <2>7. PendingTells'
    <3>1. ASSUME NEW s \in Requests, pc[s] = "commit_payment",
                 PaymentOf(job[s].customer, job[s].check) = {}
          PROVE  {p \in payments' : p.customer = job[s].customer /\ p.check = job[s].check} = {}
      BY <2>1, <3>1 DEF PaymentOf, UnlockedPayment
    <3> QED BY <1>1, <2>1, <3>1, EndedFits DEF PendingTells, PaymentOf
  <2> QED BY <2>1, <2>3, <2>5, <2>6, <2>7, AutocommitKeeps
<1> QED BY <1>2, <1>3

\* A plain row is written when what it refers to is there, and deleted when nothing
\* refers to it, committed or about to be.
LEMMA RowWritesKeep ==
  ASSUME IInv, NEW r \in Requests, InsertRow(r) \/ WriteRow(r) \/ DeleteRow(r)
  PROVE  IInv'
<1> DEFINE k == job[r].key
<1>1. TypeOK /\ Fits /\ OwnersExist /\ PendingOwner /\ LinesHaveOrders /\ PendingTells
  BY DEF IInv
<1>2. CASE Answer(r, "failed")
  BY <1>2, AnswerKeeps DEF Answers
<1>3. CASE ~Answer(r, "failed")
  <2>1. PICK new : /\ pc[r] \in {"insert_row", "write_row", "delete_row"}
                   /\ SaveRow(r, k, new)
                   /\ \/ new = job[r].refs /\ new \subseteq Present
                      \/ new = NoRow /\ UnlockedRow(k) /\ ~Referenced(k)
    BY <1>3 DEF InsertRow, WriteRow, DeleteRow
  <2>2. /\ Finish(r, "ok") /\ rows' = [rows EXCEPT ![k] = new]
        /\ UNCHANGED <<orders, payments, outbox>>
    BY <2>1 DEF SaveRow
  <2>3. k \in Keys /\ new \in {NoRow} \cup SUBSET Keys
    BY <1>1, <2>1 DEF Fits, RowJob
  <2>4. /\ rows' \in [Keys -> {NoRow} \cup SUBSET Keys]
        /\ orders' \in [Orders -> Order \cup {NoRow}] /\ payments' \subseteq Payment
    BY <1>1, <2>2, <2>3 DEF TypeOK
  <2>5. \A l \in Keys : rows'[l] = IF l = k THEN new ELSE rows[l]
    BY <1>1, <2>2, <2>3 DEF TypeOK
  <2>6. LinesHaveOrders' /\ PendingTells'
    BY <1>1, <2>2, EndedFits DEF LinesHaveOrders, PendingTells, PaymentOf
  <2>7. CASE new # NoRow
    <3>1. Present' = Present \cup {k} /\ new \subseteq Present
      BY <2>1, <2>3, <2>5, <2>7 DEF Present
    <3>2. \A l \in Present' : rows'[l] \subseteq Present'
      BY <1>1, <2>5, <3>1 DEF OwnersExist, Present
    <3>3. OwnersExist'
      BY <1>1, <2>2, <3>1, <3>2 DEF OwnersExist
    <3>4. PendingOwner'
      BY <1>1, <2>2, <3>1, EndedFits DEF PendingOwner
    <3> QED BY <2>2, <2>4, <2>6, <3>3, <3>4, AutocommitKeeps
  <2>8. CASE new = NoRow
    <3>1. Present' = Present \ {k}
      BY <2>3, <2>5, <2>8 DEF Present
    <3>2. UnlockedRow(k) /\ ~Referenced(k)
      BY <2>1, <2>8, <2>3, <1>1, CustomersAreKeys DEF Fits, RowJob
    <3>3. OwnersExist'
      <4>1. \A l \in Present' : rows'[l] \subseteq Present'
        BY <1>1, <2>5, <3>1, <3>2 DEF OwnersExist, Referenced, Present
      <4>2. \A o \in Orders : orders'[o] # NoRow => orders'[o].customer \in Present'
        BY <1>1, <2>2, <3>1, <3>2 DEF OwnersExist, Referenced
      <4>3. \A p \in payments' : p.customer \in Present'
        BY <1>1, <2>2, <3>1, <3>2 DEF OwnersExist, Referenced
      <4> QED BY <4>1, <4>2, <4>3 DEF OwnersExist
    <3>4. PendingOwner'
      <4>1. ASSUME NEW s \in Requests, pc[s] = "commit_order"
            PROVE  job[s].row.customer # k
        <5>1. job[s].row.customer \in Customers
          BY <1>1, <4>1 DEF Fits, OrderJob, Order
        <5> QED BY <3>2, <4>1, <5>1 DEF UnlockedRow, Refers
      <4>2. ASSUME NEW s \in Requests, pc[s] = "commit_payment"
            PROVE  job[s].customer # k
        <5>1. job[s].customer \in Customers
          BY <1>1, <4>2 DEF Fits, Payment
        <5> QED BY <3>2, <4>2, <5>1 DEF UnlockedRow, Refers
      <4> QED BY <1>1, <2>2, <3>1, <4>1, <4>2, EndedFits DEF PendingOwner
    <3> QED BY <2>2, <2>4, <2>6, <3>3, <3>4, AutocommitKeeps
  <2> QED BY <2>7, <2>8
<1> QED BY <1>2, <1>3

-----------------------------------------------------------------------------
\* Every step keeps the invariant.
LEMMA NextKeeps ==
  ASSUME IInv, [Next]_vars
  PROVE  IInv'
<1>1. CASE UNCHANGED vars
  <2>1. UNCHANGED <<rows, orders, payments, outbox, nextId, pc, job, seen, events>>
    BY <1>1 DEF vars
  <2>2. TypeOK' /\ Fits'
    BY <2>1 DEF IInv, TypeOK, Fits
  <2>3. OwnersExist' /\ PendingOwner' /\ LinesHaveOrders' /\ Exclusive'
    BY <2>1 DEF IInv, OwnersExist, PendingOwner, LinesHaveOrders, Exclusive, Present
  <2>4. PendingTells' /\ IdsPending'
    BY <2>1 DEF IInv, PendingTells, IdsPending, PaymentOf
  <2> QED BY <2>2, <2>3, <2>4 DEF IInv
<1>2. ASSUME NEW r \in Requests, Arrive(r) PROVE IInv'
  BY <1>2, OrderArriveKeeps, PaymentArriveKeeps, RowArriveKeeps DEF Arrive
<1>3. ASSUME NEW r \in Requests, Step(r) PROVE IInv'
  BY <1>3, WritesKeep, CommitOrderKeeps, CommitPaymentKeeps, DeleteOrderKeeps,
     PaymentWritesKeep, RowWritesKeep DEF Step
<1>4. ASSUME NEW r \in Requests, Abort(r) PROVE IInv'
  BY <1>4, AnswerKeeps DEF Abort, Answers
<1> QED BY <1>1, <1>2, <1>3, <1>4 DEF Next, Terminated

\* The inductive invariant of the sales tables and of the requests on them.
THEOREM Invariance == Spec => []IInv
BY InitIInv, NextKeeps, PTL DEF Spec

\* Every table and every request is typed, however many requests there are.
THEOREM TypeCorrect == Spec => []TypeOK
<1>1. IInv => TypeOK
  BY DEF IInv
<1> QED BY <1>1, Invariance, PTL

\* No interleaving leaves a row, an order or a payment that refers to nothing.
THEOREM OwnersAlwaysExist == Spec => []OwnersExist
<1>1. IInv => OwnersExist
  BY DEF IInv
<1> QED BY <1>1, Invariance, PTL

-----------------------------------------------------------------------------
\* Only the COMMIT of an order or of a payment adds to the outbox.
LEMMA OutboxGrowsAtCommit ==
  ASSUME [Next]_vars, outbox' # outbox
  PROVE  \E r \in Requests : CommitOrder(r) \/ CommitPayment(r)
<1>1. ~UNCHANGED vars
  BY DEF vars
<1>2. ASSUME NEW r \in Requests, Arrive(r) PROVE UNCHANGED outbox
  <2>1. ASSUME NEW op, NEW next, NEW what, Start(r, op, next, what) PROVE UNCHANGED outbox
    BY <2>1 DEF Start, tables
  <2>2. OrderCreate(r) \/ OrderUpdate(r) \/ OrderDestroy(r) => UNCHANGED outbox
    BY <2>1 DEF OrderCreate, OrderUpdate, OrderDestroy, Dismiss
  <2>3. PaymentCreate(r) \/ PaymentUpdate(r) \/ PaymentDestroy(r) \/ PaymentMissing(r)
          => UNCHANGED outbox
    BY <2>1 DEF PaymentCreate, PaymentUpdate, PaymentDestroy, PaymentMissing, Dismiss
  <2>4. RowCreate(r) \/ RowUpdate(r) \/ RowDestroy(r) => UNCHANGED outbox
    BY <2>1 DEF RowCreate, RowUpdate, RowDestroy, Dismiss
  <2> QED BY <1>2, <2>2, <2>3, <2>4 DEF Arrive
<1>3. ASSUME NEW r \in Requests, NEW answer, Answer(r, answer) PROVE UNCHANGED outbox
  BY <1>3 DEF Answer, tables
<1>4. ASSUME NEW r \in Requests, Step(r) PROVE CommitOrder(r) \/ CommitPayment(r)
  <2>1. InsertOrder(r) \/ RereadOrder(r) \/ WriteOrder(r) \/ InsertPayment(r)
          => UNCHANGED outbox
    BY <1>3 DEF InsertOrder, RereadOrder, WriteOrder, InsertPayment, Write, tables
  <2>2. DeleteOrder(r) \/ WritePayment(r) \/ DeletePayment(r) => UNCHANGED outbox
    BY <1>3 DEF DeleteOrder, WritePayment, DeletePayment
  <2>3. InsertRow(r) \/ WriteRow(r) \/ DeleteRow(r) => UNCHANGED outbox
    BY <1>3 DEF InsertRow, WriteRow, DeleteRow, SaveRow
  <2> QED BY <1>4, <2>1, <2>2, <2>3 DEF Step
<1> QED BY <1>1, <1>2, <1>3, <1>4 DEF Next, Terminated, Abort

\* What a commit does, whoever overlaps it: all that its event says but `before`.
Tells(e) ==
  IF e.type = "payment.recorded"
    THEN /\ PaymentOf(e.subject, e.check) = {}
         /\ \E p \in payments' : p.customer = e.subject /\ p.check = e.check
    ELSE /\ orders'[e.subject] = [customer |-> e.customer, status |-> e.after]
         /\ e.type = "order.created" => orders[e.subject] = NoRow

\* An event commits with the change it describes.
LEMMA CommitsTell ==
  ASSUME IInv, [Next]_vars, NEW e \in outbox' \ outbox
  PROVE  Tells(e)
<1>1. PICK r \in Requests : CommitOrder(r) \/ CommitPayment(r)
  BY OutboxGrowsAtCommit
<1>2. TypeOK /\ Fits /\ PendingTells
  BY DEF IInv
<1>3. CASE CommitOrder(r)
  <2>1. /\ pc[r] = "commit_order" /\ e \in events[r]
        /\ orders' = [orders EXCEPT ![job[r].order] = job[r].row]
    BY <1>3 DEF CommitOrder
  <2>2. /\ e.type # "payment.recorded" /\ e.subject = job[r].order
        /\ e.customer = job[r].row.customer /\ e.after = job[r].row.status
        /\ e.type = "order.created" => orders[job[r].order] = NoRow
    BY <1>2, <2>1 DEF PendingTells, IsOrderEvent
  <2>3. job[r].order \in Orders /\ job[r].row \in Order
    BY <1>2, <2>1 DEF Fits, OrderJob
  <2>4. job[r].row = [customer |-> job[r].row.customer, status |-> job[r].row.status]
    BY <2>3 DEF Order
  <2>5. orders'[job[r].order] = job[r].row
    BY <1>2, <2>1, <2>3 DEF TypeOK
  <2> QED BY <2>2, <2>4, <2>5 DEF Tells
<1>4. CASE CommitPayment(r)
  <2>1. /\ pc[r] = "commit_payment" /\ e \in events[r] /\ job[r] \in payments'
    BY <1>4 DEF CommitPayment
  <2>2. /\ e.type = "payment.recorded" /\ e.subject = job[r].customer
        /\ e.check = job[r].check /\ PaymentOf(job[r].customer, job[r].check) = {}
    BY <1>2, <2>1 DEF PendingTells, IsOrderEvent
  <2> QED BY <2>1, <2>2 DEF Tells
<1> QED BY <1>1, <1>3, <1>4

-----------------------------------------------------------------------------
\* The history of an edit, and what its event says of it.

Editors == {"write_order", "commit_order"}

\* was_status is kept from its read to the COMMIT, and no longer.
ReadInTime == \A r \in Requests : pc[r] \notin Editors => seen[r] = NoStatus

\* It is one of the statuses remembered since.
BeforeWasHad == \A r \in Requests : Editing(r) => seen[r] \in had[r]

\* An edit about to commit has raised the event of a status that differs from
\* was_status, and no other; who inserts an order has read none.
EventsAreOfEdit ==
  \A r \in Requests : pc[r] = "commit_order" =>
    /\ \A e \in events[r] : e.type = "order.status_changed" =>
         seen[r] # NoStatus /\ e.before = seen[r] /\ e.before # e.after
    /\ seen[r] # NoStatus =>
         \/ job[r].row.status = seen[r]
         \/ \E e \in events[r] : e.type = "order.status_changed" /\ e.subject = job[r].order

HInv == IInv /\ ReadInTime /\ BeforeWasHad /\ EventsAreOfEdit

\* What a step may do to the request that takes it.
Rests(r) ==
  /\ pc'[r] \notin Editors
  /\ seen'[r] = NoStatus \/ (pc[r] \notin Editors /\ seen'[r] = seen[r])
Reads(r) ==
  /\ pc'[r] = "write_order" /\ UNCHANGED <<orders, job>>
  /\ orders[job[r].url] # NoRow /\ seen'[r] = orders[job[r].url].status
Raises(r) ==
  LET j == job[r] IN
  /\ pc'[r] = "commit_order" /\ UNCHANGED <<job, seen>>
  /\ \/ /\ pc[r] = "insert_order"
        /\ events'[r] = {order_created(nextId, j.order, j.row)}
     \/ /\ pc[r] = "write_order"
        /\ events'[r] = IF j.row.status = seen[r] THEN {}
                        ELSE {order_status_changed(nextId, j.order, j.row, seen[r])}

Others(r) == \A s \in Requests \ {r} : /\ pc'[s] = pc[s] /\ job'[s] = job[s]
                                       /\ seen'[s] = seen[s] /\ events'[s] = events[s]

\* Every step is one request's.
LEMMA OneRequestMoves ==
  ASSUME IInv, [Next]_vars
  PROVE  \/ UNCHANGED <<pc, job, seen, events>>
         \/ \E r \in Requests : Others(r) /\ (Rests(r) \/ Reads(r) \/ Raises(r))
<1> USE DEF Editors
<1>1. TypeOK
  BY DEF IInv
<1>2. ASSUME NEW r \in Requests, NEW answer, Finish(r, answer), answer \in Answers
      PROVE  Others(r) /\ Rests(r)
  BY <1>1, <1>2 DEF Finish, Goto, Others, Rests, TypeOK, Answers
<1>3. ASSUME NEW r \in Requests, Arrive(r) PROVE Others(r) /\ Rests(r)
  <2> DEFINE Starts == /\ pc[r] = "new" /\ UNCHANGED <<seen, events>>
                       /\ \E x : x \notin Editors /\ pc' = [pc EXCEPT ![r] = x]
                       /\ \E y : job' = [job EXCEPT ![r] = y]
  <2>1. Starts => Others(r) /\ Rests(r)
    BY <1>1 DEF Others, Rests, TypeOK
  <2> USE DEF Start, Dismiss, Goto
  <2>2. OrderCreate(r) \/ OrderUpdate(r) \/ OrderDestroy(r) => Starts
    BY DEF OrderCreate, OrderUpdate, OrderDestroy
  <2>3. PaymentCreate(r) \/ PaymentUpdate(r) \/ PaymentDestroy(r) \/ PaymentMissing(r)
          => Starts
    BY DEF PaymentCreate, PaymentUpdate, PaymentDestroy, PaymentMissing
  <2>4. RowCreate(r) \/ RowUpdate(r) \/ RowDestroy(r) => Starts
    BY DEF RowCreate, RowUpdate, RowDestroy
  <2> QED BY <1>3, <2>1, <2>2, <2>3, <2>4 DEF Arrive
<1>4. ASSUME NEW r \in Requests, Step(r)
      PROVE  Others(r) /\ (Rests(r) \/ Reads(r) \/ Raises(r))
  <2> USE DEF Answer, Answers
  <2>1. CASE InsertOrder(r)
    <3>1. CASE Answer(r, "failed")
      BY <3>1, <1>2
    <3>2. CASE ~Answer(r, "failed")
      <4>1. /\ pc[r] = "insert_order"
            /\ Write(r, {order_created(nextId, job[r].order, job[r].row)}, "commit_order")
        BY <2>1, <3>2 DEF InsertOrder
      <4> QED BY <1>1, <4>1 DEF Write, Goto, Others, Raises, TypeOK
    <3> QED BY <3>1, <3>2
  <2>2. CASE RereadOrder(r)
    <3>1. CASE Answer(r, "missing")
      BY <3>1, <1>2
    <3>2. CASE ~Answer(r, "missing")
      <4>1. /\ orders[job[r].url] # NoRow
            /\ seen' = [seen EXCEPT ![r] = orders[job[r].url].status]
            /\ pc' = [pc EXCEPT ![r] = "write_order"] /\ UNCHANGED <<orders, job, events>>
        BY <2>2, <3>2 DEF RereadOrder, Goto, tables
      <4> QED BY <1>1, <4>1 DEF Others, Reads, TypeOK
    <3> QED BY <3>1, <3>2
  <2>3. CASE WriteOrder(r)
    <3>1. CASE Answer(r, "failed")
      BY <3>1, <1>2
    <3>2. CASE ~Answer(r, "failed")
      <4> DEFINE new == IF job[r].row.status = seen[r] THEN {}
                        ELSE {order_status_changed(nextId, job[r].order, job[r].row, seen[r])}
      <4>1. pc[r] = "write_order" /\ Write(r, new, "commit_order")
        BY <2>3, <3>2 DEF WriteOrder
      <4>2. /\ pc' = [pc EXCEPT ![r] = "commit_order"] /\ UNCHANGED <<job, seen>>
            /\ events' = [events EXCEPT ![r] = new]
        BY <4>1 DEF Write, Goto
      <4>3. events'[r] = new
        BY <1>1, <4>2 DEF TypeOK
      <4> QED BY <1>1, <4>1, <4>2, <4>3 DEF Others, Raises, TypeOK
    <3> QED BY <3>1, <3>2
  <2>4. CASE InsertPayment(r)
    <3>1. CASE Answer(r, "failed")
      BY <3>1, <1>2
    <3>2. CASE ~Answer(r, "failed")
      <4>1. \E new : pc[r] = "insert_payment" /\ Write(r, new, "commit_payment")
        BY <2>4, <3>2 DEF InsertPayment
      <4> QED BY <1>1, <4>1 DEF Write, Goto, Others, Rests, TypeOK
    <3> QED BY <3>1, <3>2
  <2>5. CASE CommitOrder(r) \/ CommitPayment(r)
    BY <2>5, <1>2 DEF CommitOrder, CommitPayment
  <2>6. CASE DeleteOrder(r) \/ WritePayment(r) \/ DeletePayment(r)
    BY <2>6, <1>2 DEF DeleteOrder, WritePayment, DeletePayment
  <2>7. CASE InsertRow(r) \/ WriteRow(r) \/ DeleteRow(r)
    BY <2>7, <1>2 DEF InsertRow, WriteRow, DeleteRow, SaveRow
  <2> QED BY <1>4, <2>1, <2>2, <2>3, <2>4, <2>5, <2>6, <2>7 DEF Step
<1>5. ASSUME NEW r \in Requests, Abort(r) PROVE Others(r) /\ Rests(r)
  BY <1>5, <1>2 DEF Abort, Answer, Answers
<1> QED BY <1>3, <1>4, <1>5 DEF Next, Terminated, vars

\* HInv is inductive.
LEMMA HistoryKeeps ==
  ASSUME HInv, [HistoryNext]_<<vars, had>>
  PROVE  HInv'
<1>1. [Next]_vars /\ IInv
  BY DEF HistoryNext, HInv
<1>2. IInv'
  BY <1>1, NextKeeps
<1>3. CASE UNCHANGED <<vars, had>>
  BY <1>2, <1>3 DEF HInv, vars, ReadInTime, BeforeWasHad, EventsAreOfEdit, Editing
<1>4. CASE Remember /\ UNCHANGED <<pc, job, seen, events>>
  BY <1>2, <1>4 DEF HInv, Remember, ReadInTime, BeforeWasHad, EventsAreOfEdit, Editing
<1>5. ASSUME Remember, NEW r \in Requests, Others(r), Rests(r) \/ Reads(r) \/ Raises(r)
      PROVE  HInv'
  <2>1. \A s \in Requests \ {r} :
          /\ pc'[s] = pc[s] /\ job'[s] = job[s] /\ seen'[s] = seen[s]
          /\ events'[s] = events[s] /\ (Editing(s) => had[s] \subseteq had'[s])
    BY <1>5 DEF Others, Remember, Editing
  <2>2. /\ pc'[r] \notin Editors => seen'[r] = NoStatus
        /\ Editing(r)' => seen'[r] \in had'[r]
    <3>1. CASE Rests(r)
      BY <3>1 DEF Rests, HInv, ReadInTime, Editing, Editors
    <3>2. CASE Reads(r)
      <4>1. StatusNow(r)' = {seen'[r]}
        BY <3>2 DEF Reads, StatusNow
      <4> QED BY <1>5, <3>2, <4>1 DEF Reads, Remember, Editors
    <3>3. CASE Raises(r)
      <4>1. pc'[r] \in Editors /\ seen'[r] = seen[r]
        BY <3>3 DEF Raises, Editors
      <4>2. Editing(r)' => pc[r] = "write_order" /\ seen[r] # NoStatus
        BY <3>3, <4>1 DEF Raises, Editing, HInv, ReadInTime, Editors
      <4>3. Editing(r)' => seen[r] \in had[r] /\ had'[r] = had[r] \cup StatusNow(r)'
        BY <1>5, <4>2 DEF HInv, BeforeWasHad, Editing, Remember
      <4> QED BY <4>1, <4>3
    <3> QED BY <1>5, <3>1, <3>2, <3>3
  <2>3. ASSUME pc'[r] = "commit_order"
        PROVE  /\ \A e \in events'[r] : e.type = "order.status_changed" =>
                    seen'[r] # NoStatus /\ e.before = seen'[r] /\ e.before # e.after
               /\ seen'[r] # NoStatus =>
                    \/ job'[r].row.status = seen'[r]
                    \/ \E e \in events'[r] : /\ e.type = "order.status_changed"
                                             /\ e.subject = job'[r].order
    <3>1. Raises(r)
      BY <1>5, <2>3 DEF Rests, Reads, Editors
    <3>2. CASE pc[r] = "insert_order"
      <4>1. seen'[r] = NoStatus
        BY <3>1, <3>2 DEF Raises, HInv, ReadInTime, Editors
      <4>2. \A e \in events'[r] : e.type = "order.created"
        BY <3>1, <3>2 DEF Raises, order_created
      <4> QED BY <4>1, <4>2
    <3>3. CASE pc[r] = "write_order"
      <4>1. seen[r] \in Statuses /\ seen[r] # NoStatus
        BY <1>1, <3>3, SalesAssumption DEF IInv, Fits
      <4>2. /\ seen'[r] = seen[r] /\ job'[r] = job[r]
            /\ events'[r] = IF job[r].row.status = seen[r] THEN {}
                  ELSE {order_status_changed(nextId, job[r].order, job[r].row, seen[r])}
        BY <3>1, <3>3 DEF Raises
      <4>3. CASE job[r].row.status = seen[r]
        BY <4>1, <4>2, <4>3
      <4>4. CASE job[r].row.status # seen[r]
        <5> DEFINE f == order_status_changed(nextId, job[r].order, job[r].row, seen[r])
        <5>1. /\ f.type = "order.status_changed" /\ f.subject = job[r].order
              /\ f.before = seen[r] /\ f.after = job[r].row.status
          BY DEF order_status_changed
        <5>2. events'[r] = {f}
          BY <4>2, <4>4
        <5> HIDE DEF f
        <5> QED BY <4>1, <4>2, <4>4, <5>1, <5>2
      <4> QED BY <4>3, <4>4
    <3> QED BY <3>1, <3>2, <3>3 DEF Raises
  <2>4. ReadInTime'
    BY <2>1, <2>2 DEF HInv, ReadInTime
  <2>5. BeforeWasHad'
    <3>1. ASSUME NEW s \in Requests \ {r}, Editing(s)' PROVE seen'[s] \in had'[s]
      <4>1. Editing(s)
        BY <3>1, <2>1 DEF Editing
      <4> QED BY <2>1, <4>1 DEF HInv, BeforeWasHad
    <3> QED BY <2>2, <3>1 DEF BeforeWasHad
  <2>6. EventsAreOfEdit'
    <3>1. ASSUME NEW s \in Requests \ {r}, pc'[s] = "commit_order"
          PROVE  /\ \A e \in events'[s] : e.type = "order.status_changed" =>
                      seen'[s] # NoStatus /\ e.before = seen'[s] /\ e.before # e.after
                 /\ seen'[s] # NoStatus =>
                      \/ job'[s].row.status = seen'[s]
                      \/ \E e \in events'[s] : /\ e.type = "order.status_changed"
                                               /\ e.subject = job'[s].order
      BY <2>1, <3>1 DEF HInv, EventsAreOfEdit
    <3> QED BY <2>3, <3>1 DEF EventsAreOfEdit
  <2> QED BY <1>2, <2>4, <2>5, <2>6 DEF HInv
<1>6. Remember \/ UNCHANGED <<vars, had>>
  BY DEF HistoryNext
<1> QED BY <1>1, <1>3, <1>4, <1>5, <1>6, OneRequestMoves

\* Only its COMMIT answers an order's request "ok".
LEMMA OnlyCommitAnswersOk ==
  ASSUME IInv, [Next]_vars, NEW r \in Requests, pc[r] = "commit_order", pc'[r] = "ok"
  PROVE  CommitOrder(r)
<1> USE DEF Goto, Finish, Answer
<1>1. PICK s \in Requests : Arrive(s) \/ Step(s) \/ Abort(s)
  BY DEF Next, Terminated, vars
<1>2. Arrive(s) => pc[s] = "new" /\ \E x : pc' = [pc EXCEPT ![s] = x]
  <2> USE DEF Start, Dismiss
  <2>1. OrderCreate(s) \/ OrderUpdate(s) \/ OrderDestroy(s)
          => pc[s] = "new" /\ \E x : pc' = [pc EXCEPT ![s] = x]
    BY DEF OrderCreate, OrderUpdate, OrderDestroy
  <2>2. PaymentCreate(s) \/ PaymentUpdate(s) \/ PaymentDestroy(s) \/ PaymentMissing(s)
          => pc[s] = "new" /\ \E x : pc' = [pc EXCEPT ![s] = x]
    BY DEF PaymentCreate, PaymentUpdate, PaymentDestroy, PaymentMissing
  <2>3. RowCreate(s) \/ RowUpdate(s) \/ RowDestroy(s)
          => pc[s] = "new" /\ \E x : pc' = [pc EXCEPT ![s] = x]
    BY DEF RowCreate, RowUpdate, RowDestroy
  <2> QED BY <2>1, <2>2, <2>3 DEF Arrive
<1>3. Step(s) => (pc[s] # "commit_order" \/ CommitOrder(s)) /\ \E x : pc' = [pc EXCEPT ![s] = x]
  <2>1. InsertOrder(s) \/ RereadOrder(s) \/ WriteOrder(s) \/ InsertPayment(s)
          => pc[s] # "commit_order" /\ \E x : pc' = [pc EXCEPT ![s] = x]
    BY DEF InsertOrder, RereadOrder, WriteOrder, InsertPayment, Write
  <2>2. CommitOrder(s) => \E x : pc' = [pc EXCEPT ![s] = x]
    BY DEF CommitOrder
  <2>3. CommitPayment(s) \/ DeleteOrder(s) \/ WritePayment(s) \/ DeletePayment(s)
          => pc[s] # "commit_order" /\ \E x : pc' = [pc EXCEPT ![s] = x]
    BY DEF CommitPayment, DeleteOrder, WritePayment, DeletePayment
  <2>4. InsertRow(s) \/ WriteRow(s) \/ DeleteRow(s)
          => pc[s] # "commit_order" /\ \E x : pc' = [pc EXCEPT ![s] = x]
    BY DEF InsertRow, WriteRow, DeleteRow, SaveRow
  <2> QED BY <2>1, <2>2, <2>3, <2>4 DEF Step
<1>4. Abort(s) => pc' = [pc EXCEPT ![s] = "failed"]
  BY DEF Abort
<1>5. s = r
  BY <1>1, <1>2, <1>3, <1>4 DEF IInv, TypeOK
<1> QED BY <1>1, <1>2, <1>3, <1>4, <1>5 DEF IInv, TypeOK

\* The history, and the invariant of the requests beside it.
THEOREM HistoryInvariance == HistorySpec => []HInv
<1>1. HistoryInit => HInv
  <2> SUFFICES ASSUME HistoryInit PROVE HInv
    OBVIOUS
  <2>1. IInv
    BY InitIInv DEF HistoryInit
  <2>2. \A r \in Requests : pc[r] = "new" /\ seen[r] = NoStatus
    BY DEF HistoryInit, Init
  <2> QED BY <2>1, <2>2 DEF HInv, ReadInTime, BeforeWasHad, EventsAreOfEdit, Editing
<1> QED BY <1>1, HistoryKeeps, PTL DEF HistorySpec

\* An event commits with the change it describes, under every interleaving, and its
\* `before` is a status the order has had while the edit ran.
THEOREM EventsTell == HistorySpec => EventsTellTheirChange
<1> DEFINE Told(e) ==
      IF e.type = "payment.recorded"
        THEN /\ PaymentOf(e.subject, e.check) = {}
             /\ \E p \in payments' : p.customer = e.subject /\ p.check = e.check
        ELSE /\ orders'[e.subject] = [customer |-> e.customer, status |-> e.after]
             /\ e.type = "order.created" => orders[e.subject] = NoRow
             /\ e.type = "order.status_changed" =>
                  /\ e.before # e.after
                  /\ \E r \in Requests : /\ EditCommits(r) /\ job[r].order = e.subject
                                         /\ e.before \in had[r]
<1>1. ASSUME HInv, [Next]_vars, NEW e \in outbox' \ outbox PROVE Told(e)
  <2>1. IInv /\ Tells(e)
    BY <1>1, CommitsTell DEF HInv
  <2>2. PICK r \in Requests : CommitOrder(r) \/ CommitPayment(r)
    BY <1>1, OutboxGrowsAtCommit
  <2>3. e \in events[r]
    BY <2>2 DEF CommitOrder, CommitPayment
  <2>4. ASSUME e.type = "order.status_changed"
        PROVE  /\ e.before # e.after
               /\ EditCommits(r) /\ job[r].order = e.subject /\ e.before \in had[r]
    <3>1. CommitOrder(r)
      BY <2>1, <2>2, <2>3, <2>4 DEF CommitPayment, IInv, PendingTells, IsOrderEvent
    <3>2. pc[r] = "commit_order" /\ pc'[r] = "ok" /\ job[r].order = e.subject
      BY <2>1, <2>3, <3>1 DEF CommitOrder, Finish, Goto, IInv, TypeOK, PendingTells
    <3>3. seen[r] # NoStatus /\ e.before = seen[r] /\ e.before # e.after
      BY <1>1, <2>3, <2>4, <3>2 DEF HInv, EventsAreOfEdit
    <3>4. Editing(r)
      BY <3>2, <3>3 DEF Editing
    <3> QED BY <1>1, <3>2, <3>3, <3>4 DEF EditCommits, HInv, BeforeWasHad
  <2> QED BY <2>1, <2>4 DEF Tells
<1>2. HInv /\ [Next]_vars => [\A e \in outbox' \ outbox : Told(e)]_vars
  BY <1>1
<1>3. [HistoryNext]_<<vars, had>> => [Next]_vars
  BY DEF HistoryNext
<1> QED BY <1>2, <1>3, HistoryInvariance, PTL DEF HistorySpec, EventsTellTheirChange

\* However edits overlap, a status that moves without an event moves to one the order
\* has had since the silent edit read it.
THEOREM SilenceGoesBack == HistorySpec => SilentEditsGoBack
<1> DEFINE Silent(r) ==
      EditCommits(r) =>
        \/ \E e \in outbox' \ outbox :
             e.type = "order.status_changed" /\ e.subject = job[r].order
        \/ orders'[job[r].order].status \in had[r]
<1>1. ASSUME HInv, [Next]_vars, NEW r \in Requests, EditCommits(r) PROVE Silent(r)
  <2>1. IInv /\ Editing(r) /\ pc[r] = "commit_order" /\ pc'[r] = "ok"
    BY <1>1 DEF HInv, EditCommits
  <2>2. seen[r] # NoStatus /\ seen[r] \in had[r]
    BY <1>1, <2>1 DEF HInv, BeforeWasHad, Editing
  <2>3. CommitOrder(r)
    BY <1>1, <2>1, OnlyCommitAnswersOk
  <2>4. /\ orders' = [orders EXCEPT ![job[r].order] = job[r].row]
        /\ outbox' = outbox \cup events[r]
    BY <2>3 DEF CommitOrder
  <2>5. orders'[job[r].order] = job[r].row
    BY <2>1, <2>4 DEF IInv, TypeOK, Fits, OrderJob
  <2>6. ASSUME NEW e \in events[r] PROVE e \notin outbox
    <3>1. IsOrderEvent(e) /\ e \in Event
      BY <2>1 DEF IInv, PendingTells, TypeOK
    <3>2. e.id \in Nat
      BY <3>1 DEF Event
    <3>3. e \in outbox => e.id < e.id
      BY <2>1, <3>1 DEF IInv, IdsPending
    <3> QED BY <3>2, <3>3
  <2> QED BY <1>1, <2>1, <2>2, <2>4, <2>5, <2>6 DEF HInv, EventsAreOfEdit
<1>2. HInv /\ [Next]_vars => [\A r \in Requests : Silent(r)]_vars
  BY <1>1
<1>3. [HistoryNext]_<<vars, had>> => [Next]_vars
  BY DEF HistoryNext
<1> QED BY <1>2, <1>3, HistoryInvariance, PTL DEF HistorySpec, SilentEditsGoBack

-----------------------------------------------------------------------------
\* The relay, reading by id, meets the events of an order in the order of their commits.
THEOREM OrderIdsFollowCommits == Spec => OrderEventIdsFollowCommits
<1> DEFINE Above ==
      \A e \in outbox' \ outbox, f \in outbox :
        IsOrderEvent(e) /\ IsOrderEvent(f) /\ e.subject = f.subject => f.id < e.id
<1>1. IInv /\ [Next]_vars => Above
  <2> SUFFICES ASSUME IInv, [Next]_vars, NEW e \in outbox' \ outbox, NEW f \in outbox,
                      IsOrderEvent(e), IsOrderEvent(f), e.subject = f.subject
               PROVE  f.id < e.id
    OBVIOUS
  <2>1. PICK r \in Requests : CommitOrder(r) \/ CommitPayment(r)
    BY OutboxGrowsAtCommit
  <2>2. pc[r] = "commit_order" /\ e \in events[r]
    BY <2>1 DEF CommitOrder, CommitPayment, IInv, PendingTells
  <2> QED BY <2>2 DEF IInv, IdsPending
<1>2. IInv /\ [Next]_vars => [Above]_vars
  BY <1>1
<1> QED BY <1>2, Invariance, PTL DEF Spec, OrderEventIdsFollowCommits

-----------------------------------------------------------------------------
\* What a view serves is the object of a view, and has an owner.
LEMMA ServedHaveViews ==
  ASSUME IInv, NEW row \in RowsServed
  PROVE  \E view \in Views, k \in Keys : row = <<view, k>>
<1>1. CASE row \in PlainServed
  <2>1. \E T \in Tables : \E k \in T \cap Present : row = <<ViewOf[T], k>>
    BY <1>1 DEF PlainServed
  <2> QED BY <2>1, SalesAccessAssumption DEF Present
<1>2. CASE row \in OrdersServed
  <2>1. PICK o \in Placed : row = <<"order", orders[o].customer>>
    BY <1>2 DEF OrdersServed
  <2> QED BY <2>1 DEF Placed, IInv, OwnersExist, Present, Views
<1>3. CASE row \in LinesServed
  <2>1. PICK o \in LinedOrders : row = <<"orderdetail", orders[o].customer>>
    BY <1>3 DEF LinesServed
  <2>2. o \in Orders /\ orders[o] # NoRow
    BY SalesAssumption DEF IInv, LinesHaveOrders
  <2> QED BY <2>1, <2>2 DEF IInv, OwnersExist, Present, Views
<1>4. CASE row \in PaymentsServed
  <2>1. PICK p \in payments : row = <<"payment", p.customer>>
    BY <1>4 DEF PaymentsServed
  <2> QED BY <2>1 DEF IInv, OwnersExist, Present, Views
<1> QED BY <1>1, <1>2, <1>3, <1>4 DEF RowsServed

\* Of every committed row, in every reachable state, the queryset of a list, the
\* permission on an object and the list under a parent are one rule, but for the three
\* exceptions that Agree names.
THEOREM RowsAlikeButForThree == Spec => []RoutesAgreeButForThree
<1>1. IInv => RoutesAgreeButForThree
  <2> SUFFICES ASSUME IInv, NEW row \in RowsServed PROVE row \in SeenAlike
    BY DEF RoutesAgreeButForThree
  <2>1. PICK view \in Views, k \in Keys : row = <<view, k>>
    BY ServedHaveViews
  <2>2. \A u \in Users : Agree(view, u, k)
    BY RoutesAgree
  <2> QED BY <2>1, <2>2 DEF SeenAlike
<1> QED BY <1>1, Invariance, PTL

\* In every reachable state the committed rows of a customer are out of reach of every
\* other customer's users, but for the two lists that cross.
THEOREM RowsCrossByTwoLists == Spec => []OnlyTwoListsCross
<1>1. IInv => OnlyTwoListsCross
  <2> SUFFICES ASSUME IInv, NEW row \in RowsServed, row[1] \in Owned
               PROVE  row \in KeptApart
    BY DEF OnlyTwoListsCross
  <2>1. PICK view \in Views, k \in Keys : row = <<view, k>>
    BY ServedHaveViews
  <2>2. view \in Owned
    BY <2>1
  <2>3. \A u \in Users : Confined(view, u, k)
    BY <2>2, TwoListsCross
  <2> QED BY <2>1, <2>2, <2>3 DEF KeptApart
<1> QED BY <1>1, Invariance, PTL
=============================================================================

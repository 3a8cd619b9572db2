-------------------------------- MODULE Access --------------------------------
(***************************************************************************)
(* Who may do what: the permission classes (authentication/permissions.py) *)
(* and the querysets and get_object() of the views that use them           *)
(* (api/v1/classicmodels/views.py).  They are functions of the user, the   *)
(* method and the customer an object belongs to, so the module has no      *)
(* variables.  A user's groups and profile are those of one moment: every  *)
(* test of a group is a query of its own, and a request that overlaps a    *)
(* change of its user's groups may see some before it and some after.      *)
(***************************************************************************)
CONSTANTS Owners,     \* customer numbers
          NoProfile   \* a user that no CustomerProfile links to a customer

ASSUME AccessAssumption == NoProfile \notin Owners

Groups == {"admin", "read_only", "product_manager", "customer", "support", "restocker"}
Methods == {"GET", "POST", "PUT", "PATCH", "DELETE"}
Safe == {"GET"}       \* HEAD and OPTIONS are as GET

\* The fields a request may send: only an order's status, or others too.
Sent == {{"status"}, {"status", "comments"}}

Person == [authenticated : {TRUE}, superuser : BOOLEAN, groups : SUBSET Groups,
           profile : Owners \cup {NoProfile}]
AnonymousUser ==
  [authenticated |-> FALSE, superuser |-> FALSE, groups |-> {}, profile |-> NoProfile]
\* The user of a request with the API key.
SystemUser ==
  [authenticated |-> TRUE, superuser |-> TRUE, groups |-> {}, profile |-> NoProfile]
Users == Person \cup {AnonymousUser, SystemUser}

Views == {"productline", "product", "office", "employee",
          "customer", "order", "payment", "orderdetail"}

\* The views whose objects belong to a customer.
Owned == {"customer", "order", "payment", "orderdetail"}

-----------------------------------------------------------------------------
InAny(u, groups) == u.authenticated /\ u.groups \cap groups # {}

IsAdmin(u) == u.authenticated /\ (u.superuser \/ InAny(u, {"admin"}))
IsCustomer(u) == InAny(u, {"customer"})
IsSupport(u) == InAny(u, {"support"})

\* check() of each permission class: what a role may do to objects of its kind.
CatalogCheck(u, method) ==
  \/ method \in Safe /\ InAny(u, {"read_only", "product_manager", "customer", "support"})
  \/ method = "PATCH" /\ InAny(u, {"restocker"})
  \/ method \notin Safe /\ InAny(u, {"product_manager"})

ReferenceCheck(u, method) ==
  method \in Safe /\ InAny(u, {"read_only", "product_manager", "support"})

CustomerCheck(u, method) ==
  IF IsCustomer(u) THEN u.profile # NoProfile ELSE ReferenceCheck(u, method)

ScopedCheck(u, method) ==
  IF IsCustomer(u)
    THEN u.profile # NoProfile
    ELSE \/ IsSupport(u)
         \/ method \in Safe /\ InAny(u, {"read_only", "product_manager"})

Check(view, u, method) ==
  \/ view \in {"productline", "product"} /\ CatalogCheck(u, method)
  \/ view \in {"office", "employee"} /\ ReferenceCheck(u, method)
  \/ view = "customer" /\ CustomerCheck(u, method)
  \/ view \in {"order", "payment", "orderdetail"} /\ ScopedCheck(u, method)

HasPermission(view, u, method) ==
  u.authenticated /\ (IsAdmin(u) \/ Check(view, u, method))

-----------------------------------------------------------------------------
\* RolePermission.has_object_permission, with CustomerResourcePermission.owns_object.
RoleObject(view, u, method, owner) ==
  /\ Check(view, u, method)
  /\ view = "customer" /\ IsCustomer(u) => owner = u.profile

\* Mutant of ScopedObject: the roles are asked in another order.
ScopedObjectSupportFirst(u, owner, reads, edits) ==
  IF IsSupport(u) THEN edits
  ELSE IF IsCustomer(u) THEN owner = u.profile
  ELSE reads /\ InAny(u, {"read_only", "product_manager"})

\* The shape of OrderPermission, PaymentPermission and OrderdetailPermission: reads
\* says whether the method is a safe one, edits what support may do.
ScopedObject(u, owner, reads, edits) ==
  IF IsCustomer(u) THEN owner = u.profile
  ELSE IF IsSupport(u) THEN edits
  ELSE reads /\ InAny(u, {"read_only", "product_manager"})

OrderObject(u, method, sent, owner) ==
  ScopedObject(u, owner, method \in Safe,
    method \in Safe \/ (method \in {"PUT", "PATCH"} /\ sent \subseteq {"status"}))

PaymentObject(u, method, owner) ==
  ScopedObject(u, owner, method \in Safe, method \in Safe)

OrderdetailObject(u, method, owner) ==
  ScopedObject(u, owner, method \in Safe, method \in Safe)

HasObjectPermission(view, u, method, sent, owner) ==
  \/ IsAdmin(u)
  \/ view = "order" /\ OrderObject(u, method, sent, owner)
  \/ view = "payment" /\ PaymentObject(u, method, owner)
  \/ view = "orderdetail" /\ OrderdetailObject(u, method, owner)
  \/ view \notin {"order", "payment", "orderdetail"} /\ RoleObject(view, u, method, owner)

-----------------------------------------------------------------------------
\* Mutant of InQueryset: the view of order lines has no get_queryset of its own.
InQuerysetOfMost(view, u, owner) ==
  view \in Owned \ {"orderdetail"} /\ IsCustomer(u) => owner = u.profile

\* get_queryset() of the four views: a customer's own objects.
InQueryset(view, u, owner) ==
  view \in Owned /\ IsCustomer(u) => owner = u.profile

\* get_object() of a payment and of an order line asks the table, the others' the queryset.
Found(view, u, owner) ==
  view \in {"payment", "orderdetail"} \/ InQueryset(view, u, owner)

\* GET of a list shows an object.
Listed(view, u, owner) == HasPermission(view, u, "GET") /\ InQueryset(view, u, owner)

\* A method on an object gets as far as its handler.
Reached(view, u, method, sent, owner) ==
  /\ HasPermission(view, u, method)
  /\ Found(view, u, owner)
  /\ HasObjectPermission(view, u, method, sent, owner)

-----------------------------------------------------------------------------
(* The lists under an object: get_object() of the one, then every row that *)
(* refers to it, by no queryset of the rows' own view.                     *)

LineProducts == <<"productline", "product">>
ProductOrderdetails == <<"product", "orderdetail">>
OfficeEmployees == <<"office", "employee">>
EmployeeReports == <<"employee", "employee">>
EmployeeCustomers == <<"employee", "customer">>
CustomerOrders == <<"customer", "order">>
CustomerPayments == <<"customer", "payment">>
OrderOrderdetails == <<"order", "orderdetail">>

Nested == {LineProducts, ProductOrderdetails, OfficeEmployees, EmployeeReports,
           EmployeeCustomers, CustomerOrders, CustomerPayments, OrderOrderdetails}

\* What belongs to owner is shown in the list of n under an object of owner's, or of nobody's.
Shown(n, u, owner) == Reached(n[1], u, "GET", {}, owner)

-----------------------------------------------------------------------------
\* The lists that ask nothing of the rows they show: a user in "customer" is shown the
\* order lines of every customer under a product, which every such user may read, and
\* the row of every customer under an employee, if another role lets them read it.
Crosses(n, u) ==
  /\ IsCustomer(u)
  /\ \/ n = ProductOrderdetails
     \/ n = EmployeeCustomers
        /\ (IsAdmin(u) \/ InAny(u, {"read_only", "product_manager", "support"}))

\* The user meets one rule for an object of the view: what its list shows is what may
\* be retrieved by key, and what the lists under its parents show.  There are three
\* exceptions, and what they do is said exactly: payments and order lines are retrieved
\* past the queryset, so an admin who is also in "customer" retrieves them all; and to a
\* user in "customer" the lists under a product and an employee show every customer's
\* rows or none.
Agree(view, u, owner) ==
  /\ Reached(view, u, "GET", {}, owner) <=>
       \/ Listed(view, u, owner)
       \/ view \in {"payment", "orderdetail"} /\ IsCustomer(u) /\ IsAdmin(u)
  /\ \A n \in Nested : n[2] = view =>
       (Shown(n, u, owner) <=>
          IF n \in {ProductOrderdetails, EmployeeCustomers} /\ IsCustomer(u)
            THEN Crosses(n, u) ELSE Listed(view, u, owner))

\* A user in "customer", whatever their other groups but "admin", whose profile is not
\* the owner gets to the object by no list of the view, by no method on the object
\* (POST names none), and of the lists under a parent, whatever the parent, by those
\* that cross and by no other.
Confined(view, u, owner) ==
  IsCustomer(u) /\ ~IsAdmin(u) /\ owner # u.profile =>
    /\ ~Listed(view, u, owner)
    /\ \A method \in Methods \ {"POST"}, sent \in Sent : ~Reached(view, u, method, sent, owner)
    /\ \A n \in Nested : n[2] = view => (Shown(n, u, owner) <=> Crosses(n, u))
=============================================================================

----------------------------- MODULE SalesAccess -----------------------------
(***************************************************************************)
(* The rows of Sales as the users of Access meet them.                     *)
(***************************************************************************)
EXTENDS Sales, Access

CONSTANT ViewOf    \* the view that serves a table

ASSUME SalesAccessAssumption ==
  /\ Owners = Customers
  /\ ViewOf \in [Tables -> Views]

\* The orders that are there.
Placed == {o \in Orders : orders[o] # NoRow}

\* Each committed row that a view serves, as the view and the row's owner: the customer
\* of an order, of a payment or of an order's lines; for other rows their own key.
PlainServed == UNION {{<<ViewOf[T], k>> : k \in T \cap Present} : T \in Tables}
OrdersServed == {<<"order", orders[o].customer>> : o \in Placed}
LinesServed == {<<"orderdetail", orders[o].customer>> : o \in LinedOrders}
PaymentsServed == {<<"payment", p.customer>> : p \in payments}
RowsServed == PlainServed \cup OrdersServed \cup LinesServed \cup PaymentsServed

-----------------------------------------------------------------------------
SeenAlike ==
  UNION {{<<view, k>> : k \in {k \in Keys : \A u \in Users : Agree(view, u, k)}}
         : view \in Views}
KeptApart ==
  UNION {{<<view, k>> : k \in {k \in Keys : \A u \in Users : Confined(view, u, k)}}
         : view \in Owned}

\* Of every committed row the encodings of one rule, the queryset of a list, the
\* permission on an object and the list under a parent, give every user the same
\* answer, but for the three exceptions Agree names, and those are as it says
\* (permissions.py:73-247, views.py:222-248, :505-531, :583-588, :612-638, :741-746,
\* :930-945, :1081-1096).
RoutesAgreeButForThree == RowsServed \subseteq SeenAlike

\* "customer role may only read/update their own record", "full RW on their own
\* orders" (permissions.py:137, :155-156) is true of the committed orders and payments
\* of a customer by every route.  It is not of their order lines, which the list under a
\* product (views.py:222-248) shows to the users of every other customer, nor of their
\* own row, which the list under an employee (views.py:505-531) shows to those of them
\* who may read employees: those two lists cross, and nothing else does.
OnlyTwoListsCross == {r \in RowsServed : r[1] \in Owned} \subseteq KeptApart
=============================================================================

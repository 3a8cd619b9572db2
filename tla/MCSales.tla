------------------------------- MODULE MCSales -------------------------------
(***************************************************************************)
(* Instances of Sales for TLC, with the access rules of its views.         *)
(***************************************************************************)
EXTENDS SalesAccess, TLC

CONSTANTS c1, c2, e1, e2, f1, g1

\* Customers, who may have a sales rep; employees, who have an office and may have a
\* manager; an office; and a product line.
MCTables == {{c1, c2}, {e1, e2}, {f1}, {g1}}
MCReferences ==
  [T \in MCTables |-> CASE T = {c1, c2} -> {{}, {e1}, {e2}}
                         [] T = {e1, e2} -> {{f1}, {f1, e1}, {f1, e2}}
                         [] OTHER -> {{}}]
MCSeedRows == [k \in UNION MCTables |->
  CASE k = c1 -> {e1} [] k = e1 -> {f1} [] k \in {f1, g1} -> {} [] OTHER -> NoRow]

MCViewOf == [T \in MCTables |-> CASE T = {c1, c2} -> "customer" [] T = {e1, e2} -> "employee"
                                  [] T = {f1} -> "office" [] T = {g1} -> "productline"]

\* One order has been placed.
MCSeedOrders ==
  LET first == CHOOSE o \in Orders : TRUE
  IN [o \in Orders |-> IF o = first
       THEN [customer |-> CHOOSE c \in Customers : TRUE,
             status |-> CHOOSE s \in Statuses : TRUE]
       ELSE NoRow]

MCSeedLined == {CHOOSE o \in Orders : TRUE}

MCPaymentOps == {"create_payment", "destroy_payment"}

AlikeRequests == Permutations(Requests)
=============================================================================

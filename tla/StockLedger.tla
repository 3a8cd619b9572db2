----------------------------- MODULE StockLedger -----------------------------
(***************************************************************************)
(* What the catalogue promises its consumers: a ledger.  Every movement of *)
(* stock is one atomic entry that carries the figure it found and the      *)
(* figure it left, entries of one product are numbered in the order they   *)
(* took effect, and nothing moves stock without an entry.  No request,     *)
(* lock, read or transaction is visible.  Catalog implements it for every  *)
(* endpoint but the edit of a product.                                     *)
(***************************************************************************)
EXTENDS CatalogEvents

CONSTANTS NoRow,        \* "no such product"
          SeedProducts  \* the products the ledger opens with

VARIABLES products,  \* what there is of each product
          outbox     \* the entries

Init == products = SeedProducts /\ outbox = {}

\* e is entered, after every earlier entry for its product.
Enter(e) ==
  /\ e \in Event
  /\ outbox' = outbox \cup {e}
  /\ \A f \in outbox : f.subject = e.subject => f.id < e.id

\* A product is put on the list at the stock its entry tells.
List(e) ==
  /\ products[e.subject] = NoRow
  /\ \E row \in Row :
       /\ e = product_created(e.id, e.subject, row)
       /\ products' = [products EXCEPT ![e.subject] = row]
  /\ Enter(e)

\* An order takes at most what there is, or gives back.
Take(e) ==
  LET p == e.subject IN
  /\ IsTake(e)
  /\ products[p] # NoRow
  /\ e.before = products[p].stock
  /\ e.after >= 0
  /\ products' = [products EXCEPT ![p] = [@ EXCEPT !.stock = e.after]]
  /\ Enter(e)

\* A product is taken off the list.
Delist(p) ==
  /\ products' = [products EXCEPT ![p] = NoRow]
  /\ UNCHANGED outbox

Next ==
  \/ \E e \in outbox' \ outbox : List(e) \/ Take(e)
  \/ \E p \in Products : Delist(p)

Spec == Init /\ [][Next]_<<products, outbox>>
=============================================================================

----------------------------- MODULE CatalogEvents -----------------------------
(***************************************************************************)
(* The product events of events/emit.py: what the `data` of each carries,  *)
(* and the outbox row id that orders them.  An event's CloudEvents id is   *)
(* its identity; here the row id serves for both.                          *)
(***************************************************************************)
EXTENDS Integers

CONSTANTS Products,  \* product codes
          Orders,    \* order numbers
          Prices,    \* values of the pair (buyprice, msrp)
          MaxStock   \* top of the stock column: 32767, a smallint

StockRange == (-MaxStock - 1) .. MaxStock

\* What the events and the order lines read of a products row.
Row == [stock : StockRange, price : Prices]

\* Why stock moved: the number of an order, or the reason an edit gave.
EditReasons == {"manual-adjustment", "delivery"}
Reasons == Orders \cup EditReasons

StockEvent == [type : {"product.stock_changed"}, id : Nat, subject : Products,
               before : StockRange, after : StockRange, reason : Reasons]

Event ==
  [type : {"product.created"}, id : Nat, subject : Products, after : StockRange]
    \cup StockEvent \cup
  [type : {"product.price_changed"}, id : Nat, subject : Products,
   before : Prices, after : Prices]

\* Mutant of product_created: the wrong column.
product_created_by_price(id, p, row) ==
  [type |-> "product.created", id |-> id, subject |-> p, after |-> row.price]

product_created(id, p, row) ==
  [type |-> "product.created", id |-> id, subject |-> p, after |-> row.stock]

product_stock_changed(id, p, before, after, reason) ==
  [type |-> "product.stock_changed", id |-> id, subject |-> p,
   before |-> before, after |-> after, reason |-> reason]

product_price_changed(id, p, before, after) ==
  [type |-> "product.price_changed", id |-> id, subject |-> p,
   before |-> before, after |-> after]

\* A movement of stock that an order line asked for.
IsTake(e) == e.type = "product.stock_changed" /\ e.reason \in Orders

\* Events that say what the stock of their subject has become.
TellsStock(e) == e.type \in {"product.created", "product.stock_changed"}
=============================================================================

------------------------------ MODULE MCCatalog ------------------------------
(***************************************************************************)
(* Instances of Catalog for TLC.                                           *)
(***************************************************************************)
EXTENDS Catalog, TLC

\* Every product is in stock, at MaxStock - 1, at one of the prices.
AnyPrice == CHOOSE c \in Prices : TRUE
MCSeedProducts == [p \in Products |-> [stock |-> MaxStock - 1, price |-> AnyPrice]]

\* One line already ordered, of one piece.
MCSeedLines ==
  LET o == CHOOSE o \in Orders : TRUE
      p == CHOOSE p \in Products : TRUE
  IN {[id |-> o, order |-> o, product |-> p, quantity |-> 1]}

MCNoLines == {}

MCAllButEdit == AllOps \ {"update_product"}

MCStocks == {0, MaxStock}
MCReturnAndSale == {-1, 1, 2}
MCLast == {MaxStock - 1}
MCEmpty == {0}

AlikeRequests == Permutations(Requests)
=============================================================================

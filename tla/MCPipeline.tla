------------------------------ MODULE MCPipeline ------------------------------
(***************************************************************************)
(* An instance of Pipeline for TLC: a product with two pieces, no lines.   *)
(***************************************************************************)
EXTENDS Pipeline

MCSeedProducts ==
  [p \in Products |-> [stock |-> MaxStock - 1, price |-> CHOOSE c \in Prices : TRUE]]
MCNoLines == {}
MCReturnAndSale == {-1, 1, 2}
MCStocks == {0}
=============================================================================

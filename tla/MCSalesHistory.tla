--------------------------- MODULE MCSalesHistory ---------------------------
(***************************************************************************)
(* Instances of Sales for TLC that remember what an edit's order has been. *)
(***************************************************************************)
EXTENDS MCSales, SalesHistory
=============================================================================

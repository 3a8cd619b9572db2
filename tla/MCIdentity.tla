------------------------------ MODULE MCIdentity ------------------------------
(* Instances of Identity for TLC. *)
EXTENDS Identity, TLC

CONSTANTS b1

MCLocalName == <<b1, 1>>
Alike == Permutations(Requests) \cup Permutations(Subs)
=============================================================================

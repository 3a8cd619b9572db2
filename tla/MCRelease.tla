------------------------------ MODULE MCRelease ------------------------------
(***************************************************************************)
(* Instances of Release for TLC.                                           *)
(***************************************************************************)
EXTENDS Release, TLC

AlikeReleasers == Permutations(Releasers)
=============================================================================

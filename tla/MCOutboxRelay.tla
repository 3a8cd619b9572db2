---------------------------- MODULE MCOutboxRelay ----------------------------
(***************************************************************************)
(* Instances of OutboxRelay for TLC.                                       *)
(***************************************************************************)
EXTENDS OutboxRelay

\* Odd events are about one entity, even ones about another.
MCTwoKeys == [e \in Events |-> e % 2]
=============================================================================

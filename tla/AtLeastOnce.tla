----------------------------- MODULE AtLeastOnce -----------------------------
(***************************************************************************)
(* The contract of the outbox with its consumers: what is committed may be *)
(* delivered any number of times, nothing else is, and an event is only    *)
(* marked published once it has been delivered.                            *)
(***************************************************************************)
EXTENDS Naturals, Sequences, SequencesExt

CONSTANTS Events,  \* outbox row ids
          KeyOf    \* the partition key of each

VARIABLES table,  \* the state of each outbox row
          log     \* per key, the deliveries the broker has stored

Keys == {KeyOf[e] : e \in Events}

Init == table = [e \in Events |-> "absent"] /\ log = [k \in Keys |-> <<>>]

\* The transaction that raised the events S ends.
Settle(S) ==
  /\ \A e \in S : table[e] = "absent"
  /\ \E end \in {"pending", "rolledback"} :
       table' = [e \in Events |-> IF e \in S THEN end ELSE table[e]]
  /\ UNCHANGED log

Deliver(e) ==
  /\ table[e] \in {"pending", "published"}
  /\ log' = [log EXCEPT ![KeyOf[e]] = Append(@, e)]
  /\ UNCHANGED table

\* One transaction marks what was delivered.
Publish(S) ==
  /\ \A e \in S : table[e] \in {"pending", "published"} /\ Contains(log[KeyOf[e]], e)
  /\ table' = [e \in Events |-> IF e \in S THEN "published" ELSE table[e]]
  /\ UNCHANGED log

Next ==
  \/ \E e \in Events : Deliver(e)
  \/ \E S \in SUBSET Events : Settle(S) \/ Publish(S)

Spec == Init /\ [][Next]_<<table, log>>
=============================================================================

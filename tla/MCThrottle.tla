------------------------------ MODULE MCThrottle ------------------------------
(* Instances of Throttle for TLC. *)
EXTENDS Throttle

MCLimit == [read |-> 2, write |-> 1, demo |-> 2]
=============================================================================

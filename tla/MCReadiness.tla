---------------------------- MODULE MCReadiness ----------------------------
(* Instances of Readiness for TLC. *)
EXTENDS Readiness

CONSTANTS p, q

OwnAddress == [c \in Candidates |-> c]

=============================================================================

----------------------------- MODULE MCGateway -----------------------------
(* An instance of Gateway for TLC: two queries meet in one relay. *)
EXTENDS Gateway

CONSTANTS q1, q2, q3

TwoToOne == [q \in Queries |-> IF q = q3 THEN "default" ELSE "other"]

=============================================================================

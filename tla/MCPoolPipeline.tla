--------------------------- MODULE MCPoolPipeline ---------------------------
(* Instances of PoolPipeline for TLC. *)
EXTENDS PoolPipeline

CONSTANT p

OwnAddress == [c \in Candidates |-> c]

=============================================================================

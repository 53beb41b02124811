---------------------------- MODULE MCBalanceApi ----------------------------
(* An instance of BalanceApi for TLC. *)
EXTENDS BalanceApi, TLC

CONSTANTS r1, r2, r3

Symmetry == Permutations(Requests)

=============================================================================

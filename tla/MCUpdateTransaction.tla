------------------------ MODULE MCUpdateTransaction ------------------------
(* Instances of UpdateTransaction for TLC. *)
EXTENDS UpdateTransaction, TLC

\* Commits are told apart by nothing but their identity.  For runs of
\* invariants only: a symmetric graph hides temporal counterexamples.
ReleaseSymmetry == Permutations(Releases)

=============================================================================

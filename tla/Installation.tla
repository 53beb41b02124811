---------------------------- MODULE Installation ----------------------------
(* What scripts/tg_update.py promises an operator: whatever is interrupted,  *)
(* the installation stands for one release, which a replacement changes in a *)
(* single step, and from which only the return to the one before leads away. *)
EXTENDS Integers

CONSTANT Releases

VARIABLES
  release,   \* what runs, or what recovery brings back
  before,    \* the release the last replacement set out from
  replacing  \* a replacement was begun and neither finished nor rolled back

installationVars == <<release, before, replacing>>

Init == release \in Releases /\ before = release /\ replacing = FALSE

Begin ==
  /\ ~replacing /\ replacing' = TRUE
  /\ release' = release /\ before' = release

Commit ==
  /\ replacing /\ replacing' = FALSE
  /\ release' \in Releases \ {release} /\ before' = before

RollBack ==
  /\ replacing /\ replacing' = FALSE
  /\ UNCHANGED <<release, before>>

\* A replacement that was already reported in the journal is taken back.
Undo ==
  /\ ~replacing /\ replacing' = replacing
  /\ release' = before /\ before' = before

Next == Begin \/ Commit \/ RollBack \/ Undo

Spec == Init /\ [][Next]_installationVars

=============================================================================

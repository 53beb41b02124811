-------------------------- MODULE MCLabDeployment --------------------------
(* An instance of LabDeployment for TLC: two files, of which the CA is optional. *)
EXTENDS LabDeployment

CONSTANTS o1, o2, c1, c2, withCA, withoutCA, store, ca, none

StoreThenCA == <<store, ca>>

OneBringsCA == [s \in Sets |-> IF s = withCA THEN {store, ca} ELSE {store}]

\* The credentials of withCA name the CA file, so it has to be there.
CAWhenNamed == {c \in Content : c[store] # none /\ (c[store] = withCA => c[ca] # none)}

=============================================================================

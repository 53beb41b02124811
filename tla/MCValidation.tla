---------------------------- MODULE MCValidation ----------------------------
(* Instances of Validation for TLC: up to four candidates, three of them     *)
(* with a credential, from two connectors that both list b.                  *)
EXTENDS Validation

CONSTANTS a, b, c, d, r1, r2, k1, k2, x, y, home, n1, n2

Addresses == [e \in Candidates |-> CASE e = a -> 1 [] e = b -> 2 [] e = c -> 3 [] e = d -> 4]
Refs == [e \in Candidates |-> CASE e = b -> r2 [] e = d -> NoRef [] OTHER -> r1]

Listed(e) == e \in Candidates
Lists == [k \in {k1, k2} |-> SelectSeq(IF k = k1 THEN <<a, b, c>> ELSE <<b, d>>, Listed)]
Both == <<k1, k2>>

\* The first version of the file knows both references, the second only r1.
BothThenOne == <<{r1, r2}, {r1}>>

Streaks == <<0, 9, 1, 0>>

Seen(exit, latency) == [exit |-> exit, latency |-> latency, leaks |-> FALSE]

\* a may show the client's address and d may turn out to be no proxy at all; b
\* is seen at either exit, at x slowly; x and y share a subnet, and y has an ASN
\* only in the second database.
Observed ==
  [e \in Candidates |->
     CASE e = a -> {Seen(x, 1), [Seen(x, 1) EXCEPT !.leaks = TRUE]}
       [] e = b -> {Seen(x, 400), Seen(y, 1)}
       [] e = c -> {Seen(y, 1)}
       [] e = d -> {Seen(y, 1), Seen(home, 1)}]

OneSubnet == [e \in {x, y} |-> n1]
Owners == <<[e \in {x, y} |-> IF e = x THEN n2 ELSE NoKey], [e \in {x, y} |-> n2]>>

----------------------------------------------------------------------------
(* The two files do not meet in the code, and two cycles meet only in the    *)
(* probes that the first leaves behind.  The bound lets one of these things  *)
(* happen at a time, instead of all with all.                                *)

SecretsRest == secrets = [version |-> 1, whole |-> TRUE]
DatabaseRests == upstream.body = 1 /\ updater.pc = "sleep" /\ db.mtime = Never

\* Three candidates that need the credential file, and all of the clock.
SecretsMove == DatabaseRests /\ cycle <= 1 /\ ~IsIn(d, listed)

DatabaseMoves == SecretsRest /\ cycle <= 1 /\ now <= 1 /\ Len(listed) <= 2

AllAreListed == SecretsRest /\ DatabaseRests /\ cycle <= 1 /\ now = 0

\* What is left of up to four probes, beside the two of the next cycle.
CyclesMeet ==
  SecretsRest /\ DatabaseRests /\ now = 0 /\ Len(listed) <= 2 /\ ~published

OneThingAtATime == SecretsMove \/ DatabaseMoves \/ AllAreListed \/ CyclesMeet

=============================================================================

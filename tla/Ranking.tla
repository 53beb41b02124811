------------------------------ MODULE Ranking ------------------------------
(***************************************************************************)
(* validator/ranking.py: how the ranker scores validated entries, orders   *)
(* them with a penalty for repeated networks, and selects the active pool. *)
(*                                                                         *)
(* The rounds of the ranking are a function of their number.  Scores are   *)
(* fractions, compared by cross-multiplication; the thresholds of the      *)
(* settings are whole numbers here, and the rounding of the published      *)
(* scores to six digits is left out.                                       *)
(***************************************************************************)
EXTENDS Integers, Sequences, FiniteSets

CONSTANTS
  ReserveSize,     \* RESERVE_SIZE
  PoolSize,        \* POOL_SIZE
  MinScore,        \* MIN_SCORE_THRESHOLD
  UnknownPenalty,  \* UNKNOWN_ASN_PENALTY
  UnknownLimit,    \* int(POOL_SIZE * MAX_UNKNOWN_ASN_RATIO)
  NoKey            \* None: no verified ASN, or no address

ASSUME RankingAssumption ==
  /\ ReserveSize \in Nat \ {0} /\ PoolSize \in 1 .. ReserveSize
  /\ MinScore \in Nat /\ UnknownPenalty \in Nat \ {0}
  /\ UnknownLimit \in 0 .. PoolSize

\* An entry: address orders the addresses as their strings do, asn and subnet
\* are the keys the penalties count.
----------------------------------------------------------------------------
Least(m, n) == IF m < n THEN m ELSE n
Most(m, n) == IF m > n THEN m ELSE n

Higher(s, t) == s.num * t.den > t.num * s.den

\* 1000 / (1 + latency_ms) + 2 * min(success_streak, 10)
BaseScore(e) ==
  LET latency == Most(1, e.latency)
  IN  [num |-> 1000 + 2 * Least(Most(1, e.streak), 10) * (1 + latency),
       den |-> 1 + latency]

\* How many of ranked share with e the key k, "asn" or "subnet".
Repeats(e, ranked, k) ==
  IF e[k] = NoKey THEN 0 ELSE Cardinality({i \in DOMAIN ranked : ranked[i][k] = e[k]})

Penalty(e, ranked) ==
  (IF e.asn = NoKey THEN UnknownPenalty ELSE 1)
  + Repeats(e, ranked, "asn") + Repeats(e, ranked, "subnet")

AdjustedScore(e, ranked) ==
  LET base == BaseScore(e)
  IN  [num |-> base.num, den |-> base.den * Penalty(e, ranked)]

\* Whether max() prefers e to f: by adjusted score, then base score, then address.
Beats(e, f, ranked) ==
  LET se == AdjustedScore(e, ranked)  sf == AdjustedScore(f, ranked)
  IN  \/ Higher(se, sf)
      \/ /\ ~Higher(sf, se)
         /\ \/ Higher(BaseScore(e), BaseScore(f))
            \/ ~Higher(BaseScore(f), BaseScore(e)) /\ e.address > f.address

\* max() returns the first of equal elements.
Best(entries, remaining, ranked) ==
  CHOOSE i \in remaining :
    \A j \in remaining \ {i} :
      /\ ~Beats(entries[j], entries[i], ranked)
      /\ j < i => Beats(entries[i], entries[j], ranked)

Eligible(e) == ~Higher([num |-> MinScore, den |-> 1], BaseScore(e))

\* A round of rank_entries ranks the best of what is left.
NextRound(entries, before) ==
  IF before.left = {} THEN before
  ELSE LET i == Best(entries, before.left, before.ranked)
       IN  [ranked |-> Append(before.ranked, entries[i]), left |-> before.left \ {i}]

Rounds(entries) ==
  LET round[n \in 0 .. ReserveSize] ==
        IF n = 0
        THEN [ranked |-> <<>>, left |-> {i \in DOMAIN entries : Eligible(entries[i])}]
        ELSE NextRound(entries, round[n - 1])
  IN  round

RankEntries(entries) == Rounds(entries)[ReserveSize].ranked

UnknownIn(entries) == Cardinality({i \in DOMAIN entries : entries[i].asn = NoKey})

\* Mutant: the first entry over the limit ends the selection.
SelectUntilUnknown(ranked) ==
  LET cut == {i \in DOMAIN ranked : UnknownIn(SubSeq(ranked, 1, i)) > UnknownLimit}
      last == IF cut = {} THEN Len(ranked) ELSE (CHOOSE i \in cut : \A j \in cut : i <= j) - 1
  IN  SubSeq(ranked, 1, Least(last, PoolSize))

\* Passed over when the pool is full, or has its share of unknown ASNs.
Admitted(selected, e) ==
  IF \/ Len(selected) >= PoolSize
     \/ e.asn = NoKey /\ UnknownIn(selected) >= UnknownLimit
  THEN selected ELSE Append(selected, e)

SelectActive(ranked) ==
  LET selected[n \in 0 .. Len(ranked)] ==
        IF n = 0 THEN <<>> ELSE Admitted(selected[n - 1], ranked[n])
  IN  selected[Len(ranked)]

----------------------------------------------------------------------------
(* What ranker and relay may expect of the two lists. *)

\* The score of entry i in the list, as it was when it was picked.
ScoreAt(ranked, i) == AdjustedScore(ranked[i], SubSeq(ranked, 1, i - 1))

\* The order is that of the published scores, although every pick changes the
\* scores of what is left, and nothing that was left out would have scored
\* higher than the last entry.
OrderedByScore(entries, ranked) ==
  /\ \A i \in 2 .. Len(ranked) : ~Higher(ScoreAt(ranked, i), ScoreAt(ranked, i - 1))
  /\ \A j \in DOMAIN entries :
       Eligible(entries[j]) /\ entries[j] \notin {ranked[i] : i \in DOMAIN ranked}
         => /\ Len(ranked) = ReserveSize
            /\ ~Higher(AdjustedScore(entries[j], ranked), ScoreAt(ranked, Len(ranked)))

\* Of two entries of one ASN and one subnet the better one comes first.
BetterTwinFirst(ranked) ==
  \A i, j \in DOMAIN ranked :
    i < j /\ ranked[i].asn = ranked[j].asn /\ ranked[i].subnet = ranked[j].subnet
      => ~Higher(BaseScore(ranked[j]), BaseScore(ranked[i]))

\* The cap on unknown ASNs costs no verified entry its place: the active pool
\* has at most UnknownLimit unknown entries, and a ranked entry is left out only
\* when better ones fill the pool, or when it is one unknown entry too many.
CappedFairly(ranked, active) ==
  /\ Len(active) <= PoolSize /\ UnknownIn(active) <= UnknownLimit
  /\ \A i \in DOMAIN ranked :
       ranked[i] \notin {active[k] : k \in DOMAIN active} =>
         \/ /\ Len(active) = PoolSize
            /\ \A k \in DOMAIN active : active[k] \in {ranked[h] : h \in 1 .. i - 1}
         \/ ranked[i].asn = NoKey /\ UnknownIn(active) = UnknownLimit

=============================================================================

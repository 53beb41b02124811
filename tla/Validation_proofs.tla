------------------------- MODULE Validation_proofs -------------------------
(***************************************************************************)
(* Theorems about Validation and Ranking: for any number of candidates,    *)
(* connectors, credentials and databases, any settings, and every list of  *)
(* entries the ranker may find.                                            *)
(*                                                                         *)
(* The loops of the code are recursive functions here.  What they compute  *)
(* is proved by induction on a set: the numbers up to which a fact holds   *)
(* contain 0 and the successor of each, so they are all of Nat, which is   *)
(* well-founded.                                                           *)
(***************************************************************************)
EXTENDS Validation, WellFoundedInduction, FiniteSetTheorems, TLAPS

\* Induction over the numbers, with the property as a set.
LEMMA SetInduction ==
  ASSUME NEW P, 0 \in P, \A n \in Nat : n \in P => n + 1 \in P
  PROVE  Nat \subseteq P
<1> DEFINE R == {ss \in Nat \X Nat : ss[1] < ss[2]}
           T == Nat \ P
<1>1. SUFFICES ASSUME T # {} PROVE FALSE
  OBVIOUS
<1>2. IsWellFoundedOn(R, Nat)
  <2>1. R = OpToRel(<, Nat)
    BY DEF OpToRel
  <2> HIDE DEF R
  <2> QED
    BY <2>1, NatLessThanWellFounded
<1>3. T \subseteq Nat
  OBVIOUS
<1> HIDE DEF T, R
<1>4. PICK x \in T : \A y \in T : <<y, x>> \notin R
  BY <1>1, <1>2, <1>3, WFMin
<1>5. x \in Nat /\ x # 0 /\ x - 1 \in Nat
  BY <1>3 DEF T
<1>6. x - 1 \notin T
  <2>1. <<x - 1, x>> \in R
    BY <1>5 DEF R
  <2> QED
    BY <2>1, <1>4
<1>7. x - 1 \in P => x - 1 + 1 \in P
  BY <1>5
<1> QED
  BY <1>5, <1>6, <1>7 DEF T

\* The same up to a number.
LEMMA UpTo ==
  ASSUME NEW m \in Nat, NEW P, 0 \in P, \A n \in 1 .. m : n - 1 \in P => n \in P
  PROVE  \A n \in 0 .. m : n \in P
<1> DEFINE Q == {n \in Nat : n <= m => n \in P}
<1>1. 0 \in Q
  OBVIOUS
<1>2. ASSUME NEW n \in Nat, n \in Q PROVE n + 1 \in Q
  <2>1. CASE n + 1 <= m
    <3>1. n + 1 \in 1 .. m /\ (n + 1) - 1 = n /\ n <= m
      BY <2>1
    <3> QED
      BY <1>2, <3>1
  <2> QED
    BY <2>1
<1> HIDE DEF Q
<1>3. Nat \subseteq Q
  BY <1>1, <1>2, SetInduction
<1> QED
  BY <1>3 DEF Q

\* A function that is computed from one number to the next exists.
LEMMA Recursion ==
  ASSUME NEW S, NEW first \in S, NEW m \in Nat, NEW step \in [1 .. m -> [S -> S]]
  PROVE  \E f \in [0 .. m -> S] :
           f[0] = first /\ \A n \in 1 .. m : f[n] = step[n][f[n - 1]]
<1> DEFINE Good(k, f) == /\ f \in [0 .. k -> S] /\ f[0] = first
                         /\ \A n \in 1 .. k : f[n] = step[n][f[n - 1]]
           P == {k \in 0 .. m : \E f : Good(k, f)}
<1>1. 0 \in P
  <2>1. Good(0, [n \in 0 .. 0 |-> first])
    OBVIOUS
  <2> HIDE DEF Good
  <2> QED
    BY <2>1
<1>2. ASSUME NEW k \in 1 .. m, k - 1 \in P PROVE k \in P
  <2>1. PICK f : Good(k - 1, f)
    BY <1>2
  <2> DEFINE h == [n \in 0 .. k |-> IF n = k THEN step[k][f[k - 1]] ELSE f[n]]
  <2>2. f[k - 1] \in S /\ step[k] \in [S -> S]
    BY <2>1
  <2>3. h \in [0 .. k -> S] /\ h[0] = first /\ h[k] = step[k][h[k - 1]]
    BY <2>1, <2>2
  <2>4. ASSUME NEW n \in 1 .. k PROVE h[n] = step[n][h[n - 1]]
    <3>1. CASE n = k
      BY <2>3, <3>1
    <3>2. CASE n # k
      <4>1. n \in 1 .. k - 1 /\ h[n] = f[n] /\ h[n - 1] = f[n - 1]
        BY <3>2
      <4> QED
        BY <2>1, <4>1
    <3> QED
      BY <3>1, <3>2
  <2> HIDE DEF h
  <2>5. Good(k, h)
    BY <2>3, <2>4
  <2> QED
    BY <2>5
<1> HIDE DEF P
<1>3. m \in P
  <2>1. \A n \in 0 .. m : n \in P
    BY <1>1, <1>2, UpTo
  <2> QED
    BY <2>1
<1>4. PICK f : Good(m, f)
  BY <1>3 DEF P
<1> QED
  BY <1>4

----------------------------------------------------------------------------
(* Scores are compared as fractions.  An entry has a score when its latency,  *)
(* streak and address are numbers.                                            *)

Scored(e) == e.latency \in Nat /\ e.streak \in Nat /\ e.address \in Nat

\* No product of naturals is larger than one with larger factors.
LEMMA Product ==
  ASSUME NEW m \in Nat, NEW n \in Nat, NEW k \in Nat, m <= n
  PROVE  m * k \in Nat /\ m * k <= n * k /\ k * m = m * k
  OBVIOUS

\* Products of three naturals.
LEMMA Associative ==
  ASSUME NEW m \in Nat, NEW n \in Nat, NEW k \in Nat
  PROVE  m * (n * k) = (m * n) * k /\ m * (n * k) \in Nat /\ m * n \in Nat
<1>1. m * n \in Nat /\ n * k \in Nat
  OBVIOUS
<1>2. m * (n * k) \in Nat
  BY <1>1
<1> QED
  BY <1>1, <1>2

\* A common factor is cancelled.
LEMMA Cancel ==
  ASSUME NEW m \in Nat, NEW n \in Nat, NEW k \in Nat, k > 0, m * k <= n * k
  PROVE  m <= n
<1> SUFFICES ASSUME m >= n + 1 PROVE FALSE
  OBVIOUS
<1>1. (n + 1) * k <= m * k
  OBVIOUS
<1>2. (n + 1) * k = n * k + k /\ n * k \in Nat /\ m * k \in Nat
  OBVIOUS
<1> QED
  BY <1>1, <1>2

\* What is not higher than something that is not higher than a third is not higher
\* than the third, and of two scores at most one is higher.
LEMMA HigherOrders ==
  ASSUME NEW s \in [num : Nat, den : Nat \ {0}], NEW t \in [num : Nat, den : Nat \ {0}],
         NEW u \in [num : Nat, den : Nat \ {0}]
  PROVE  /\ ~Higher(s, t) /\ ~Higher(t, u) => ~Higher(s, u)
         /\ ~Higher(s, t) \/ ~Higher(t, s)
<1> DEFINE a == s.num  b == s.den  c == t.num  d == t.den  e == u.num  f == u.den
<1>1. /\ a \in Nat /\ b \in Nat /\ c \in Nat /\ d \in Nat /\ e \in Nat /\ f \in Nat
      /\ b > 0 /\ d > 0 /\ f > 0
  OBVIOUS
<1>2. /\ Higher(s, t) <=> a * d > c * b
      /\ Higher(t, s) <=> c * b > a * d
      /\ Higher(t, u) <=> c * f > e * d
      /\ Higher(s, u) <=> a * f > e * b
  BY DEF Higher
<1> HIDE DEF a, b, c, d, e, f
<1>3. /\ a * d \in Nat /\ c * b \in Nat /\ c * f \in Nat /\ e * d \in Nat
      /\ a * f \in Nat /\ e * b \in Nat
  BY <1>1
<1>4. ASSUME a * d <= c * b, c * f <= e * d PROVE a * f <= e * b
  <2>1. (a * d) * f <= (c * b) * f
    BY <1>1, <1>3, <1>4
  <2>2. (c * f) * b <= (e * d) * b
    BY <1>1, <1>3, <1>4
  <2>3. (a * d) * f = (a * f) * d /\ (c * b) * f = (c * f) * b /\ (e * d) * b = (e * b) * d
    BY <1>1
  <2>4. (a * f) * d <= (e * b) * d
    <3>1. /\ (a * d) * f \in Nat /\ (c * b) * f \in Nat /\ (e * d) * b \in Nat
      BY <1>1, <1>3
    <3> QED
      BY <2>1, <2>2, <2>3, <3>1
  <2> QED
    BY <1>1, <1>3, <2>4
<1> QED
  BY <1>2, <1>3, <1>4

\* The base score is a fraction.
LEMMA BaseTyped ==
  ASSUME NEW e, Scored(e)
  PROVE  BaseScore(e) \in [num : Nat, den : Nat \ {0}]
  BY DEF Scored, BaseScore, Most, Least

\* A penalty is positive, and no smaller after more entries have been ranked.
LEMMA RepeatsGrow ==
  ASSUME NEW e, NEW S, NEW ranked \in Seq(S), NEW n \in 0 .. Len(ranked), NEW k
  PROVE  /\ Repeats(e, ranked, k) \in Nat /\ Repeats(e, SubSeq(ranked, 1, n), k) \in Nat
         /\ Repeats(e, SubSeq(ranked, 1, n), k) <= Repeats(e, ranked, k)
<1> DEFINE short == {i \in DOMAIN SubSeq(ranked, 1, n) : SubSeq(ranked, 1, n)[i][k] = e[k]}
           all == {i \in DOMAIN ranked : ranked[i][k] = e[k]}
<1>1. /\ DOMAIN SubSeq(ranked, 1, n) = 1 .. n
      /\ \A i \in 1 .. n : SubSeq(ranked, 1, n)[i] = ranked[i]
  OBVIOUS
<1>2. short \subseteq all
  BY <1>1
<1>3. IsFiniteSet(all)
  <2>1. IsFiniteSet(1 .. Len(ranked))
    BY FS_Interval
  <2>2. all \subseteq 1 .. Len(ranked)
    OBVIOUS
  <2> QED
    BY <2>1, <2>2, FS_Subset
<1> HIDE DEF short, all
<1>4. /\ Cardinality(short) \in Nat /\ Cardinality(all) \in Nat
      /\ Cardinality(short) <= Cardinality(all)
  BY <1>2, <1>3, FS_Subset, FS_CardinalityType
<1>5. /\ Repeats(e, ranked, k) = IF e[k] = NoKey THEN 0 ELSE Cardinality(all)
      /\ Repeats(e, SubSeq(ranked, 1, n), k) = IF e[k] = NoKey THEN 0 ELSE Cardinality(short)
  BY DEF Repeats, short, all
<1> QED
  BY <1>4, <1>5

\* So is the whole penalty.
LEMMA PenaltyGrows ==
  ASSUME NEW e, NEW S, NEW ranked \in Seq(S), NEW n \in 0 .. Len(ranked)
  PROVE  /\ Penalty(e, ranked) \in Nat \ {0} /\ Penalty(e, SubSeq(ranked, 1, n)) \in Nat \ {0}
         /\ Penalty(e, SubSeq(ranked, 1, n)) <= Penalty(e, ranked)
<1> DEFINE A == Repeats(e, ranked, "asn")  B == Repeats(e, ranked, "subnet")
           a == Repeats(e, SubSeq(ranked, 1, n), "asn")
           b == Repeats(e, SubSeq(ranked, 1, n), "subnet")
           first == IF e.asn = NoKey THEN UnknownPenalty ELSE 1
<1>1. A \in Nat /\ B \in Nat /\ a \in Nat /\ b \in Nat /\ a <= A /\ b <= B
  BY RepeatsGrow
<1>2. first \in Nat \ {0}
  BY RankingAssumption
<1>3. /\ Penalty(e, ranked) = first + A + B
      /\ Penalty(e, SubSeq(ranked, 1, n)) = first + a + b
  BY DEF Penalty
<1> HIDE DEF A, B, a, b, first
<1> QED
  BY <1>1, <1>2, <1>3

\* The adjusted score is a fraction too.
LEMMA AdjustedTyped ==
  ASSUME NEW e, Scored(e), NEW S, NEW ranked \in Seq(S)
  PROVE  AdjustedScore(e, ranked) \in [num : Nat, den : Nat \ {0}]
<1> DEFINE p == Penalty(e, ranked)  s == BaseScore(e)
<1>1. p \in Nat /\ p > 0
  BY PenaltyGrows
<1>2. s \in [num : Nat, den : Nat \ {0}]
  BY BaseTyped
<1>3. AdjustedScore(e, ranked) = [num |-> s.num, den |-> s.den * p]
  BY DEF AdjustedScore
<1> HIDE DEF p, s
<1>4. s.num \in Nat /\ s.den \in Nat /\ s.den > 0
  BY <1>2
<1>5. s.den * p \in Nat /\ s.den * p > 0
  BY <1>1, <1>4
<1> QED
  BY <1>3, <1>4, <1>5

\* With more ranked before it an entry scores no higher.
LEMMA ScoresFall ==
  ASSUME NEW e, Scored(e), NEW S, NEW ranked \in Seq(S), NEW n \in 0 .. Len(ranked)
  PROVE  ~Higher(AdjustedScore(e, ranked), AdjustedScore(e, SubSeq(ranked, 1, n)))
<1> DEFINE P == Penalty(e, ranked)  p == Penalty(e, SubSeq(ranked, 1, n))
           num == BaseScore(e).num  den == BaseScore(e).den
<1>1. P \in Nat /\ p \in Nat /\ p <= P
  BY PenaltyGrows
<1>2. num \in Nat /\ den \in Nat
  BY BaseTyped
<1>3. /\ AdjustedScore(e, ranked) = [num |-> num, den |-> den * P]
      /\ AdjustedScore(e, SubSeq(ranked, 1, n)) = [num |-> num, den |-> den * p]
  BY DEF AdjustedScore
<1> HIDE DEF P, p, num, den
<1>4. /\ den * p \in Nat /\ den * P \in Nat /\ den * p <= den * P
  BY <1>1, <1>2
<1>5. num * (den * p) <= num * (den * P) /\ num * (den * p) \in Nat /\ num * (den * P) \in Nat
  BY <1>2, <1>4
<1> QED
  BY <1>3, <1>5 DEF Higher

\* max() compares by a weak order: what beats b beats all that do not beat b.
LEMMA BeatsOrders ==
  ASSUME NEW S, NEW ranked \in Seq(S), NEW n, Scored(n), NEW j, Scored(j), NEW b, Scored(b),
         Beats(n, b, ranked), ~Beats(j, b, ranked)
  PROVE  Beats(n, j, ranked) /\ ~Beats(j, n, ranked)
<1> DEFINE T == [num : Nat, den : Nat \ {0}]
           an == AdjustedScore(n, ranked)  aj == AdjustedScore(j, ranked)
           ab == AdjustedScore(b, ranked)
           bn == BaseScore(n)  bj == BaseScore(j)  bb == BaseScore(b)
<1>1. an \in T /\ aj \in T /\ ab \in T
  BY AdjustedTyped
<1>2. bn \in T /\ bj \in T /\ bb \in T
  BY BaseTyped
<1>3. n.address \in Nat /\ j.address \in Nat /\ b.address \in Nat
  BY DEF Scored
<1>4. /\ \/ Higher(an, ab)
         \/ /\ ~Higher(ab, an)
            /\ Higher(bn, bb) \/ (~Higher(bb, bn) /\ n.address > b.address)
      /\ ~ \/ Higher(aj, ab)
           \/ /\ ~Higher(ab, aj)
              /\ Higher(bj, bb) \/ (~Higher(bb, bj) /\ j.address > b.address)
      /\ Beats(n, j, ranked) <=>
           \/ Higher(an, aj)
           \/ /\ ~Higher(aj, an)
              /\ Higher(bn, bj) \/ (~Higher(bj, bn) /\ n.address > j.address)
      /\ Beats(j, n, ranked) <=>
           \/ Higher(aj, an)
           \/ /\ ~Higher(an, aj)
              /\ Higher(bj, bn) \/ (~Higher(bn, bj) /\ j.address > n.address)
  BY DEF Beats
<1> HIDE DEF an, aj, ab, bn, bj, bb
<1>5. \A s, t, u \in T : /\ ~Higher(s, t) /\ ~Higher(t, u) => ~Higher(s, u)
                         /\ ~Higher(s, t) \/ ~Higher(t, s)
  BY HigherOrders
<1> HIDE DEF T
<1>6. /\ ~Higher(an, aj) /\ ~Higher(aj, ab) => ~Higher(an, ab)
      /\ ~Higher(aj, ab) /\ ~Higher(ab, an) => ~Higher(aj, an)
      /\ ~Higher(ab, an) /\ ~Higher(an, aj) => ~Higher(ab, aj)
      /\ ~Higher(an, aj) \/ ~Higher(aj, an)
      /\ ~Higher(an, ab) \/ ~Higher(ab, an)
  BY <1>1, <1>5
<1>7. /\ ~Higher(bn, bj) /\ ~Higher(bj, bb) => ~Higher(bn, bb)
      /\ ~Higher(bj, bb) /\ ~Higher(bb, bn) => ~Higher(bj, bn)
      /\ ~Higher(bb, bn) /\ ~Higher(bn, bj) => ~Higher(bb, bj)
      /\ ~Higher(bn, bj) \/ ~Higher(bj, bn)
      /\ ~Higher(bn, bb) \/ ~Higher(bb, bn)
  BY <1>2, <1>5
<1> QED
  BY <1>3, <1>4, <1>6, <1>7

\* Nothing beats itself.
LEMMA BeatsItself ==
  ASSUME NEW S, NEW ranked \in Seq(S), NEW e, Scored(e)
  PROVE  ~Beats(e, e, ranked)
<1>1. ~Higher(AdjustedScore(e, ranked), AdjustedScore(e, ranked))
  BY AdjustedTyped, HigherOrders
<1>2. ~Higher(BaseScore(e), BaseScore(e)) /\ ~(e.address > e.address)
  BY BaseTyped, HigherOrders DEF Scored
<1> QED
  BY <1>1, <1>2 DEF Beats

----------------------------------------------------------------------------
(* The rounds of the ranking. *)

\* The entries are a list of entries with a score.
Gradable(entries) ==
  /\ Len(entries) \in Nat /\ DOMAIN entries = 1 .. Len(entries)
  /\ \A i \in DOMAIN entries : Scored(entries[i])

\* max() has a first best element to return.
LEMMA BestExists ==
  ASSUME NEW entries, Gradable(entries), NEW S, NEW ranked \in Seq(S),
         NEW left \in SUBSET DOMAIN entries, left # {}
  PROVE  /\ Best(entries, left, ranked) \in left
         /\ \A j \in left \ {Best(entries, left, ranked)} :
              ~Beats(entries[j], entries[Best(entries, left, ranked)], ranked)
<1> DEFINE N == Len(entries)
           Upper(i, m) == /\ i \in left /\ i <= m
                          /\ \A j \in left \ {i} : j <= m =>
                               /\ ~Beats(entries[j], entries[i], ranked)
                               /\ j < i => Beats(entries[i], entries[j], ranked)
           P == {m \in 0 .. N : (\E j \in left : j <= m) => \E i \in left : Upper(i, m)}
<1>1. N \in Nat /\ left \subseteq 1 .. N /\ \A j \in left : Scored(entries[j]) /\ j \in Nat
  BY DEF Gradable
<1>2. 0 \in P
  BY <1>1
<1>3. ASSUME NEW m \in 1 .. N, m - 1 \in P, \E j \in left : j <= m
      PROVE  \E i \in left : Upper(i, m)
  <2>1. CASE m \notin left
    <3>1. \A j \in left : j <= m <=> j <= m - 1
      BY <1>1, <2>1
    <3>2. PICK i \in left : Upper(i, m - 1)
      BY <1>3, <3>1
    <3>3. Upper(i, m)
      BY <1>1, <3>1, <3>2
    <3> QED
      BY <3>3
  <2>2. CASE m \in left /\ ~ \E j \in left : j <= m - 1
    <3>1. \A j \in left \ {m} : ~(j <= m)
      BY <1>1, <2>2
    <3>2. Upper(m, m)
      BY <2>2, <3>1
    <3> QED
      BY <2>2, <3>2
  <2>3. CASE m \in left /\ \E j \in left : j <= m - 1
    <3>1. PICK b \in left : Upper(b, m - 1)
      BY <1>3, <2>3
    <3>2. b <= m - 1 /\ b < m /\ m # b /\ b \in Nat
      BY <1>1, <3>1
    <3>3. \A j \in left \ {m} : j <= m => j <= m - 1 /\ j < m
      BY <1>1
    <3>4. \A j \in left \ {b} : j <= m - 1 =>
            /\ ~Beats(entries[j], entries[b], ranked)
            /\ j < b => Beats(entries[b], entries[j], ranked)
      BY <3>1
    <3> HIDE DEF Upper
    <3>5. CASE Beats(entries[m], entries[b], ranked)
      <4>1. ASSUME NEW j \in left \ {m}, j <= m
            PROVE  Beats(entries[m], entries[j], ranked) /\ ~Beats(entries[j], entries[m], ranked)
        <5>1. ~Beats(entries[b], entries[b], ranked)
          BY <1>1, BeatsItself
        <5>2. ~Beats(entries[j], entries[b], ranked)
          BY <3>3, <3>4, <4>1, <5>1
        <5>3. Scored(entries[m]) /\ Scored(entries[j]) /\ Scored(entries[b])
          BY <1>1, <2>3
        <5> QED
          BY <3>5, <5>2, <5>3, BeatsOrders
      <4>2. Upper(m, m)
        BY <2>3, <4>1 DEF Upper
      <4> QED
        BY <2>3, <4>2
    <3>6. CASE ~Beats(entries[m], entries[b], ranked)
      <4>1. ASSUME NEW j \in left \ {b}, j <= m
            PROVE  /\ ~Beats(entries[j], entries[b], ranked)
                   /\ j < b => Beats(entries[b], entries[j], ranked)
        <5>1. CASE j = m
          BY <3>2, <3>6, <5>1
        <5>2. CASE j # m
          BY <3>3, <3>4, <4>1, <5>2
        <5> QED
          BY <5>1, <5>2
      <4>2. Upper(b, m)
        BY <3>2, <4>1 DEF Upper
      <4> QED
        BY <4>2
    <3> QED
      BY <3>5, <3>6
  <2> QED
    BY <1>3, <2>1, <2>2, <2>3
<1>4. \A m \in 0 .. N : m \in P
  <2>1. \A m \in 1 .. N : m - 1 \in P => m \in P
    <3> HIDE DEF Upper
    <3> QED
      BY <1>1, <1>3
  <2> HIDE DEF P
  <2> QED
    BY <1>1, <1>2, <2>1, UpTo
<1>5. \E i \in left : Upper(i, N)
  <2>1. \E j \in left : j <= N
    BY <1>1
  <2>2. N \in P
    <3> HIDE DEF P
    <3>1. N \in 0 .. N
      BY <1>1
    <3> QED
      BY <1>4, <3>1
  <2> HIDE DEF Upper
  <2> QED
    BY <2>1, <2>2
<1>6. \E i \in left : \A j \in left \ {i} :
        /\ ~Beats(entries[j], entries[i], ranked)
        /\ j < i => Beats(entries[i], entries[j], ranked)
  <2>1. PICK i \in left : Upper(i, N)
    BY <1>5
  <2>2. \A j \in left : j <= N
    BY <1>1
  <2> QED
    BY <2>1, <2>2
<1> QED
  BY <1>6 DEF Best
\* The rounds are computed one from the other.
LEMMA RoundsAre ==
  ASSUME NEW entries
  PROVE  /\ Rounds(entries)[0] =
              [ranked |-> <<>>, left |-> {i \in DOMAIN entries : Eligible(entries[i])}]
         /\ \A n \in 1 .. ReserveSize :
              Rounds(entries)[n] = NextRound(entries, Rounds(entries)[n - 1])
<1> DEFINE first == [ranked |-> <<>>, left |-> {i \in DOMAIN entries : Eligible(entries[i])}]
           Follows(m, g) ==
             g = [n \in 0 .. m |-> IF n = 0 THEN first ELSE NextRound(entries, g[n - 1])]
           P == {m \in Nat : \E g : Follows(m, g)}
<1> HIDE DEF first
<1>1. 0 \in P
  <2>1. Follows(0, [n \in 0 .. 0 |-> first])
    OBVIOUS
  <2> QED
    BY <2>1
<1>2. ASSUME NEW m \in Nat, m \in P PROVE m + 1 \in P
  <2>1. PICK g : Follows(m, g)
    BY <1>2
  <2> DEFINE h == [n \in 0 .. m + 1 |-> IF n = m + 1 THEN NextRound(entries, g[m]) ELSE g[n]]
  <2>2. \A n \in 0 .. m + 1 : h[n] = IF n = 0 THEN first ELSE NextRound(entries, h[n - 1])
    <3> TAKE n \in 0 .. m + 1
    <3>1. CASE n = m + 1
      BY <3>1
    <3>2. CASE n # m + 1
      <4>1. n \in 0 .. m /\ h[n] = g[n]
        BY <3>2
      <4>2. g[n] = IF n = 0 THEN first ELSE NextRound(entries, g[n - 1])
        BY <2>1, <4>1
      <4>3. n # 0 => h[n - 1] = g[n - 1]
        BY <4>1
      <4> QED
        BY <4>1, <4>2, <4>3
    <3> QED
      BY <3>1, <3>2
  <2>3. h = [n \in 0 .. m + 1 |-> h[n]]
    OBVIOUS
  <2> HIDE DEF h
  <2>4. Follows(m + 1, h)
    BY <2>2, <2>3
  <2> QED
    BY <2>4
<1>3. \E g : Follows(ReserveSize, g)
  <2> HIDE DEF P
  <2>1. Nat \subseteq P
    BY <1>1, <1>2, SetInduction
  <2> QED
    BY <2>1, RankingAssumption DEF P
<1>4. Follows(ReserveSize, Rounds(entries))
  BY <1>3 DEF Rounds, first
<1> HIDE DEF Follows
<1>5. ReserveSize \in Nat
  BY RankingAssumption
<1>6. /\ DOMAIN Rounds(entries) = 0 .. ReserveSize
      /\ \A n \in 0 .. ReserveSize : Rounds(entries)[n] =
           IF n = 0 THEN first ELSE NextRound(entries, Rounds(entries)[n - 1])
  BY <1>4 DEF Follows
<1> QED
  BY <1>6, <1>5 DEF first

EntriesOf(entries) == {entries[i] : i \in DOMAIN entries}

\* What is left was there, and did not beat what was picked, whenever something was; so
\* was what has been picked since.
RoundInv(entries, round) ==
  /\ round.ranked \in Seq(EntriesOf(entries)) /\ round.left \subseteq DOMAIN entries
  /\ \A j \in DOMAIN entries : Eligible(entries[j]) =>
       j \in round.left \/ \E i \in DOMAIN round.ranked : round.ranked[i] = entries[j]
  /\ \A i \in DOMAIN round.ranked, j \in round.left :
       ~Beats(entries[j], round.ranked[i], SubSeq(round.ranked, 1, i - 1))
  /\ \A i, j \in DOMAIN round.ranked : i < j =>
       ~Beats(round.ranked[j], round.ranked[i], SubSeq(round.ranked, 1, i - 1))

\* A round ranks one more, unless nothing is left.
LEMMA RoundStep ==
  ASSUME NEW entries, Gradable(entries), NEW before, RoundInv(entries, before), NEW n \in Nat,
         Len(before.ranked) <= n, before.left # {} => Len(before.ranked) = n
  PROVE  LET after == NextRound(entries, before)
         IN  /\ RoundInv(entries, after) /\ Len(after.ranked) <= n + 1
             /\ after.left # {} => Len(after.ranked) = n + 1
<1>1. CASE before.left = {}
  <2>1. NextRound(entries, before) = before
    BY <1>1 DEF NextRound
  <2>2. Len(before.ranked) \in Nat
    BY DEF RoundInv
  <2> QED
    BY <1>1, <2>1, <2>2
<1>2. CASE before.left # {}
  <2> DEFINE E == EntriesOf(entries)
             b == Best(entries, before.left, before.ranked)
             after == NextRound(entries, before)
             old == before.ranked
             e == entries[b]
             list == Append(old, e)
             left == before.left \ {b}
  <2>1. after = [ranked |-> list, left |-> left]
    BY <1>2 DEF NextRound
  <2>2. b \in before.left /\ \A j \in left : ~Beats(entries[j], e, old)
    BY <1>2, BestExists DEF RoundInv
  <2>3. old \in Seq(E) /\ before.left \subseteq DOMAIN entries /\ b \in DOMAIN entries /\ e \in E
    BY <2>2 DEF RoundInv, EntriesOf
  <2> HIDE DEF b, e, E
  <2>4. /\ list \in Seq(E) /\ Len(old) \in Nat /\ Len(list) = Len(old) + 1
        /\ DOMAIN list = 1 .. Len(old) + 1 /\ DOMAIN old = 1 .. Len(old)
        /\ list[Len(old) + 1] = e /\ \A i \in 1 .. Len(old) : list[i] = old[i]
    BY <2>3
  <2>5. ASSUME NEW i \in 1 .. Len(old)
        PROVE  SubSeq(list, 1, i - 1) = SubSeq(old, 1, i - 1)
    BY <2>3, <2>4
  <2>6. SubSeq(list, 1, Len(old)) = old
    BY <2>3, <2>4
  <2> HIDE DEF list
  <2>7. \A j \in DOMAIN entries : Eligible(entries[j]) =>
          j \in left \/ \E i \in DOMAIN list : list[i] = entries[j]
    <3>1. SUFFICES ASSUME NEW j \in DOMAIN entries, Eligible(entries[j]), j \notin left
                   PROVE  \E i \in DOMAIN list : list[i] = entries[j]
      OBVIOUS
    <3>2. CASE j = b
      <4>1. Len(old) + 1 \in DOMAIN list /\ list[Len(old) + 1] = entries[j]
        BY <2>4, <3>2 DEF e
      <4> QED
        BY <4>1
    <3>3. CASE j # b
      <4>1. PICK i \in DOMAIN old : old[i] = entries[j]
        BY <3>1, <3>3 DEF RoundInv
      <4> QED
        BY <2>4, <4>1
    <3> QED
      BY <3>2, <3>3
  <2>8. ASSUME NEW i \in DOMAIN list, NEW j \in left
        PROVE  ~Beats(entries[j], list[i], SubSeq(list, 1, i - 1))
    <3>1. CASE i = Len(old) + 1
      <4>1. i - 1 = Len(old)
        BY <2>4, <3>1
      <4> QED
        BY <2>2, <2>4, <2>6, <3>1, <4>1
    <3>2. CASE i # Len(old) + 1
      <4>1. i \in 1 .. Len(old) /\ i \in DOMAIN old /\ j \in before.left
        BY <2>4, <3>2
      <4> QED
        BY <2>4, <2>5, <4>1 DEF RoundInv
    <3> QED
      BY <3>1, <3>2
  <2>9. ASSUME NEW i \in DOMAIN list, NEW j \in DOMAIN list, i < j
        PROVE  ~Beats(list[j], list[i], SubSeq(list, 1, i - 1))
    <3>1. i \in 1 .. Len(old) /\ i \in DOMAIN old
      BY <2>4, <2>9
    <3>2. CASE j = Len(old) + 1
      <4>1. list[j] = entries[b] /\ list[i] = old[i]
        BY <2>4, <3>1, <3>2 DEF e
      <4> QED
        BY <2>2, <2>5, <3>1, <4>1 DEF RoundInv
    <3>3. CASE j # Len(old) + 1
      <4>1. j \in DOMAIN old /\ list[j] = old[j] /\ list[i] = old[i]
        BY <2>4, <3>1, <3>3
      <4> QED
        BY <2>5, <2>9, <3>1, <4>1 DEF RoundInv
    <3> QED
      BY <3>2, <3>3
  <2>10. after.ranked = list /\ after.left = left
    BY <2>1
  <2>11. left \subseteq DOMAIN entries
    BY <2>3
  <2> HIDE DEF after, left
  <2>12. RoundInv(entries, after)
    BY <2>4, <2>7, <2>8, <2>9, <2>10, <2>11 DEF RoundInv, E
  <2> QED
    BY <1>2, <2>4, <2>10, <2>12 DEF after, list
<1> QED
  BY <1>1, <1>2

\* So after any number of rounds.
LEMMA RoundsHold ==
  ASSUME NEW entries, Gradable(entries)
  PROVE  LET last == Rounds(entries)[ReserveSize]
         IN  /\ RoundInv(entries, last) /\ Len(last.ranked) <= ReserveSize
             /\ last.left # {} => Len(last.ranked) = ReserveSize
<1> DEFINE Holds(n) == /\ RoundInv(entries, Rounds(entries)[n])
                       /\ Len(Rounds(entries)[n].ranked) <= n
                       /\ Rounds(entries)[n].left # {} => Len(Rounds(entries)[n].ranked) = n
           P == {n \in 0 .. ReserveSize : Holds(n)}
<1>1. ReserveSize \in Nat
  BY RankingAssumption
<1>2. 0 \in P
  <2> DEFINE left == {i \in DOMAIN entries : Eligible(entries[i])}
             first == [ranked |-> <<>>, left |-> left]
  <2>1. Rounds(entries)[0] = first
    BY RoundsAre
  <2>2. /\ left \subseteq DOMAIN entries
        /\ \A j \in DOMAIN entries : Eligible(entries[j]) => j \in left
    OBVIOUS
  <2>3. <<>> \in Seq(EntriesOf(entries)) /\ DOMAIN <<>> = {} /\ Len(<<>>) = 0
    OBVIOUS
  <2> HIDE DEF left
  <2>4. first.ranked = <<>> /\ first.left = left
    OBVIOUS
  <2> HIDE DEF first
  <2>5. RoundInv(entries, first)
    BY <2>2, <2>3, <2>4 DEF RoundInv
  <2>6. Holds(0)
    BY <2>1, <2>3, <2>4, <2>5
  <2> HIDE DEF Holds
  <2> QED
    BY <1>1, <2>6
<1>3. ASSUME NEW n \in 1 .. ReserveSize, n - 1 \in P PROVE n \in P
  <2>1. Rounds(entries)[n] = NextRound(entries, Rounds(entries)[n - 1])
    BY RoundsAre
  <2>2. n - 1 \in Nat /\ (n - 1) + 1 = n
    OBVIOUS
  <2>3. Holds(n - 1)
    BY <1>3
  <2>4. Holds(n)
    BY <2>1, <2>2, <2>3, RoundStep
  <2> HIDE DEF Holds
  <2> QED
    BY <2>4
<1> HIDE DEF P
<1>4. ReserveSize \in P
  <2>1. \A n \in 0 .. ReserveSize : n \in P
    BY <1>1, <1>2, <1>3, UpTo
  <2> QED
    BY <1>1, <2>1
<1> QED
  BY <1>4 DEF P

\* The reserve is in the order of its scores, with nothing better left out, and of two
\* entries of the same networks the better comes first, whatever was validated.
LEMMA RankedWell ==
  ASSUME NEW entries, Gradable(entries)
  PROVE  LET ranked == RankEntries(entries)
         IN  /\ ranked \in Seq(EntriesOf(entries)) /\ Len(ranked) <= ReserveSize
             /\ OrderedByScore(entries, ranked) /\ BetterTwinFirst(ranked)
<1> DEFINE last == Rounds(entries)[ReserveSize]
           E == EntriesOf(entries)
           ranked == RankEntries(entries)
           L == Len(ranked)
           T == [num : Nat, den : Nat \ {0}]
           Before(i) == SubSeq(ranked, 1, i - 1)
<1>1. ranked = last.ranked
  BY DEF RankEntries
<1> HIDE DEF last, ranked
<1>2. /\ RoundInv(entries, last) /\ L <= ReserveSize /\ ReserveSize \in Nat \ {0}
      /\ last.left # {} => L = ReserveSize
  BY <1>1, RoundsHold, RankingAssumption DEF last
<1>3. /\ ranked \in Seq(E) /\ L \in Nat /\ DOMAIN ranked = 1 .. L
      /\ \A i \in 1 .. L : ranked[i] \in E
  BY <1>1, <1>2 DEF RoundInv
<1>4. \A e \in E : Scored(e)
  BY DEF Gradable, EntriesOf
<1> HIDE DEF E
<1>5. ASSUME NEW i \in 1 .. L
      PROVE  /\ Before(i) \in Seq(E) /\ Len(Before(i)) = i - 1
             /\ \A n \in 0 .. i - 1 : SubSeq(Before(i), 1, n) = SubSeq(ranked, 1, n)
  BY <1>3
<1> HIDE DEF Before
<1>6. ASSUME NEW e \in E, NEW i \in 1 .. L
      PROVE  AdjustedScore(e, Before(i)) \in T
  BY <1>4, <1>5, AdjustedTyped
<1>7. ASSUME NEW i \in 1 .. L PROVE ScoreAt(ranked, i) = AdjustedScore(ranked[i], Before(i))
  BY DEF ScoreAt, Before
<1>8. ASSUME NEW i \in 2 .. L
      PROVE  ~Higher(ScoreAt(ranked, i), ScoreAt(ranked, i - 1))
  <2> DEFINE score == AdjustedScore(ranked[i], Before(i))
             earlier == AdjustedScore(ranked[i], Before(i - 1))
             other == AdjustedScore(ranked[i - 1], Before(i - 1))
  <2>1. i \in 1 .. L /\ i - 1 \in 1 .. L /\ i - 1 < i /\ ranked[i] \in E /\ ranked[i - 1] \in E
    BY <1>3
  <2>2. score \in T /\ earlier \in T /\ other \in T
    BY <1>6, <2>1
  <2>3. ~Higher(earlier, other)
    <3>1. ~Beats(ranked[i], ranked[i - 1], SubSeq(ranked, 1, (i - 1) - 1))
      BY <1>1, <1>2, <1>3, <2>1 DEF RoundInv
    <3> QED
      BY <3>1 DEF Beats, Before
  <2>4. ~Higher(score, earlier)
    <3>1. /\ Before(i) \in Seq(E) /\ (i - 1) - 1 \in 0 .. Len(Before(i))
          /\ SubSeq(Before(i), 1, (i - 1) - 1) = Before(i - 1)
      BY <1>5, <2>1 DEF Before
    <3>2. Scored(ranked[i])
      BY <1>4, <2>1
    <3>3. ~Higher(AdjustedScore(ranked[i], Before(i)),
                  AdjustedScore(ranked[i], SubSeq(Before(i), 1, (i - 1) - 1)))
      BY <3>1, <3>2, ScoresFall
    <3> QED
      BY <3>1, <3>3
  <2>5. ScoreAt(ranked, i) = score /\ ScoreAt(ranked, i - 1) = other
    BY <1>7, <2>1
  <2> HIDE DEF score, earlier, other
  <2> QED
    BY <2>2, <2>3, <2>4, <2>5, HigherOrders
<1>9. ASSUME NEW j \in DOMAIN entries, Eligible(entries[j]),
             entries[j] \notin {ranked[i] : i \in DOMAIN ranked}
      PROVE  /\ L = ReserveSize
             /\ ~Higher(AdjustedScore(entries[j], ranked), ScoreAt(ranked, L))
  <2> DEFINE score == AdjustedScore(entries[j], ranked)
             earlier == AdjustedScore(entries[j], Before(L))
             other == AdjustedScore(ranked[L], Before(L))
  <2>1. j \in last.left
    BY <1>1, <1>2, <1>9 DEF RoundInv
  <2>2. L = ReserveSize /\ L \in 1 .. L /\ ranked[L] \in E /\ entries[j] \in E
    <3>1. L = ReserveSize
      BY <1>2, <2>1
    <3>2. L \in 1 .. L
      BY <1>2, <1>3, <3>1
    <3> QED
      BY <1>3, <3>1, <3>2 DEF E, EntriesOf
  <2>3. earlier \in T /\ other \in T /\ score \in T
    BY <1>3, <1>4, <1>6, <2>2, AdjustedTyped
  <2>4. ~Higher(earlier, other)
    <3>1. ~Beats(entries[j], ranked[L], SubSeq(ranked, 1, L - 1))
      BY <1>1, <1>2, <1>3, <2>1, <2>2 DEF RoundInv
    <3> QED
      BY <3>1 DEF Beats, Before
  <2>5. ~Higher(score, earlier)
    <3>1. L - 1 \in 0 .. L /\ Scored(entries[j])
      BY <1>3, <1>4, <2>2
    <3> QED
      BY <1>3, <3>1, ScoresFall DEF Before
  <2>6. ScoreAt(ranked, L) = other
    BY <1>7, <2>2
  <2> HIDE DEF score, earlier, other
  <2>7. ~Higher(score, ScoreAt(ranked, L))
    BY <2>3, <2>4, <2>5, <2>6, HigherOrders
  <2> QED
    BY <2>2, <2>7 DEF score
<1>10. OrderedByScore(entries, ranked)
  BY <1>8, <1>9 DEF OrderedByScore
<1>11. BetterTwinFirst(ranked)
  <2> SUFFICES ASSUME NEW i \in 1 .. L, NEW j \in 1 .. L, i < j,
                      ranked[i].asn = ranked[j].asn, ranked[i].subnet = ranked[j].subnet
               PROVE  ~Higher(BaseScore(ranked[j]), BaseScore(ranked[i]))
    BY <1>3 DEF BetterTwinFirst
  <2> DEFINE p == Penalty(ranked[i], Before(i))
             si == BaseScore(ranked[i])
             sj == BaseScore(ranked[j])
  <2>1. Penalty(ranked[j], Before(i)) = p
    BY DEF Penalty, Repeats
  <2>2. p \in Nat /\ p > 0
    <3>1. Before(i) \in Seq(E) /\ 0 \in 0 .. Len(Before(i))
      BY <1>5
    <3> QED
      BY <3>1, PenaltyGrows
  <2>3. si \in T /\ sj \in T
    BY <1>3, <1>4, BaseTyped
  <2>4. ~Higher([num |-> sj.num, den |-> sj.den * p], [num |-> si.num, den |-> si.den * p])
    <3>1. ~Beats(ranked[j], ranked[i], Before(i))
      BY <1>1, <1>2, <1>3 DEF RoundInv, Before
    <3> QED
      BY <2>1, <3>1 DEF Beats, AdjustedScore
  <2> HIDE DEF p, si, sj
  <2>5. sj.num * (si.den * p) <= si.num * (sj.den * p)
    <3>1. /\ sj.num \in Nat /\ si.den \in Nat /\ si.num \in Nat /\ sj.den \in Nat
      BY <2>3
    <3>2. sj.num * (si.den * p) \in Nat /\ si.num * (sj.den * p) \in Nat
      BY <2>2, <3>1, Associative
    <3> QED
      BY <2>4, <3>2 DEF Higher
  <2>6. sj.num * si.den <= si.num * sj.den
    <3>1. /\ sj.num \in Nat /\ si.den \in Nat /\ si.num \in Nat /\ sj.den \in Nat
      BY <2>3
    <3>2. /\ sj.num * (si.den * p) = (sj.num * si.den) * p
          /\ si.num * (sj.den * p) = (si.num * sj.den) * p
      BY <2>2, <3>1, Associative
    <3>3. sj.num * si.den \in Nat /\ si.num * sj.den \in Nat
      BY <3>1
    <3> QED
      BY <2>2, <2>5, <3>2, <3>3
  <2>7. sj.num * si.den \in Nat /\ si.num * sj.den \in Nat
    BY <2>3
  <2> QED
    BY <2>6, <2>7 DEF Higher, si, sj
<1> QED
  BY <1>2, <1>3, <1>10, <1>11 DEF E, ranked
----------------------------------------------------------------------------
(* The active pool. *)

\* The selection is computed entry by entry.
LEMMA SelectionIs ==
  ASSUME NEW S, NEW ranked \in Seq(S)
  PROVE  \E f : /\ f[0] = <<>> /\ SelectActive(ranked) = f[Len(ranked)]
                /\ \A n \in 1 .. Len(ranked) : f[n] = Admitted(f[n - 1], ranked[n])
<1> DEFINE N == Len(ranked)
           Follows(f) ==
             f = [n \in 0 .. N |-> IF n = 0 THEN <<>> ELSE Admitted(f[n - 1], ranked[n])]
           L == Seq(S)
           first == <<>>
           step == [n \in 1 .. N |-> [list \in L |-> Admitted(list, ranked[n])]]
           result == CHOOSE f : Follows(f)
<1>0. N \in Nat /\ first \in L
  OBVIOUS
<1>1. \A n \in 1 .. N, list \in L : Admitted(list, ranked[n]) \in L
  BY DEF Admitted
<1> HIDE DEF L, N, first
<1>2. step \in [1 .. N -> [L -> L]]
  BY <1>1
<1>3. \A n \in 1 .. N, list \in L : step[n][list] = Admitted(list, ranked[n])
  OBVIOUS
<1> HIDE DEF step
<1>4. PICK f \in [0 .. N -> L] : f[0] = first /\ \A n \in 1 .. N : f[n] = step[n][f[n - 1]]
  BY <1>0, <1>2, Recursion
<1>5. Follows(f)
  <2>1. ASSUME NEW n \in 1 .. N PROVE f[n] = Admitted(f[n - 1], ranked[n])
    <3>1. f[n - 1] \in L
      BY <1>0, <1>4
    <3> QED
      BY <1>3, <1>4, <3>1
  <2> QED
    BY <1>0, <1>4, <2>1 DEF first
<1>6. Follows(result)
  BY <1>5
<1>7. SelectActive(ranked) = result[N]
  BY DEF SelectActive, N
<1> HIDE DEF result
<1>8. \A n \in 0 .. N : result[n] = IF n = 0 THEN <<>> ELSE Admitted(result[n - 1], ranked[n])
  BY <1>6
<1> QED
  BY <1>0, <1>7, <1>8 DEF N

\* One more entry is one more unknown, when it is one.
LEMMA UnknownGrows ==
  ASSUME NEW S, NEW list \in Seq(S), NEW e \in S
  PROVE  /\ UnknownIn(list) \in Nat
         /\ UnknownIn(Append(list, e)) = UnknownIn(list) + (IF e.asn = NoKey THEN 1 ELSE 0)
<1> DEFINE before == {i \in DOMAIN list : list[i].asn = NoKey}
           longer == Append(list, e)
           after == {i \in DOMAIN longer : longer[i].asn = NoKey}
           last == Len(list) + 1
<1>1. IsFiniteSet(before)
  <2>1. IsFiniteSet(1 .. Len(list)) /\ before \subseteq 1 .. Len(list)
    BY FS_Interval
  <2> QED
    BY <2>1, FS_Subset
<1>2. /\ DOMAIN longer = 1 .. last /\ longer[last] = e /\ last \notin before
      /\ \A i \in DOMAIN list : i \in 1 .. last /\ i # last /\ longer[i] = list[i]
      /\ \A i \in 1 .. last : i = last \/ i \in DOMAIN list
  OBVIOUS
<1>3. after = IF e.asn = NoKey THEN before \cup {last} ELSE before
  <2> HIDE DEF longer, last
  <2>1. \A i : i \in after <=> (i = last /\ e.asn = NoKey) \/ i \in before
    BY <1>2 DEF last
  <2> HIDE DEF before, after
  <2> QED
    BY <2>1
<1>4. Cardinality(before) \in Nat /\ Cardinality(before \cup {last}) = Cardinality(before) + 1
  BY <1>1, <1>2, FS_CardinalityType, FS_AddElement
<1>5. UnknownIn(list) = Cardinality(before) /\ UnknownIn(longer) = Cardinality(after)
  BY DEF UnknownIn
<1> HIDE DEF before, after, longer
<1> QED
  BY <1>3, <1>4, <1>5 DEF longer

\* The first n of ranked cost no entry its place but for the two reasons.
Fair(ranked, n, list) ==
  /\ Len(list) <= PoolSize /\ UnknownIn(list) <= UnknownLimit
  /\ \A k \in DOMAIN list : list[k] \in {ranked[h] : h \in 1 .. n}
  /\ \A i \in 1 .. n : ranked[i] \notin {list[k] : k \in DOMAIN list} =>
       \/ /\ Len(list) = PoolSize
          /\ \A k \in DOMAIN list : list[k] \in {ranked[h] : h \in 1 .. i - 1}
       \/ ranked[i].asn = NoKey /\ UnknownIn(list) = UnknownLimit

\* An entry is passed over for one of the two reasons only.
LEMMA AdmittedFairly ==
  ASSUME NEW S, NEW ranked \in Seq(S), NEW n \in 1 .. Len(ranked), NEW list \in Seq(S),
         Fair(ranked, n - 1, list)
  PROVE  /\ Admitted(list, ranked[n]) \in Seq(S)
         /\ Fair(ranked, n, Admitted(list, ranked[n]))
<1> DEFINE e == ranked[n]
           longer == Append(list, e)
<1>1. /\ e \in S /\ longer \in Seq(S) /\ Len(list) \in Nat /\ Len(longer) = Len(list) + 1
      /\ DOMAIN list = 1 .. Len(list) /\ DOMAIN longer = 1 .. Len(list) + 1
      /\ longer[Len(list) + 1] = e /\ \A k \in DOMAIN list : longer[k] = list[k]
  OBVIOUS
<1>2. /\ UnknownIn(list) \in Nat
      /\ UnknownIn(longer) = UnknownIn(list) + (IF e.asn = NoKey THEN 1 ELSE 0)
  BY <1>1, UnknownGrows
<1>3. PoolSize \in Nat /\ UnknownLimit \in Nat
  BY RankingAssumption
<1>4. /\ {ranked[h] : h \in 1 .. n} = {ranked[h] : h \in 1 .. n - 1} \cup {e}
      /\ \A i \in 1 .. n : i = n \/ i \in 1 .. n - 1
  OBVIOUS
<1>5. /\ Len(list) \in Nat /\ Len(list) <= PoolSize
      /\ UnknownIn(list) \in Nat /\ UnknownIn(list) <= UnknownLimit
  BY <1>1, <1>2 DEF Fair
<1> HIDE DEF e, longer
<1>6. CASE Len(list) >= PoolSize \/ (e.asn = NoKey /\ UnknownIn(list) >= UnknownLimit)
  <2>1. Admitted(list, e) = list
    BY <1>6 DEF Admitted
  <2>2. \/ Len(list) = PoolSize
        \/ e.asn = NoKey /\ UnknownIn(list) = UnknownLimit
    BY <1>3, <1>5, <1>6
  <2>3. Fair(ranked, n, list)
    BY <1>4, <2>2 DEF Fair, e
  <2> QED
    BY <2>1, <2>3 DEF e
<1>7. CASE Len(list) < PoolSize /\ (e.asn # NoKey \/ UnknownIn(list) < UnknownLimit)
  <2>1. Admitted(list, e) = longer
    <3>1. ~(Len(list) >= PoolSize \/ (e.asn = NoKey /\ UnknownIn(list) >= UnknownLimit))
      BY <1>3, <1>5, <1>7
    <3> QED
      BY <3>1 DEF Admitted, longer
  <2>2. {longer[k] : k \in DOMAIN longer} = {list[k] : k \in DOMAIN list} \cup {e}
    <3>1. \A k \in DOMAIN longer : k = Len(list) + 1 \/ k \in DOMAIN list
      BY <1>1
    <3>2. Len(list) + 1 \in DOMAIN longer /\ \A k \in DOMAIN list : k \in DOMAIN longer
      BY <1>1
    <3> QED
      BY <1>1, <3>1, <3>2
  <2>3. Len(longer) <= PoolSize /\ UnknownIn(longer) <= UnknownLimit
    <3>1. Len(longer) = Len(list) + 1
      BY <1>1
    <3>2. \/ UnknownIn(longer) = UnknownIn(list)
          \/ UnknownIn(longer) = UnknownIn(list) + 1 /\ e.asn = NoKey
      BY <1>2, <1>5
    <3> QED
      BY <1>3, <1>5, <1>7, <3>1, <3>2
  <2>4. \A k \in DOMAIN longer : longer[k] \in {ranked[h] : h \in 1 .. n}
    <3> SUFFICES ASSUME NEW k \in DOMAIN longer
                 PROVE  longer[k] \in {ranked[h] : h \in 1 .. n - 1} \cup {e}
      BY <1>4
    <3>1. k = Len(list) + 1 \/ k \in DOMAIN list
      BY <1>1
    <3> QED
      BY <1>1, <3>1 DEF Fair
  <2>5. ASSUME NEW i \in 1 .. n, ranked[i] \notin {longer[k] : k \in DOMAIN longer}
        PROVE  ranked[i].asn = NoKey /\ UnknownIn(longer) = UnknownLimit
    <3>1. ranked[i] # e /\ ranked[i] \notin {list[k] : k \in DOMAIN list}
      BY <2>2, <2>5
    <3>2. i \in 1 .. n - 1
      BY <1>4, <3>1 DEF e
    <3>3. Len(list) # PoolSize
      BY <1>3, <1>5, <1>7
    <3>4. ranked[i].asn = NoKey /\ UnknownIn(list) = UnknownLimit
      BY <3>1, <3>2, <3>3 DEF Fair
    <3> QED
      BY <1>2, <1>3, <1>5, <1>7, <3>4
  <2>6. Fair(ranked, n, longer)
    BY <2>3, <2>4, <2>5 DEF Fair
  <2> QED
    BY <1>1, <2>1, <2>6 DEF e
<1> QED
  BY <1>3, <1>5, <1>6, <1>7

\* The active pool respects its size and the cap, and leaves nothing out without a
\* reason, whatever was ranked.
LEMMA ActiveIsFair ==
  ASSUME NEW S, NEW ranked \in Seq(S)
  PROVE  CappedFairly(ranked, SelectActive(ranked))
<1>1. PICK f : /\ f[0] = <<>> /\ SelectActive(ranked) = f[Len(ranked)]
               /\ \A n \in 1 .. Len(ranked) : f[n] = Admitted(f[n - 1], ranked[n])
  BY SelectionIs
<1> DEFINE P == {n \in 0 .. Len(ranked) : f[n] \in Seq(S) /\ Fair(ranked, n, f[n])}
<1>2. Len(ranked) \in Nat /\ PoolSize \in Nat /\ UnknownLimit \in Nat
  BY RankingAssumption
<1>3. 0 \in P
  <2>1. <<>> \in Seq(S) /\ Len(<<>>) = 0 /\ DOMAIN <<>> = {}
    OBVIOUS
  <2>2. UnknownIn(<<>>) = 0
    BY <2>1, FS_EmptySet DEF UnknownIn
  <2>3. Fair(ranked, 0, <<>>)
    BY <1>2, <2>1, <2>2 DEF Fair
  <2> QED
    BY <1>1, <1>2, <2>1, <2>3, 0 \in 0 .. Len(ranked)
<1>4. ASSUME NEW n \in 1 .. Len(ranked), n - 1 \in P PROVE n \in P
  BY <1>1, <1>4, AdmittedFairly
<1> HIDE DEF P
<1>5. \A n \in 0 .. Len(ranked) : n \in P
  BY <1>2, <1>3, <1>4, UpTo
<1>6. Fair(ranked, Len(ranked), SelectActive(ranked))
  BY <1>1, <1>2, <1>5 DEF P
<1> QED
  BY <1>6 DEF Fair, CappedFairly
----------------------------------------------------------------------------
(* What the cycle collects, and what it publishes.  Three loops stay in a set  *)
(* of lists that each of their steps stays in.                                  *)

\* The items of one connector, added one by one (registry.py:74).
LEMMA MergedIn ==
  ASSUME NEW L, NEW list, NEW items
  PROVE  /\ list \in L /\ Len(items) \in Nat
         /\ \A n \in 1 .. Len(items), l \in L : Added(l, items[n]) \in L
         => Merged(list, items) \in L
<1> DEFINE m == Len(items)
           first == list
           step == [n \in 1 .. m |-> [l \in L |-> Added(l, items[n])]]
           Follows(f) ==
             f = [n \in 0 .. m |-> IF n = 0 THEN first ELSE Added(f[n - 1], items[n])]
           result == CHOOSE f : Follows(f)
           P == {n \in 0 .. m : result[n] \in L}
<1>0. SUFFICES ASSUME /\ list \in L /\ Len(items) \in Nat
                      /\ \A n \in 1 .. Len(items), l \in L : Added(l, items[n]) \in L
               PROVE  Merged(list, items) \in L
  OBVIOUS
<1>1. Merged(list, items) = result[m]
  BY DEF Merged
<1>2. m \in Nat /\ first \in L
  BY <1>0
<1>3. \A n \in 1 .. m, l \in L : Added(l, items[n]) \in L
  BY <1>0
<1> HIDE DEF m, first
<1>4. step \in [1 .. m -> [L -> L]]
  BY <1>3
<1>5. \A n \in 1 .. m, l \in L : step[n][l] = Added(l, items[n])
  OBVIOUS
<1> HIDE DEF step
<1>6. PICK f \in [0 .. m -> L] :
        f[0] = first /\ \A n \in 1 .. m : f[n] = step[n][f[n - 1]]
  BY <1>2, <1>4, Recursion
<1>7. Follows(f)
  <2>1. ASSUME NEW n \in 1 .. m PROVE f[n] = Added(f[n - 1], items[n])
    <3>1. f[n - 1] \in L
      BY <1>2, <1>6
    <3> QED
      BY <1>5, <1>6, <3>1
  <2> QED
    BY <1>2, <1>6, <2>1
<1>8. Follows(result)
  BY <1>7
<1> HIDE DEF result
<1>9. \A n \in 0 .. m :
        result[n] = IF n = 0 THEN first ELSE Added(result[n - 1], items[n])
  BY <1>8
<1>10. 0 \in P
  BY <1>2, <1>9
<1>11. ASSUME NEW n \in 1 .. m, n - 1 \in P PROVE n \in P
  <2>1. result[n - 1] \in L
    BY <1>11
  <2>2. Added(result[n - 1], items[n]) \in L
    BY <1>3, <2>1
  <2> QED
    BY <1>2, <1>9, <2>2
<1> HIDE DEF P
<1>12. \A n \in 0 .. m : n \in P
  BY <1>2, <1>10, <1>11, UpTo
<1> QED
  BY <1>1, <1>2, <1>12 DEF P

\* The lists of the connectors, merged one by one.
LEMMA CollectIn ==
  ASSUME NEW L, NEW answered
  PROVE  /\ <<>> \in L /\ Len(Connectors) \in Nat
         /\ \A n \in 1 .. Len(Connectors), l \in L :
              Merged(l, Collected(Connectors[n], answered)) \in L
         => CollectAll(answered) \in L
<1> DEFINE m == Len(Connectors)
           first == <<>>
           step == [n \in 1 .. m |-> [l \in L |-> Merged(l, Collected(Connectors[n], answered))]]
           Follows(f) ==
             f = [n \in 0 .. m |->
                    IF n = 0 THEN first
                    ELSE Merged(f[n - 1], Collected(Connectors[n], answered))]
           result == CHOOSE f : Follows(f)
           P == {n \in 0 .. m : result[n] \in L}
<1>0. SUFFICES ASSUME /\ <<>> \in L /\ Len(Connectors) \in Nat
                      /\ \A n \in 1 .. Len(Connectors), l \in L :
                           Merged(l, Collected(Connectors[n], answered)) \in L
               PROVE  CollectAll(answered) \in L
  OBVIOUS
<1>1. CollectAll(answered) = result[m]
  BY DEF CollectAll
<1>2. m \in Nat /\ first \in L
  BY <1>0
<1>3. \A n \in 1 .. m, l \in L : Merged(l, Collected(Connectors[n], answered)) \in L
  BY <1>0
<1> HIDE DEF m, first
<1>4. step \in [1 .. m -> [L -> L]]
  BY <1>3
<1>5. \A n \in 1 .. m, l \in L : step[n][l] = Merged(l, Collected(Connectors[n], answered))
  OBVIOUS
<1> HIDE DEF step
<1>6. PICK f \in [0 .. m -> L] :
        f[0] = first /\ \A n \in 1 .. m : f[n] = step[n][f[n - 1]]
  BY <1>2, <1>4, Recursion
<1>7. Follows(f)
  <2>1. ASSUME NEW n \in 1 .. m PROVE f[n] = Merged(f[n - 1], Collected(Connectors[n], answered))
    <3>1. f[n - 1] \in L
      BY <1>2, <1>6
    <3> QED
      BY <1>5, <1>6, <3>1
  <2> QED
    BY <1>2, <1>6, <2>1
<1>8. Follows(result)
  BY <1>7
<1> HIDE DEF result
<1>9. \A n \in 0 .. m :
        result[n] = IF n = 0 THEN first
                    ELSE Merged(result[n - 1], Collected(Connectors[n], answered))
  BY <1>8
<1>10. 0 \in P
  BY <1>2, <1>9
<1>11. ASSUME NEW n \in 1 .. m, n - 1 \in P PROVE n \in P
  <2>1. result[n - 1] \in L
    BY <1>11
  <2>2. Merged(result[n - 1], Collected(Connectors[n], answered)) \in L
    BY <1>3, <2>1
  <2> QED
    BY <1>2, <1>9, <2>2
<1> HIDE DEF P
<1>12. \A n \in 0 .. m : n \in P
  BY <1>2, <1>10, <1>11, UpTo
<1> QED
  BY <1>1, <1>2, <1>12 DEF P

\* The entries of the probes that passed (validator.py:110).
LEMMA HealthyIn ==
  ASSUME NEW L
  PROVE  /\ <<>> \in L /\ Len(listed) \in Nat
         /\ \A n \in 1 .. Len(listed), l \in L : Kept(l, listed[n]) \in L
         => Healthy \in L
<1> DEFINE m == Len(listed)
           first == <<>>
           step == [n \in 1 .. m |-> [l \in L |-> Kept(l, listed[n])]]
           Follows(f) ==
             f = [n \in 0 .. m |-> IF n = 0 THEN first ELSE Kept(f[n - 1], listed[n])]
           result == CHOOSE f : Follows(f)
           P == {n \in 0 .. m : result[n] \in L}
<1>0. SUFFICES ASSUME /\ <<>> \in L /\ Len(listed) \in Nat
                      /\ \A n \in 1 .. Len(listed), l \in L : Kept(l, listed[n]) \in L
               PROVE  Healthy \in L
  OBVIOUS
<1>1. Healthy = result[m]
  BY DEF Healthy
<1>2. m \in Nat /\ first \in L
  BY <1>0
<1>3. \A n \in 1 .. m, l \in L : Kept(l, listed[n]) \in L
  BY <1>0
<1> HIDE DEF m, first
<1>4. step \in [1 .. m -> [L -> L]]
  BY <1>3
<1>5. \A n \in 1 .. m, l \in L : step[n][l] = Kept(l, listed[n])
  OBVIOUS
<1> HIDE DEF step
<1>6. PICK f \in [0 .. m -> L] :
        f[0] = first /\ \A n \in 1 .. m : f[n] = step[n][f[n - 1]]
  BY <1>2, <1>4, Recursion
<1>7. Follows(f)
  <2>1. ASSUME NEW n \in 1 .. m PROVE f[n] = Kept(f[n - 1], listed[n])
    <3>1. f[n - 1] \in L
      BY <1>2, <1>6
    <3> QED
      BY <1>5, <1>6, <3>1
  <2> QED
    BY <1>2, <1>6, <2>1
<1>8. Follows(result)
  BY <1>7
<1> HIDE DEF result
<1>9. \A n \in 0 .. m :
        result[n] = IF n = 0 THEN first ELSE Kept(result[n - 1], listed[n])
  BY <1>8
<1>10. 0 \in P
  BY <1>2, <1>9
<1>11. ASSUME NEW n \in 1 .. m, n - 1 \in P PROVE n \in P
  <2>1. result[n - 1] \in L
    BY <1>11
  <2>2. Kept(result[n - 1], listed[n]) \in L
    BY <1>3, <2>1
  <2> QED
    BY <1>2, <1>9, <2>2
<1> HIDE DEF P
<1>12. \A n \in 0 .. m : n \in P
  BY <1>2, <1>10, <1>11, UpTo
<1> QED
  BY <1>1, <1>2, <1>12 DEF P

\* What is collected are candidates.
LEMMA CollectedTyped ==
  ASSUME NEW answered
  PROVE  CollectAll(answered) \in Seq(Candidates)
<1> DEFINE L == Seq(Candidates)
<1>1. <<>> \in L /\ Len(Connectors) \in Nat
  OBVIOUS
<1>2. ASSUME NEW k \in 1 .. Len(Connectors), NEW l \in L
      PROVE  Merged(l, Collected(Connectors[k], answered)) \in L
  <2> DEFINE items == Collected(Connectors[k], answered)
  <2>1. items \in Seq(Candidates)
    BY ValidationAssumption DEF Collected
  <2> HIDE DEF items
  <2>2. ASSUME NEW n \in 1 .. Len(items), NEW x \in L PROVE Added(x, items[n]) \in L
    BY <2>1 DEF Added
  <2>3. Len(items) \in Nat
    BY <2>1
  <2> HIDE DEF L
  <2>4. Merged(l, items) \in L
    BY <2>2, <2>3, MergedIn
  <2> QED
    BY <2>4 DEF items
<1>3. CollectAll(answered) \in L
  <2> HIDE DEF L
  <2> QED
    BY <1>1, <1>2, CollectIn
<1> QED
  BY <1>3

----------------------------------------------------------------------------
(* The inductive invariant. *)

\* The candidates that hold a slot of the semaphore of cycle n.
Holders(n) == {c \in Candidates : Negotiating(<<n, c>>)}

FilesTyped ==
  /\ now \in 0 .. MaxNow
  /\ secrets \in [version : Versions, whole : BOOLEAN]
  /\ ~secrets.whole => secrets.version + 1 \in Versions
  /\ retired \in [Versions -> Times]
  /\ upstream \in [body : Releases, sum : Releases]
  /\ updater \in [pc : {"sleep", "body", "install", "dead"}, sum : 0 .. Bad]
  /\ db \in [content : 0 .. Bad, mtime : Times]

Stores == [at : Times, version : {0} \cup Versions]

CycleTyped ==
  /\ stage \in {"idle", "dead"} \cup InCycle
  /\ cycle \in 0 .. MaxCycles /\ (stage \in InCycle => cycle \in Cycles)
  /\ listed \in Seq(Candidates)
  /\ store \in [Cycles -> Stores]
  /\ resolver \in [content : 0 .. Bad, mtime : Times, at : Times]

\* A task in one of its states, with a latency when it has passed.
TaskTyped(t) ==
  /\ t.pc \in {"none", "queued", "connect", "exchange", "passed", "failed"}
  /\ t.pc = "passed" => t.latency \in Nat

ProbesTyped ==
  /\ task = [p \in Probes |-> task[p]]
  /\ \A p \in Probes : TaskTyped(task[p])

PoolsTyped ==
  /\ Gradable(validated)
  /\ Len(reserve) <= ReserveSize /\ Len(active) <= PoolSize
  /\ published \in BOOLEAN

\* The count of each semaphore, which has a meaning however many candidates there are.
SlotsKept == \A n \in Cycles : IsFiniteSet(Holders(n)) /\ Cardinality(Holders(n)) <= Concurrency

\* What is installed, or compared with a checksum, the publisher has released.
Downloads ==
  /\ upstream.sum <= upstream.body
  /\ updater.pc \in {"body", "install"} => updater.sum \in 1 .. upstream.body
  /\ db.content \in 0 .. upstream.body

\* The database the cycle looked at is there when it is opened, or a newer one is.
Opening ==
  stage = "open" => db.content # 0 /\ resolver.at <= now /\ resolver.at - db.mtime <= MaxAge

\* The credentials of a store were in the file when it was read last: they are
\* still there, or were withdrawn since.
ReadRecently(s) ==
  s.at # Never =>
    /\ s.at <= now /\ s.version \in Versions
    /\ \/ secrets.whole /\ s.version = secrets.version
       \/ s.at <= retired[s.version]

StoresAreRecent == \A n \in Cycles : ReadRecently(store[n])

\* The credentials of a probe that connects are in the file, or were less than the
\* interval before the probe took them.
TakenRecently(t) ==
  t.pc = "connect" /\ t.auth # 0 =>
    /\ t.auth \in Versions /\ t.since \in 0 .. now
    /\ \/ secrets.whole /\ t.auth = secrets.version
       \/ retired[t.auth] # Never /\ t.since - retired[t.auth] < ReloadInterval

ProbesAreRecent == \A p \in Probes : TakenRecently(task[p])

IndInv ==
  /\ FilesTyped /\ CycleTyped /\ ProbesTyped /\ PoolsTyped /\ SlotsKept
  /\ Downloads /\ Opening /\ AsnIsVerified /\ StoresAreRecent /\ ProbesAreRecent

----------------------------------------------------------------------------
(* The first state, and the steps on the files. *)

\* Nothing has happened in the first state, which may have an old database.
LEMMA InitInv == Init => IndInv
<1> SUFFICES ASSUME Init PROVE IndInv
  OBVIOUS
<1>1. /\ MaxNow \in Nat /\ MaxReleases \in Nat /\ MaxReleases >= 1 /\ MaxCycles \in Nat
      /\ Len(Known) \in Nat /\ Len(Known) >= 1 /\ Versions = 1 .. Len(Known)
      /\ ReserveSize \in Nat /\ PoolSize \in Nat /\ Concurrency \in Nat
  BY ValidationAssumption, RankingAssumption
<1>2. FilesTyped
  BY <1>1 DEF Init, FilesTyped, Times, Never, Releases, Bad
<1>3. CycleTyped
  BY <1>1 DEF Init, CycleTyped, InCycle, Stores, Times, Never, Closed, Fresh, Bad
<1>4. ProbesTyped /\ ProbesAreRecent
  BY DEF Init, ProbesTyped, TaskTyped, ProbesAreRecent, TakenRecently, NoTask
<1>5. PoolsTyped
  <2>1. Gradable(validated)
    BY DEF Init, Gradable
  <2>2. published \in BOOLEAN
    BY DEF Init
  <2>3. Len(reserve) <= ReserveSize /\ Len(active) <= PoolSize
    BY <1>1 DEF Init
  <2> QED
    BY <2>1, <2>2, <2>3 DEF PoolsTyped
<1>6. SlotsKept
  <2>1. ASSUME NEW n \in Cycles PROVE Holders(n) = {}
    BY DEF Init, Holders, Negotiating, Pc, NoTask, Probes
  <2> QED
    BY <1>1, <2>1, FS_EmptySet DEF SlotsKept
<1>7. Downloads /\ Opening /\ AsnIsVerified /\ StoresAreRecent
  BY <1>1 DEF Init, Downloads, Opening, AsnIsVerified, StoresAreRecent, ReadRecently, Fresh
<1> QED
  BY <1>2, <1>3, <1>4, <1>5, <1>6, <1>7 DEF IndInv

\* A step on the files moves neither a probe nor a pool.
LEMMA FilesAlone ==
  ASSUME IndInv, UNCHANGED <<now, cycleVars, poolVars>>
  PROVE  CycleTyped' /\ ProbesTyped' /\ PoolsTyped' /\ SlotsKept'
<1>1. CycleTyped'
  BY DEF IndInv, CycleTyped, cycleVars
<1>2. ProbesTyped' /\ SlotsKept'
  BY DEF IndInv, ProbesTyped, SlotsKept, Holders, Negotiating, Pc, cycleVars
<1>3. PoolsTyped'
  BY DEF IndInv, PoolsTyped, poolVars
<1> QED
  BY <1>1, <1>2, <1>3

\* Credentials are withdrawn now, so after they were read or taken.
LEMMA Withdrawn ==
  ASSUME IndInv, UNCHANGED <<now, cycleVars>>, retired' = [retired EXCEPT ![secrets.version] = now]
  PROVE  StoresAreRecent' /\ ProbesAreRecent'
<1>1. /\ now \in Nat /\ now # Never /\ secrets.version \in Versions
      /\ retired \in [Versions -> Times] /\ ReloadInterval \in Nat /\ ReloadInterval > 0
  BY ValidationAssumption DEF IndInv, FilesTyped, Never
<1>2. ASSUME NEW v \in Versions
      PROVE  retired'[v] = IF v = secrets.version THEN now ELSE retired[v]
  BY <1>1, <1>2
<1>3. StoresAreRecent'
  BY <1>1, <1>2 DEF IndInv, StoresAreRecent, ReadRecently, cycleVars
<1>4. ProbesAreRecent'
  <2>1. ASSUME NEW p \in Probes PROVE TakenRecently(task[p])'
    <3>1. task'[p] = task[p] /\ now' = now
      BY DEF cycleVars
    <3>2. SUFFICES ASSUME task[p].pc = "connect", task[p].auth # 0
                   PROVE  /\ task[p].auth \in Versions /\ task[p].since \in 0 .. now
                          /\ retired'[task[p].auth] # Never
                          /\ task[p].since - retired'[task[p].auth] < ReloadInterval
      BY <3>1 DEF TakenRecently
    <3>3. TakenRecently(task[p])
      BY DEF IndInv, ProbesAreRecent
    <3>4. task[p].auth \in Versions /\ task[p].since \in 0 .. now
      BY <3>2, <3>3 DEF TakenRecently
    <3>5. CASE task[p].auth = secrets.version
      BY <1>1, <1>2, <3>4, <3>5
    <3>6. CASE task[p].auth # secrets.version
      BY <1>2, <3>2, <3>3, <3>4, <3>6 DEF TakenRecently
    <3> QED
      BY <3>4, <3>5, <3>6
  <2> QED
    BY <2>1 DEF ProbesAreRecent
<1> QED
  BY <1>3, <1>4

\* Whoever writes the credential file notes when a version was in it for the last time.
LEMMA SecretsStep ==
  ASSUME IndInv, ReplaceSecrets \/ TruncateSecrets \/ WriteSecrets
  PROVE  IndInv'
<1>1. CycleTyped' /\ ProbesTyped' /\ PoolsTyped' /\ SlotsKept'
  BY FilesAlone DEF ReplaceSecrets, TruncateSecrets, WriteSecrets
<1>2. Downloads' /\ Opening' /\ AsnIsVerified'
  BY DEF IndInv, Downloads, Opening, AsnIsVerified, ReplaceSecrets, TruncateSecrets, WriteSecrets,
     cycleVars
<1>3. /\ now \in Times /\ now \in Nat /\ secrets.version \in Versions
      /\ Versions = 1 .. Len(Known) /\ Len(Known) \in Nat
  BY ValidationAssumption DEF IndInv, FilesTyped, Times, Never
<1>4. FilesTyped'
  <2>1. CASE ReplaceSecrets
    BY <1>3, <2>1 DEF IndInv, FilesTyped, ReplaceSecrets
  <2>2. CASE TruncateSecrets
    BY <1>3, <2>2 DEF IndInv, FilesTyped, TruncateSecrets
  <2>3. CASE WriteSecrets
    BY <1>3, <2>3 DEF IndInv, FilesTyped, WriteSecrets
  <2> QED
    BY <2>1, <2>2, <2>3
<1>5. StoresAreRecent' /\ ProbesAreRecent'
  <2>1. CASE ReplaceSecrets \/ TruncateSecrets
    BY <2>1, Withdrawn DEF ReplaceSecrets, TruncateSecrets
  <2>2. CASE WriteSecrets
    BY <2>2 DEF IndInv, StoresAreRecent, ReadRecently, ProbesAreRecent, TakenRecently, WriteSecrets,
       cycleVars
  <2> QED
    BY <2>1, <2>2
<1> QED
  BY <1>1, <1>2, <1>4, <1>5 DEF IndInv

\* No other step of the files touches the credentials.
LEMMA CredentialsKeep ==
  ASSUME IndInv, UNCHANGED <<now, secrets, retired, store, task>>
  PROVE  StoresAreRecent' /\ ProbesAreRecent'
  BY DEF IndInv, StoresAreRecent, ReadRecently, ProbesAreRecent, TakenRecently

\* The publisher only goes forward.
LEMMA ReleaseStep ==
  ASSUME IndInv, Release
  PROVE  IndInv'
<1>1. CycleTyped' /\ ProbesTyped' /\ PoolsTyped' /\ SlotsKept'
  BY FilesAlone DEF Release
<1>2. /\ upstream.body \in 1 .. MaxReleases /\ upstream.sum \in 1 .. MaxReleases
      /\ MaxReleases \in Nat
  BY ValidationAssumption DEF IndInv, FilesTyped, Releases
<1>3. upstream' \in [body : Releases, sum : Releases] /\ upstream'.body >= upstream.body
      /\ upstream'.sum <= upstream'.body
  BY <1>2 DEF IndInv, FilesTyped, Release, Releases
<1>4. FilesTyped'
  BY <1>3 DEF IndInv, FilesTyped, Release
<1>5. Downloads' /\ AsnIsVerified'
  <2>1. upstream'.body \in Nat /\ updater.sum \in Int /\ db.content \in Int
        /\ resolver.content \in Int
    BY <1>3 DEF IndInv, FilesTyped, CycleTyped, Releases
  <2> QED
    BY <1>2, <1>3, <2>1 DEF IndInv, Downloads, AsnIsVerified, Release, cycleVars
<1>6. Opening' /\ StoresAreRecent' /\ ProbesAreRecent'
  BY CredentialsKeep DEF IndInv, Opening, Release, cycleVars
<1> QED
  BY <1>1, <1>4, <1>5, <1>6 DEF IndInv

\* What the updater installs has the digest of a database that was released.
LEMMA UpdaterStep ==
  ASSUME IndInv,
         \/ FetchChecksum \/ ChecksumEmpty \/ FetchDatabase
         \/ Install \/ UpdateFails \/ RestartUpdater
  PROVE  IndInv'
<1>1. UpdaterAlone
  BY DEF FetchChecksum, ChecksumEmpty, FetchDatabase, Install, UpdateFails, RestartUpdater
<1>2. CycleTyped' /\ ProbesTyped' /\ PoolsTyped' /\ SlotsKept'
  BY <1>1, FilesAlone DEF UpdaterAlone
<1>3. /\ upstream.body \in 1 .. MaxReleases /\ upstream.sum \in 1 .. MaxReleases
      /\ MaxReleases \in Nat /\ now \in Times /\ now \in Nat
      /\ updater.sum \in 0 .. Bad /\ db \in [content : 0 .. Bad, mtime : Times]
      /\ upstream.sum <= upstream.body
      /\ updater.pc \in {"body", "install"} => updater.sum \in 1 .. upstream.body
      /\ db.content \in 0 .. upstream.body
  BY ValidationAssumption DEF IndInv, FilesTyped, Downloads, Releases, Times, Never
<1>4. /\ updater' \in [pc : {"sleep", "body", "install", "dead"}, sum : 0 .. Bad]
      /\ updater'.pc \in {"body", "install"} => updater'.sum \in 1 .. upstream.body
  <2>1. CASE FetchDatabase
    BY <1>3, <2>1 DEF FetchDatabase, Accept, Sleep, Bad
  <2>2. CASE ~FetchDatabase
    BY <1>3, <2>2 DEF FetchChecksum, ChecksumEmpty, Install, UpdateFails, RestartUpdater, Sleep,
       Bad
  <2> QED
    BY <2>1, <2>2
<1>5. \/ db' = db
      \/ db' = [content |-> updater.sum, mtime |-> now] /\ updater.sum \in 1 .. upstream.body
  <2>1. CASE FetchDatabase
    <3>1. updater.sum \in 1 .. upstream.body
      BY <1>3, <2>1 DEF FetchDatabase
    <3>2. \/ db' = db
          \/ db.content = updater.sum /\ db' = [db EXCEPT !.mtime = now]
      <4>1. PICK got : IF got = updater.sum THEN Accept(got) ELSE Sleep /\ UNCHANGED db
        BY <2>1 DEF FetchDatabase
      <4> QED
        BY <1>3, <4>1 DEF Accept
    <3> QED
      BY <1>3, <3>1, <3>2
  <2>2. CASE Install
    BY <1>3, <2>2 DEF Install
  <2>3. CASE ~FetchDatabase /\ ~Install
    BY <2>3 DEF FetchChecksum, ChecksumEmpty, UpdateFails, RestartUpdater
  <2> QED
    BY <2>1, <2>2, <2>3
<1>6. FilesTyped'
  <2>1. db' \in [content : 0 .. Bad, mtime : Times]
    BY <1>3, <1>5
  <2> QED
    BY <1>1, <1>4, <2>1 DEF IndInv, FilesTyped, UpdaterAlone
<1>7. Downloads'
  <2>1. db'.content \in 0 .. upstream.body
    BY <1>3, <1>5
  <2> QED
    BY <1>1, <1>3, <1>4, <2>1 DEF Downloads, UpdaterAlone
<1>8. Opening'
  <2>1. resolver.at \in Int /\ db.mtime \in Int /\ MaxAge \in Nat
    BY ValidationAssumption DEF IndInv, FilesTyped, CycleTyped, Times
  <2> QED
    BY <1>1, <1>3, <1>5, <2>1 DEF IndInv, Opening, UpdaterAlone, cycleVars
<1>9. AsnIsVerified' /\ StoresAreRecent' /\ ProbesAreRecent'
  BY <1>1, CredentialsKeep DEF IndInv, AsnIsVerified, UpdaterAlone, cycleVars
<1> QED
  BY <1>2, <1>6, <1>7, <1>8, <1>9 DEF IndInv

----------------------------------------------------------------------------
(* The cycle. *)

\* A step of the validator or the ranker leaves the files alone.
LEMMA CycleOnly ==
  ASSUME IndInv, CycleAlone
  PROVE  FilesTyped' /\ Downloads'
<1>1. FilesTyped'
  BY DEF IndInv, FilesTyped, CycleAlone, fileVars
<1>2. Downloads'
  BY DEF IndInv, Downloads, CycleAlone, fileVars
<1> QED
  BY <1>1, <1>2

\* A probe that negotiates after a step and did so before has no new slot.
LEMMA FewerSlots ==
  ASSUME IndInv,
         \A p \in Probes : task'[p].pc \in {"connect", "exchange"} => Negotiating(p)
  PROVE  SlotsKept'
<1>1. ASSUME NEW n \in Cycles
      PROVE  IsFiniteSet(Holders(n)') /\ Cardinality(Holders(n)') <= Concurrency
  <2>1. Holders(n)' \subseteq Holders(n)
    BY DEF Holders, Negotiating, Pc, Probes
  <2>2. IsFiniteSet(Holders(n)) /\ Cardinality(Holders(n)) <= Concurrency
    BY DEF IndInv, SlotsKept
  <2>3. /\ IsFiniteSet(Holders(n)') /\ Cardinality(Holders(n)') <= Cardinality(Holders(n))
        /\ Cardinality(Holders(n)') \in Nat /\ Cardinality(Holders(n)) \in Nat
    BY <2>1, <2>2, FS_Subset, FS_CardinalityType
  <2> QED
    BY <2>2, <2>3, ValidationAssumption
<1> QED
  BY <1>1 DEF SlotsKept

\* The tasks before a step, or none at all.
Fewer == task' = [p \in Probes |-> task'[p]] /\ \A p \in Probes : task'[p] \in {task[p], NoTask}

\* The probes that are left when a cycle ends are as they were.
LEMMA FewerProbes ==
  ASSUME IndInv, CycleAlone, Fewer
  PROVE  ProbesTyped' /\ SlotsKept' /\ ProbesAreRecent'
<1>1. ProbesTyped'
  BY DEF IndInv, ProbesTyped, TaskTyped, Fewer, NoTask
<1>2. SlotsKept'
  <2>1. \A p \in Probes : task'[p].pc \in {"connect", "exchange"} => Negotiating(p)
    BY DEF Fewer, NoTask, Negotiating, Pc
  <2> QED
    BY <2>1, FewerSlots
<1>3. ASSUME NEW p \in Probes PROVE TakenRecently(task[p])'
  <2>1. CASE task'[p] = task[p]
    BY <2>1 DEF IndInv, ProbesAreRecent, TakenRecently, CycleAlone, fileVars
  <2>2. CASE task'[p] = NoTask
    BY <2>2 DEF TakenRecently, NoTask
  <2> QED
    BY <2>1, <2>2 DEF Fewer
<1> QED
  BY <1>1, <1>2, <1>3 DEF ProbesAreRecent

\* No step of the validator withdraws credentials.
LEMMA StoresKeep ==
  ASSUME IndInv, CycleAlone, \A n \in Cycles : store'[n] \in {store[n], Fresh}
  PROVE  StoresAreRecent'
<1>1. ASSUME NEW n \in Cycles PROVE ReadRecently(store[n])'
  <2>1. CASE store'[n] = store[n]
    BY <2>1 DEF IndInv, StoresAreRecent, ReadRecently, CycleAlone, fileVars
  <2>2. CASE store'[n] = Fresh
    BY <2>2 DEF ReadRecently, Fresh
  <2> QED
    BY <2>1, <2>2
<1> QED
  BY <1>1 DEF StoresAreRecent

\* A cycle begins with a list of candidates.
LEMMA BeginStep ==
  ASSUME IndInv, Begin
  PROVE  IndInv'
<1>1. FilesTyped' /\ Downloads'
  BY CycleOnly DEF Begin
<1>2. CycleTyped'
  <2>1. listed' \in Seq(Candidates)
    BY CollectedTyped DEF Begin
  <2>2. cycle' \in 0 .. MaxCycles /\ cycle' \in Cycles
    BY ValidationAssumption DEF IndInv, CycleTyped, Begin, Cycles
  <2> QED
    BY <2>1, <2>2 DEF IndInv, CycleTyped, Begin, InCycle
<1>3. ProbesTyped' /\ PoolsTyped' /\ SlotsKept'
  BY DEF IndInv, ProbesTyped, PoolsTyped, SlotsKept, Holders, Negotiating, Pc, Begin, poolVars
<1>4. Opening' /\ AsnIsVerified'
  BY DEF IndInv, Opening, AsnIsVerified, Begin, CycleAlone, fileVars
<1>5. StoresAreRecent' /\ ProbesAreRecent'
  BY CredentialsKeep DEF Begin, CycleAlone, fileVars
<1> QED
  BY <1>1, <1>2, <1>3, <1>4, <1>5 DEF IndInv

\* The cycle goes on only with a database that is not stale.
LEMMA BaselineStep ==
  ASSUME IndInv, BaselineAnswers
  PROVE  IndInv'
<1>1. FilesTyped' /\ Downloads'
  BY CycleOnly DEF BaselineAnswers
<1>2. CycleTyped'
  <2>1. resolver' = [content |-> 0, mtime |-> Never, at |-> now]
    BY DEF BaselineAnswers, Closed
  <2>2. 0 \in 0 .. Bad /\ Never \in Times /\ now \in Times
    BY ValidationAssumption DEF IndInv, FilesTyped, Times, Never, Bad
  <2>3. resolver' \in [content : 0 .. Bad, mtime : Times, at : Times]
    BY <2>1, <2>2
  <2> QED
    BY <2>3 DEF IndInv, CycleTyped, BaselineAnswers, InCycle
<1>3. ProbesTyped' /\ PoolsTyped' /\ SlotsKept'
  BY DEF IndInv, ProbesTyped, PoolsTyped, SlotsKept, Holders, Negotiating, Pc, BaselineAnswers,
     poolVars
<1>4. AsnIsVerified'
  BY DEF IndInv, AsnIsVerified, BaselineAnswers, CycleAlone, fileVars
<1>5. StoresAreRecent' /\ ProbesAreRecent'
  BY CredentialsKeep DEF BaselineAnswers, CycleAlone, fileVars
<1>6. Opening'
  BY DEF IndInv, FilesTyped, Opening, BaselineAnswers, Usable, CycleAlone, fileVars
<1> QED
  BY <1>1, <1>2, <1>3, <1>4, <1>5, <1>6 DEF IndInv

\* What is opened may be newer than what was looked at, never older.
LEMMA OpenStep ==
  ASSUME IndInv, Open
  PROVE  IndInv'
<1>1. FilesTyped' /\ Downloads'
  BY CycleOnly DEF Open
<1>2. CycleTyped'
  <2>1. resolver' \in [content : 0 .. Bad, mtime : Times, at : Times]
    BY DEF IndInv, FilesTyped, CycleTyped, Open
  <2> QED
    BY <2>1 DEF IndInv, CycleTyped, Open, InCycle
<1>3. /\ task' = [p \in Probes |-> task'[p]]
      /\ \A p \in Probes : task'[p] \in {task[p], [pc |-> "queued"]}
  BY DEF Open
<1>4. ProbesTyped'
  BY <1>3 DEF IndInv, ProbesTyped, TaskTyped
<1>5. SlotsKept'
  <2>1. \A p \in Probes : task'[p].pc \in {"connect", "exchange"} => Negotiating(p)
    BY <1>3 DEF Negotiating, Pc
  <2> QED
    BY <2>1, FewerSlots
<1>6. PoolsTyped'
  BY DEF IndInv, PoolsTyped, Open, poolVars
<1>7. AsnIsVerified'
  <2>1. resolver'.content = db.content /\ resolver'.mtime = db.mtime /\ resolver'.at = resolver.at
        /\ upstream' = upstream
    BY DEF IndInv, CycleTyped, Open, CycleAlone, fileVars
  <2> QED
    BY <2>1 DEF IndInv, Downloads, Opening, AsnIsVerified, Open
<1>8. Opening'
  BY DEF IndInv, Opening, Open, CycleAlone, fileVars
<1>9. StoresAreRecent'
  BY StoresKeep DEF Open
<1>10. ProbesAreRecent'
  <2>1. ASSUME NEW p \in Probes PROVE TakenRecently(task[p])'
    <3>1. CASE task'[p] = task[p]
      BY <3>1 DEF IndInv, ProbesAreRecent, TakenRecently, Open, CycleAlone, fileVars
    <3>2. CASE task'[p] = [pc |-> "queued"]
      BY <3>2 DEF TakenRecently
    <3> QED
      BY <1>3, <3>1, <3>2
  <2> QED
    BY <2>1 DEF ProbesAreRecent
<1> QED
  BY <1>1, <1>2, <1>4, <1>5, <1>6, <1>7, <1>8, <1>9, <1>10 DEF IndInv

\* What a cycle publishes can be ranked.
LEMMA HealthyGradable ==
  ASSUME IndInv, stage = "probing"
  PROVE  Gradable(Healthy)
<1> DEFINE E == {EntryOf(c) : c \in {x \in Candidates : Pc(<<cycle, x>>) = "passed"}}
           L == Seq(E)
<1>1. ASSUME NEW c \in Candidates, Pc(<<cycle, c>>) = "passed" PROVE Scored(EntryOf(c))
  <2>1. /\ EntryOf(c).latency = task[<<cycle, c>>].latency
        /\ EntryOf(c).streak = Prior[AddressOf[c]] + 1
        /\ EntryOf(c).address = AddressOf[c]
    BY DEF EntryOf
  <2>2. <<cycle, c>> \in Probes
    BY DEF IndInv, CycleTyped, InCycle, Probes
  <2>3. task[<<cycle, c>>].latency \in Nat /\ AddressOf[c] \in Nat /\ Prior[AddressOf[c]] \in Nat
    BY <1>1, <2>2, ValidationAssumption DEF IndInv, ProbesTyped, TaskTyped, Pc
  <2> QED
    BY <2>1, <2>3 DEF Scored
<1>2. listed \in Seq(Candidates)
  BY DEF IndInv, CycleTyped
<1>3. <<>> \in L /\ Len(listed) \in Nat
  BY <1>2
<1>4. ASSUME NEW n \in 1 .. Len(listed), NEW l \in L PROVE Kept(l, listed[n]) \in L
  <2>1. listed[n] \in Candidates
    BY <1>2
  <2>2. Pc(<<cycle, listed[n]>>) = "passed" => EntryOf(listed[n]) \in E
    BY <2>1
  <2> HIDE DEF E
  <2> QED
    BY <2>2 DEF Kept
<1>5. \A e \in E : Scored(e)
  BY <1>1
<1> HIDE DEF E
<1>6. Healthy \in L
  <2> HIDE DEF L
  <2> QED
    BY <1>3, <1>4, HealthyIn
<1> QED
  BY <1>5, <1>6 DEF Gradable

\* A cycle that is left has no database, and of its probes and stores only what runs on.
LEMMA LeaveStep ==
  ASSUME IndInv, NEW to \in {"idle", "dead"}, Leave(to), Fewer, PoolsTyped',
         store' = [n \in Cycles |-> store'[n]], \A n \in Cycles : store'[n] \in {store[n], Fresh}
  PROVE  IndInv'
<1>1. FilesTyped' /\ Downloads'
  BY CycleOnly DEF Leave
<1>2. CycleTyped'
  <2>1. listed' \in Seq(Candidates) /\ stage' = to /\ cycle' = cycle
    BY DEF Leave
  <2>2. store' \in [Cycles -> Stores]
    <3>1. Fresh \in Stores
      BY ValidationAssumption DEF Fresh, Stores, Times, Never
    <3>2. \A n \in Cycles : store[n] \in Stores
      BY DEF IndInv, CycleTyped
    <3> HIDE DEF Stores, Fresh
    <3> QED
      BY <3>1, <3>2
  <2>3. resolver' \in [content : 0 .. Bad, mtime : Times, at : Times]
    BY ValidationAssumption DEF Leave, Closed, Times, Never, Bad
  <2> QED
    BY <2>1, <2>2, <2>3 DEF IndInv, CycleTyped, InCycle
<1>3. ProbesTyped' /\ SlotsKept' /\ ProbesAreRecent'
  BY FewerProbes DEF Leave
<1>4. StoresAreRecent'
  BY StoresKeep DEF Leave
<1>5. Opening' /\ AsnIsVerified'
  BY DEF Leave, Opening, AsnIsVerified
<1> QED
  BY <1>1, <1>2, <1>3, <1>4, <1>5 DEF IndInv

\* The four ways a cycle ends without a snapshot, and the one with it.
LEMMA EndStep ==
  ASSUME IndInv,
         CycleFails \/ BaselineCutShort \/ HeadersOverrun \/ RestartWorker \/ PublishValidated
  PROVE  IndInv'
<1>1. Leave("idle") \/ Leave("dead")
  BY DEF CycleFails, BaselineCutShort, HeadersOverrun, Die, RestartWorker, PublishValidated
<1>2. PoolsTyped'
  <2>1. CASE PublishValidated
    <3>1. published' \in BOOLEAN /\ reserve' = reserve /\ active' = active
      BY <2>1 DEF PublishValidated
    <3>2. Gradable(validated')
      BY <2>1, HealthyGradable DEF PublishValidated
    <3> QED
      BY <3>1, <3>2 DEF IndInv, PoolsTyped
  <2>2. CASE ~PublishValidated
    BY <2>2 DEF IndInv, PoolsTyped, CycleFails, BaselineCutShort, HeadersOverrun, Die,
       RestartWorker, poolVars
  <2> QED
    BY <2>1, <2>2
<1>3. Fewer
  <2>1. task = [p \in Probes |-> task[p]]
    BY DEF IndInv, ProbesTyped
  <2>2. \/ task' = task \/ task' = [p \in Probes |-> NoTask]
        \/ \E gone : task' = Remaining(gone)
    BY DEF CycleFails, BaselineCutShort, HeadersOverrun, Die, RestartWorker, PublishValidated
  <2>3. CASE task' = task
    BY <2>1, <2>3 DEF Fewer
  <2>4. CASE task' = [p \in Probes |-> NoTask]
    BY <2>4 DEF Fewer
  <2>5. ASSUME NEW gone, task' = Remaining(gone) PROVE Fewer
    BY <2>5 DEF Remaining, Fewer
  <2> QED
    BY <2>2, <2>3, <2>4, <2>5
<1>4. store' = [n \in Cycles |-> store'[n]] /\ \A n \in Cycles : store'[n] \in {store[n], Fresh}
  BY DEF IndInv, CycleTyped, CycleFails, BaselineCutShort, HeadersOverrun, Die, RestartWorker,
     PublishValidated
<1> QED
  BY <1>1, <1>2, <1>3, <1>4, LeaveStep

\* What the ranker publishes has the size of the settings.
LEMMA RankStep ==
  ASSUME IndInv, Rank
  PROVE  IndInv'
<1>1. FilesTyped' /\ Downloads'
  BY CycleOnly DEF Rank
<1>2. PoolsTyped'
  <2>1. /\ RankEntries(validated) \in Seq(EntriesOf(validated))
        /\ Len(RankEntries(validated)) <= ReserveSize
    BY RankedWell DEF IndInv, PoolsTyped
  <2>2. Len(SelectActive(RankEntries(validated))) <= PoolSize
    BY <2>1, ActiveIsFair DEF CappedFairly
  <2> QED
    BY <2>1, <2>2 DEF IndInv, PoolsTyped, Rank
<1>3. CycleTyped' /\ ProbesTyped' /\ SlotsKept' /\ Opening' /\ AsnIsVerified'
  BY DEF IndInv, CycleTyped, ProbesTyped, SlotsKept, Holders, Negotiating, Pc, Opening,
     AsnIsVerified, Rank, CycleAlone, fileVars, cycleVars
<1>4. StoresAreRecent' /\ ProbesAreRecent'
  BY CredentialsKeep DEF Rank, CycleAlone, fileVars, cycleVars
<1> QED
  BY <1>1, <1>2, <1>3, <1>4 DEF IndInv

\* Time passes: what was seen, read or withdrawn is only longer ago.
LEMMA TickStep ==
  ASSUME IndInv, Tick
  PROVE  IndInv'
<1>1. FilesTyped'
  BY ValidationAssumption DEF IndInv, FilesTyped, Tick, fileVars
<1>2. CycleTyped' /\ ProbesTyped' /\ PoolsTyped' /\ SlotsKept' /\ Downloads' /\ AsnIsVerified'
  BY DEF IndInv, CycleTyped, ProbesTyped, PoolsTyped, SlotsKept, Holders, Negotiating, Pc, Downloads,
     AsnIsVerified, Tick, fileVars, cycleVars, poolVars
<1>3. now \in Int /\ now' = now + 1 /\ resolver.at \in Int
  BY DEF IndInv, FilesTyped, CycleTyped, Times, Tick
<1>4. Opening'
  BY <1>3 DEF IndInv, Opening, Tick, fileVars, cycleVars
<1>5. StoresAreRecent'
  <2>1. ASSUME NEW n \in Cycles PROVE ReadRecently(store[n])'
    <3>1. store[n].at \in Int
      BY DEF IndInv, CycleTyped, Stores, Times
    <3> QED
      BY <1>3, <3>1 DEF IndInv, StoresAreRecent, ReadRecently, Tick, fileVars, cycleVars
  <2> QED
    BY <2>1 DEF StoresAreRecent
<1>6. ProbesAreRecent'
  BY <1>3 DEF IndInv, ProbesAreRecent, TakenRecently, Tick, fileVars, cycleVars
<1> QED
  BY <1>1, <1>2, <1>4, <1>5, <1>6 DEF IndInv

----------------------------------------------------------------------------
(* The probes. *)

\* A step of one probe moves no other.
LEMMA OneTask ==
  ASSUME IndInv, NEW p \in Probes, NEW value, SetTask(p, value)
  PROVE  task' = [q \in Probes |-> IF q = p THEN value ELSE task[q]]
  BY DEF IndInv, ProbesTyped, SetTask

\* A step of one probe: the files, the stage and the pools stay.
LEMMA ProbeKeeps ==
  ASSUME IndInv, ProbeAlone, NEW p \in Probes, NEW value, SetTask(p, value),
         TaskTyped(value), TakenRecently(value), store' \in [Cycles -> Stores]
  PROVE  /\ FilesTyped' /\ CycleTyped' /\ ProbesTyped' /\ PoolsTyped'
         /\ Downloads' /\ Opening' /\ AsnIsVerified' /\ ProbesAreRecent'
<1>1. FilesTyped' /\ Downloads'
  BY CycleOnly DEF ProbeAlone
<1>2. CycleTyped' /\ PoolsTyped'
  BY DEF IndInv, CycleTyped, PoolsTyped, ProbeAlone, poolVars
<1>3. ProbesTyped'
  BY OneTask DEF IndInv, ProbesTyped, TaskTyped
<1>4. Opening' /\ AsnIsVerified'
  BY DEF IndInv, Opening, AsnIsVerified, ProbeAlone, CycleAlone, fileVars
<1>5. ProbesAreRecent'
  <2>1. ASSUME NEW q \in Probes PROVE TakenRecently(task[q])'
    <3>1. task'[q] \in {task[q], value}
      BY OneTask
    <3>2. CASE task'[q] = task[q]
      BY <3>2 DEF IndInv, ProbesAreRecent, TakenRecently, ProbeAlone, CycleAlone, fileVars
    <3>3. CASE task'[q] = value
      BY <3>3 DEF TakenRecently, ProbeAlone, CycleAlone, fileVars
    <3> QED
      BY <3>1, <3>2, <3>3
  <2> QED
    BY <2>1 DEF ProbesAreRecent
<1> QED
  BY <1>1, <1>2, <1>3, <1>4, <1>5

\* A probe that has a slot, or gets none, takes no other.
LEMMA SlotReturned ==
  ASSUME IndInv, NEW p \in Probes, NEW value, SetTask(p, value),
         value.pc \in {"connect", "exchange"} => Negotiating(p)
  PROVE  SlotsKept'
<1>1. \A q \in Probes : task'[q].pc \in {"connect", "exchange"} => Negotiating(q)
  BY OneTask DEF Negotiating, Pc
<1> QED
  BY <1>1, FewerSlots

\* A probe that gets a slot finds one free in the semaphore of its cycle.
LEMMA SlotTaken ==
  ASSUME IndInv, NEW p \in Probes, GetsSlot(p), NEW value, SetTask(p, value)
  PROVE  SlotsKept'
<1>1. CASE value.pc \notin {"connect", "exchange"}
  BY <1>1, SlotReturned
<1>2. CASE value.pc \in {"connect", "exchange"}
  <2>1. PICK m \in Cycles, c \in Candidates : p = <<m, c>>
    BY DEF Probes
  <2>2. task' = [q \in Probes |-> IF q = p THEN value ELSE task[q]]
    BY OneTask
  <2>3. ASSUME NEW n \in Cycles, n # m PROVE Holders(n)' = Holders(n)
    <3>1. \A e \in Candidates : <<n, e>> \in Probes /\ <<n, e>> # p
      BY <2>1, <2>3 DEF Probes
    <3> QED
      BY <2>2, <3>1 DEF Holders, Negotiating, Pc
  <2>4. Holders(m)' = Holders(m) \cup {c} /\ c \notin Holders(m)
    <3>1. \A e \in Candidates : <<m, e>> \in Probes /\ (<<m, e>> = p <=> e = c)
      BY <2>1 DEF Probes
    <3>2. \A e \in Candidates : task'[<<m, e>>] = IF e = c THEN value ELSE task[<<m, e>>]
      BY <2>2, <3>1
    <3>3. ~Negotiating(<<m, c>>)
      BY <2>1 DEF GetsSlot, Negotiating
    <3> QED
      BY <1>2, <3>2, <3>3 DEF Holders, Negotiating, Pc
  <2>5. IsFiniteSet(Holders(m)) /\ Cardinality(Holders(m)) \in Nat
    BY FS_CardinalityType DEF IndInv, SlotsKept
  <2>6. IsFiniteSet(Holders(m)') /\ Cardinality(Holders(m)') = Cardinality(Holders(m)) + 1
    BY <2>4, <2>5, FS_AddElement
  <2>7. Cardinality(Holders(m)) < Concurrency
    BY <2>1 DEF GetsSlot, SlotsTaken, Holders
  <2>8. Cardinality(Holders(m)') <= Concurrency
    BY <2>5, <2>6, <2>7, ValidationAssumption
  <2> QED
    BY <2>3, <2>6, <2>8 DEF IndInv, SlotsKept
<1> QED
  BY <1>1, <1>2

\* Credentials of a store that is younger than the interval are in the file, or were
\* less than the interval ago.
LEMMA CachedRecently ==
  ASSUME IndInv, NEW p \in Probes, ~ReloadDue(p)
  PROVE  TakenRecently(Connecting(Store(p).version))
<1> DEFINE s == Store(p)
           v == Store(p).version
<1>1. s.at # Never /\ s \in Stores /\ ReadRecently(s)
  BY DEF IndInv, CycleTyped, StoresAreRecent, ReloadDue, Store, Probes
<1>2. /\ s.at \in Nat /\ now \in Nat /\ ReloadInterval \in Nat
      /\ s.at <= now /\ v \in Versions
  BY <1>1, ValidationAssumption DEF IndInv, FilesTyped, ReadRecently, Stores, Times, Never
<1>3. now - s.at < ReloadInterval
  BY <1>1, <1>2 DEF ReloadDue
<1>4. retired[v] \in Times
  BY <1>2 DEF IndInv, FilesTyped
<1>5. \/ secrets.whole /\ v = secrets.version
      \/ retired[v] # Never /\ now - retired[v] < ReloadInterval
  <2>1. CASE secrets.whole /\ v = secrets.version
    BY <2>1
  <2>2. CASE s.at <= retired[v]
    <3>1. retired[v] \in Int
      BY <1>4 DEF Times
    <3> QED
      BY <1>2, <1>3, <2>2, <3>1 DEF Never
  <2> QED
    BY <1>1, <2>1, <2>2 DEF ReadRecently
<1> QED
  BY <1>2, <1>5 DEF TakenRecently, Connecting

\* A probe starts without credentials, or with ones that were in the file recently.
LEMMA Starts ==
  ASSUME IndInv, NEW p \in Probes, StartProbe(p)
  PROVE  \E value : SetTask(p, value) /\ TaskTyped(value) /\ TakenRecently(value)
<1>1. ASSUME NEW auth, TakenRecently(Connecting(auth)),
             SetTask(p, Connecting(auth)) \/ SetTask(p, [pc |-> "failed"])
      PROVE  \E value : SetTask(p, value) /\ TaskTyped(value) /\ TakenRecently(value)
  <2>1. TaskTyped(Connecting(auth)) /\ TaskTyped([pc |-> "failed"])
    BY DEF TaskTyped, Connecting
  <2>2. TakenRecently([pc |-> "failed"])
    BY DEF TakenRecently
  <2> QED
    BY <1>1, <2>1, <2>2
<1>2. now \in Nat /\ secrets.version \in Versions
  BY DEF IndInv, FilesTyped
<1>3. TakenRecently(Connecting(0))
  BY DEF TakenRecently, Connecting
<1>4. CASE StartAnonymous(p)
  BY <1>1, <1>3, <1>4 DEF StartAnonymous
<1>5. CASE StartCached(p)
  BY <1>1, <1>5, CachedRecently DEF StartCached, Get
<1>6. CASE StartReloaded(p)
  <2>1. TakenRecently(Connecting(secrets.version))
    BY <1>2, <1>6 DEF StartReloaded, TakenRecently, Connecting
  <2> QED
    BY <1>1, <1>6, <2>1 DEF StartReloaded, Get
<1>7. CASE StartRefused(p)
  BY <1>1, <1>3, <1>7 DEF StartRefused
<1> QED
  BY <1>4, <1>5, <1>6, <1>7 DEF StartProbe

\* What a start leaves in the store of its cycle is what was there, or the file.
LEMMA StartStep ==
  ASSUME IndInv, NEW p \in Probes, StartProbe(p)
  PROVE  IndInv'
<1>1. PICK value : SetTask(p, value) /\ TaskTyped(value) /\ TakenRecently(value)
  BY Starts
<1>2. ProbeAlone /\ GetsSlot(p)
  BY DEF StartProbe, StartAnonymous, StartCached, StartReloaded, StartRefused
<1>3. \/ store' = store
      \/ /\ secrets.whole
         /\ store' = [store EXCEPT ![p[1]] = [at |-> now, version |-> secrets.version]]
  BY DEF StartProbe, StartAnonymous, StartCached, StartReloaded, StartRefused, ReloadFailed
<1>4. store' \in [Cycles -> Stores]
  <2>1. /\ store \in [Cycles -> Stores] /\ p[1] \in Cycles
        /\ secrets.version \in Versions /\ now \in 0 .. MaxNow
    BY DEF IndInv, FilesTyped, CycleTyped, Probes
  <2>2. [at |-> now, version |-> secrets.version] \in Stores
    BY <2>1, ValidationAssumption DEF Stores, Times, Never
  <2> QED
    BY <1>3, <2>1, <2>2
<1>5. StoresAreRecent'
  <2>1. ASSUME NEW n \in Cycles PROVE ReadRecently(store[n])'
    <3>1. \/ store'[n] = store[n]
          \/ secrets.whole /\ store'[n] = [at |-> now, version |-> secrets.version]
      BY <1>3 DEF IndInv, CycleTyped
    <3> QED
      BY <1>2, <3>1 DEF IndInv, FilesTyped, StoresAreRecent, ReadRecently, ProbeAlone, CycleAlone,
         fileVars
  <2> QED
    BY <2>1 DEF StoresAreRecent
<1> QED
  BY <1>1, <1>2, <1>4, <1>5, ProbeKeeps, SlotTaken DEF IndInv

\* A probe that negotiates has its slot, and one that has ended gives it back.
LEMMA Continues ==
  ASSUME NEW p \in Probes, Offer(p) \/ EndProbe(p)
  PROVE  \E value :
           /\ SetTask(p, value) /\ TaskTyped(value) /\ TakenRecently(value)
           /\ value.pc = "exchange" => Offer(p)
           /\ value.pc # "connect"
<1>1. CASE Offer(p)
  <2>1. SetTask(p, [task[p] EXCEPT !.pc = "exchange"]) /\ task[p].pc = "connect"
    BY <1>1 DEF Offer, Pc
  <2>2. PICK value : SetTask(p, value) /\ value = [task[p] EXCEPT !.pc = "exchange"]
    BY <2>1
  <2>3. value.pc = "exchange"
    BY <2>1, <2>2
  <2> QED
    BY <1>1, <2>2, <2>3 DEF TaskTyped, TakenRecently
<1>2. CASE ProbeAnswered(p)
  <2>1. PICK seen \in Outcomes[p[2]] :
          SetTask(p, IF Anonymous(seen)
                     THEN [pc |-> "passed", exit |-> seen.exit, latency |-> seen.latency]
                     ELSE [pc |-> "failed"])
    BY <1>2 DEF ProbeAnswered
  <2>2. seen.latency \in Nat
    BY ValidationAssumption DEF Probes
  <2> QED
    BY <2>1, <2>2 DEF TaskTyped, TakenRecently
<1>3. CASE ProbeFails(p)
  BY <1>3 DEF ProbeFails, TaskTyped, TakenRecently
<1> QED
  BY <1>1, <1>2, <1>3 DEF EndProbe

\* A probe that goes on or ends leaves the credentials it was given.
LEMMA ContinueStep ==
  ASSUME IndInv, NEW p \in Probes, Offer(p) \/ EndProbe(p)
  PROVE  IndInv'
<1>1. PICK value :
        /\ SetTask(p, value) /\ TaskTyped(value) /\ TakenRecently(value)
        /\ value.pc = "exchange" => Offer(p)
        /\ value.pc # "connect"
  BY Continues
<1>2. ProbeAlone /\ store' = store
  BY DEF Offer, EndProbe, ProbeAnswered, ProbeFails
<1>3. store' \in [Cycles -> Stores]
  BY <1>2 DEF IndInv, CycleTyped
<1>4. StoresAreRecent'
  BY <1>2, StoresKeep DEF ProbeAlone
<1>5. SlotsKept'
  BY <1>1, SlotReturned DEF Offer, Negotiating
<1> QED
  BY <1>1, <1>2, <1>3, <1>4, <1>5, ProbeKeeps DEF IndInv

----------------------------------------------------------------------------
(* The theorems. *)

\* Every step keeps the invariant.
LEMMA Inductive == Spec => []IndInv
<1>1. IndInv /\ [Next]_vars => IndInv'
  <2> SUFFICES ASSUME IndInv, [Next]_vars PROVE IndInv'
    OBVIOUS
  <2>1. CASE FilesNext
    BY <2>1, SecretsStep, ReleaseStep, UpdaterStep DEF FilesNext
  <2>2. CASE Tick
    BY <2>2, TickStep
  <2>3. CASE Begin \/ BaselineAnswers \/ Open
    BY <2>3, BeginStep, BaselineStep, OpenStep
  <2>4. CASE CycleFails \/ BaselineCutShort \/ HeadersOverrun \/ RestartWorker \/ PublishValidated
    BY <2>4, EndStep
  <2>5. CASE \E p \in Probes : StartProbe(p) \/ Offer(p) \/ EndProbe(p)
    BY <2>5, StartStep, ContinueStep
  <2>6. CASE Rank
    BY <2>6, RankStep
  <2>7. CASE UNCHANGED vars
    BY <2>7 DEF vars, fileVars, cycleVars, poolVars, IndInv, FilesTyped, CycleTyped, ProbesTyped,
       PoolsTyped, SlotsKept, Holders, Negotiating, Pc, Downloads, Opening, AsnIsVerified,
       StoresAreRecent, ReadRecently, ProbesAreRecent, TakenRecently
  <2> QED
    BY <2>1, <2>2, <2>3, <2>4, <2>5, <2>6, <2>7 DEF Next
<1> QED
  BY <1>1, InitInv, PTL DEF Spec

\* Types, and of each cycle no more negotiations at once than VALIDATION_CONCURRENCY, for
\* any number of cycles, candidates, versions and databases (validator.py:77).
THEOREM ValidationTypeOK == Spec => []TypeOK
<1>1. IndInv => TypeOK
  <2> SUFFICES ASSUME IndInv PROVE TypeOK
    OBVIOUS
  <2>1. store \in [Cycles -> [at : Times, version : {0} \cup Versions]]
    BY DEF IndInv, CycleTyped, Stores
  <2>2. ASSUME NEW i \in DOMAIN listed PROVE listed[i] \in Candidates
    BY DEF IndInv, CycleTyped
  <2>3. ASSUME NEW p \in Probes
        PROVE  Pc(p) \in {"none", "queued", "connect", "exchange", "passed", "failed"}
    BY DEF IndInv, ProbesTyped, TaskTyped, Pc
  <2>4. ASSUME NEW n \in Cycles
        PROVE  Cardinality({c \in Candidates : Negotiating(<<n, c>>)}) <= Concurrency
    BY DEF IndInv, SlotsKept, Holders
  <2> QED
    BY <2>1, <2>2, <2>3, <2>4 DEF IndInv, FilesTyped, CycleTyped, PoolsTyped, TypeOK
<1> QED
  BY <1>1, Inductive, PTL

\* The database that names the networks of a cycle was released whole, and was not stale
\* when the cycle looked (asn_updater.py:46, asn_resolver.py:40).
THEOREM ValidationAsn == Spec => []AsnIsVerified
<1>1. IndInv => AsnIsVerified
  BY DEF IndInv
<1> QED
  BY <1>1, Inductive, PTL

\* What is offered was taken within the timeout.
LEMMA OfferIsRecent ==
  ASSUME IndInv, NEW p \in Probes, Offer(p), task[p].auth # 0
  PROVE  \/ secrets.whole /\ task[p].auth = secrets.version
         \/ /\ retired[task[p].auth] # Never
            /\ now - retired[task[p].auth] < ReloadInterval + Timeout
<1>1. /\ task[p].auth \in Versions /\ task[p].since \in 0 .. now
      /\ \/ secrets.whole /\ task[p].auth = secrets.version
         \/ /\ retired[task[p].auth] # Never
            /\ task[p].since - retired[task[p].auth] < ReloadInterval
  BY DEF IndInv, ProbesAreRecent, TakenRecently, Offer, Pc
<1>2. retired[task[p].auth] \in Times
  BY <1>1 DEF IndInv, FilesTyped
<1>3. /\ retired[task[p].auth] \in Int /\ now \in Int /\ task[p].since \in Int
      /\ ReloadInterval \in Int /\ Timeout \in Int
  BY <1>1, <1>2, ValidationAssumption DEF IndInv, FilesTyped, Times
<1>4. now - task[p].since <= Timeout
  BY DEF Offer, InTime
<1> QED
  BY <1>1, <1>3, <1>4

\* A proxy is offered only credentials that are in the file, or were less than the reload
\* interval and the timeout of a probe ago (credentials.py:37, proxy_probe.py:317).
THEOREM ValidationAuth == Spec => AuthIsRecent
<1> DEFINE Recent ==
      \A p \in Probes :
        LET auth == task[p].auth
        IN  Pc(p) = "connect" /\ task'[p].pc = "exchange" /\ auth # 0 =>
              \/ secrets.whole /\ auth = secrets.version
              \/ retired[auth] # Never /\ now - retired[auth] < ReloadInterval + Timeout
<1>1. IndInv /\ [Next]_vars => [Recent]_vars
  <2> SUFFICES ASSUME IndInv, Next, NEW p \in Probes,
                      Pc(p) = "connect", task'[p].pc = "exchange", task[p].auth # 0
               PROVE  \/ secrets.whole /\ task[p].auth = secrets.version
                      \/ /\ retired[task[p].auth] # Never
                         /\ now - retired[task[p].auth] < ReloadInterval + Timeout
    OBVIOUS
  <2>1. task'[p] # task[p] /\ task'[p] # NoTask
    BY DEF Pc, NoTask
  <2>2. ASSUME NEW gone PROVE task' # Remaining(gone)
    BY <2>1 DEF Remaining
  <2>3. ~(CycleFails \/ BaselineCutShort \/ HeadersOverrun \/ PublishValidated)
    BY <2>1, <2>2 DEF CycleFails, BaselineCutShort, HeadersOverrun, Die, PublishValidated
  <2>4. ~Open
    BY <2>1 DEF Open
  <2>5. PICK q \in Probes : StartProbe(q) \/ Offer(q) \/ EndProbe(q)
    BY <2>1, <2>3, <2>4 DEF Next, FilesNext, ReplaceSecrets, TruncateSecrets, WriteSecrets,
       Release, FetchChecksum, ChecksumEmpty, FetchDatabase, Install, UpdateFails, RestartUpdater,
       UpdaterAlone, Tick, Begin, BaselineAnswers, RestartWorker, Rank, cycleVars
  <2>6. CASE StartProbe(q)
    <3>1. Pc(q) = "queued"
      BY <2>6 DEF StartProbe, StartAnonymous, StartCached, StartReloaded, StartRefused, GetsSlot
    <3>2. PICK value : SetTask(q, value)
      BY <2>6, Starts
    <3> QED
      BY <2>1, <3>1, <3>2, OneTask DEF Pc
  <2>7. CASE Offer(q) \/ EndProbe(q)
    <3>1. PICK value : SetTask(q, value) /\ (value.pc = "exchange" => Offer(q))
      BY <2>7, Continues
    <3>2. task'[p] = IF p = q THEN value ELSE task[p]
      BY <3>1, OneTask
    <3>3. p = q /\ value.pc = "exchange"
      BY <2>1, <3>2
    <3> QED
      BY <3>1, <3>3, OfferIsRecent
  <2> QED
    BY <2>5, <2>6, <2>7
<1> QED
  BY <1>1, Inductive, PTL DEF AuthIsRecent, Spec

\* Whatever the cycle before has published, the ranker publishes it in the order of its
\* scores, leaves out nothing better, and the cap on unknown ASNs keeps no verified entry
\* out of the active pool (ranking.py:70, ranking.py:105).
THEOREM ValidationRanked == Spec => PoolsAreRanked
<1> DEFINE Ranked ==
      reserve' # reserve \/ active' # active =>
        /\ OrderedByScore(validated, reserve') /\ BetterTwinFirst(reserve')
        /\ CappedFairly(reserve', active')
<1>1. IndInv /\ [Next]_vars => [Ranked]_vars
  <2> SUFFICES ASSUME IndInv, Next, reserve' # reserve \/ active' # active
               PROVE  /\ OrderedByScore(validated, reserve') /\ BetterTwinFirst(reserve')
                      /\ CappedFairly(reserve', active')
    OBVIOUS
  <2>1. Rank
    BY DEF Next, FilesNext, ReplaceSecrets, TruncateSecrets, WriteSecrets, Release, FetchChecksum,
       ChecksumEmpty, FetchDatabase, Install, UpdateFails, RestartUpdater, UpdaterAlone, Tick,
       Begin, BaselineAnswers, Open, CycleFails, BaselineCutShort, HeadersOverrun, Die,
       RestartWorker, StartProbe, StartAnonymous, StartCached, StartReloaded, StartRefused, Offer,
       EndProbe, ProbeAnswered, ProbeFails, ProbeAlone, PublishValidated, poolVars
  <2>2. /\ reserve' = RankEntries(validated)
        /\ active' = SelectActive(RankEntries(validated))
    BY <2>1 DEF Rank
  <2>3. /\ RankEntries(validated) \in Seq(EntriesOf(validated))
        /\ OrderedByScore(validated, RankEntries(validated))
        /\ BetterTwinFirst(RankEntries(validated))
    BY RankedWell DEF IndInv, PoolsTyped
  <2>4. CappedFairly(RankEntries(validated), SelectActive(RankEntries(validated)))
    BY <2>3, ActiveIsFair
  <2> QED
    BY <2>2, <2>3, <2>4
<1> QED
  BY <1>1, Inductive, PTL DEF PoolsAreRanked, Spec

=============================================================================

------------------------- MODULE EgressRelay_proofs -------------------------
(* Proofs about EgressRelay, for any number of clients, upstreams, snapshots *)
(* and any values of the timing parameters.                                  *)
EXTENDS EgressRelay, FiniteSetTheorems, TLAPS

\* The operators that only abbreviate parts of actions are always expanded.
USE DEF choiceVars, Move, Refuse, Forget, ChooseFromOld, ReadRedis, Succeed

----------------------------------------------------------------------------
(* The inductive invariant: what the location of a handler says about it. *)

Choosing(c) == pc[c] \in {"choose", "refresh", "apply"}

WithCandidate(c) == pc[c] \in {"probe", "connect", "failed", "opened", "reply", "tunnel"}

\* A choosing handler has budget left; a negotiating one has a candidate.
BudgetLeft ==
  \A c \in Clients :
    /\ pc[c] \in {"idle", "header"} => attempts[c] = 0
    /\ Choosing(c) => attempts[c] < Attempts

HasCandidate == \A c \in Clients : WithCandidate(c) => cand[c] \in tried[c]

\* A snapshot on its way to the pool is at least as recent as the pool's.
FetchedIsRecent ==
  /\ pool <= store
  /\ \A c \in Clients :
       /\ fetched[c] <= store
       /\ pc[c] = "apply" /\ fetched[c] # 0 => pool <= fetched[c]

\* Past the probe of a port-53 request the candidate has answered one.
ProbedBeforeUse ==
  \A c \in Clients :
    /\ pc[c] \in {"connect", "opened"} /\ port[c] = DnsPort => cand[c] \in proven
    /\ 200 \in answers[c] => pc[c] \in {"reply", "tunnel", "closed"}

TriedIsFinite == \A c \in Clients : IsFiniteSet(tried[c])

IndInv ==
  /\ TypeOK /\ LockHeldByRefresh
  /\ BudgetLeft /\ HasCandidate /\ FetchedIsRecent
  /\ TriedIsFinite /\ AttemptsAreDistinct
  /\ ProbedBeforeUse /\ CapableWasProven /\ DnsTunnelIsProven

----------------------------------------------------------------------------
(* The choice of an upstream. *)

\* Every entry in use is an address.
LEMMA EntryType ==
  ASSUME NEW v \in Versions, NEW i \in 1 .. EntryCount(v)
  PROVE  Entry(v, i) \in Addresses
<1>1. CASE v = 0
  BY <1>1 DEF EntryCount
<1>2. CASE v # 0
  <2>1. v \in 1 .. Len(Snapshots)
    BY <1>2, ConstantsAssumption DEF Versions
  <2>2. Snapshots[v] \in Seq(Addresses)
    BY <2>1, ConstantsAssumption
  <2>3. i \in 1 .. Len(Snapshots[v])
    BY <1>2, <2>2, ConstantsAssumption DEF EntryCount
  <2> QED
    BY <2>2, <2>3 DEF Entry
<1> QED
  BY <1>1, <1>2

\* What one choice does to its handler: either the handler negotiates with an
\* address it had not tried, or it is answered and closed.
LEMMA SelectStep ==
  ASSUME IndInv, NEW c \in Clients, NEW v \in Versions, NEW cap,
         Choosing(c), Select(c, v, cap)
  PROVE  /\ index' \in Nat
         /\ pc' \in [Clients -> Stages]
         /\ cand' \in [Clients -> Addresses \cup {NoUpstream}]
         /\ tried' \in [Clients -> SUBSET Addresses]
         /\ attempts' \in [Clients -> 0 .. Attempts]
         /\ answers' \in [Clients -> SUBSET {200, 502}]
         /\ \A d \in Clients \ {c} :
              /\ pc'[d] = pc[d] /\ cand'[d] = cand[d] /\ tried'[d] = tried[d]
              /\ attempts'[d] = attempts[d] /\ answers'[d] = answers[d]
         /\ IsFiniteSet(tried'[c]) /\ Cardinality(tried'[c]) = attempts'[c]
         /\ 200 \notin answers'[c]
         /\ \/ pc'[c] = "closed"
            \/ pc'[c] = (IF port[c] = DnsPort THEN "probe" ELSE "connect")
               /\ cand'[c] \in tried'[c]
<1> USE DEF IndInv, TypeOK
<1>0. 200 \notin answers[c] /\ attempts[c] < Attempts
  BY DEF ProbedBeforeUse, BudgetLeft, Choosing
<1>1. CASE SelectNone(c, v)
  <2>1. /\ answers' = [answers EXCEPT ![c] = @ \cup {502}]
        /\ pc' = [pc EXCEPT ![c] = "closed"]
        /\ UNCHANGED <<index, cand, tried, attempts>>
    BY <1>1 DEF SelectNone, Answer502, Goto
  <2> QED
    BY <1>0, <2>1 DEF Stages, TriedIsFinite, AttemptsAreDistinct
<1>2. CASE SelectEntry(c, v, cap)
  <2>1. PICK i \in Eligible(c, v) :
          /\ index' = index + 1
          /\ cand' = [cand EXCEPT ![c] = Entry(v, i)]
          /\ tried' = [tried EXCEPT ![c] = @ \cup {Entry(v, i)}]
          /\ attempts' = [attempts EXCEPT ![c] = @ + 1]
          /\ pc' = [pc EXCEPT ![c] = IF port[c] = DnsPort THEN "probe" ELSE "connect"]
          /\ UNCHANGED answers
    BY <1>2 DEF SelectEntry, Goto
  <2>2. i \in 1 .. EntryCount(v) /\ Entry(v, i) \notin tried[c]
    BY DEF Eligible
  <2>3. Entry(v, i) \in Addresses
    BY <2>2, EntryType
  <2>4. IsFiniteSet(tried[c]) /\ Cardinality(tried[c]) = attempts[c]
    BY DEF TriedIsFinite, AttemptsAreDistinct
  <2>5. /\ IsFiniteSet(tried[c] \cup {Entry(v, i)})
        /\ Cardinality(tried[c] \cup {Entry(v, i)}) = attempts[c] + 1
    BY <2>2, <2>4, FS_AddElement
  <2>6. attempts[c] + 1 \in 0 .. Attempts
    BY <1>0, ConstantsAssumption
  <2> QED
    BY <1>0, <2>1, <2>3, <2>5, <2>6 DEF Stages
<1> QED
  BY <1>1, <1>2 DEF Select

----------------------------------------------------------------------------
LEMMA InitIndInv == Init => IndInv
<1> SUFFICES ASSUME Init PROVE IndInv
  OBVIOUS
<1> USE ConstantsAssumption DEF Init
<1>1. TypeOK
  BY DEF TypeOK, Versions, Stages
<1>2. TriedIsFinite /\ AttemptsAreDistinct
  BY FS_EmptySet DEF TriedIsFinite, AttemptsAreDistinct
<1>3. LockHeldByRefresh /\ BudgetLeft /\ HasCandidate /\ FetchedIsRecent
  BY DEF LockHeldByRefresh, BudgetLeft, HasCandidate, FetchedIsRecent, Choosing,
         WithCandidate
<1>4. ProbedBeforeUse /\ CapableWasProven /\ DnsTunnelIsProven
  BY DEF ProbedBeforeUse, CapableWasProven, DnsTunnelIsProven
<1> QED
  BY <1>1, <1>2, <1>3, <1>4 DEF IndInv

----------------------------------------------------------------------------
(* Preservation.  Actions that neither choose nor record leave the Pool alone; *)
(* the SMT backend takes each of them whole.                                   *)

LEMMA SelectingIndInv ==
  ASSUME IndInv, NEW c \in Clients, ChooseCached(c) \/ RefreshApply(c) \/ RefreshFails(c)
  PROVE  IndInv'
<1> USE DEF IndInv, TypeOK
<1>1. Choosing(c)
  BY DEF ChooseCached, RefreshApply, RefreshFails, Choosing
<1>2. PICK v \in Versions, cap \in SUBSET Addresses : Select(c, v, cap) /\ v = pool'
  <2>1. CASE ChooseCached(c) \/ RefreshFails(c)
    BY <2>1 DEF ChooseCached, RefreshFails
  <2>2. CASE RefreshApply(c)
    BY <2>2, ConstantsAssumption DEF RefreshApply
  <2> QED
    BY <2>1, <2>2
<1> DEFINE Chosen == /\ index' \in Nat
                     /\ pc' \in [Clients -> Stages]
                     /\ cand' \in [Clients -> Addresses \cup {NoUpstream}]
                     /\ tried' \in [Clients -> SUBSET Addresses]
                     /\ attempts' \in [Clients -> 0 .. Attempts]
                     /\ answers' \in [Clients -> SUBSET {200, 502}]
           Others == \A d \in Clients \ {c} :
                        /\ pc'[d] = pc[d] /\ cand'[d] = cand[d]
                        /\ tried'[d] = tried[d] /\ attempts'[d] = attempts[d]
                        /\ answers'[d] = answers[d]
           Own == /\ IsFiniteSet(tried'[c]) /\ Cardinality(tried'[c]) = attempts'[c]
                  /\ 200 \notin answers'[c]
                  /\ \/ pc'[c] = "closed"
                     \/ pc'[c] = (IF port[c] = DnsPort THEN "probe" ELSE "connect")
                        /\ cand'[c] \in tried'[c]
<1>3. Chosen /\ Others /\ Own
  BY <1>1, <1>2, SelectStep
<1> HIDE DEF Chosen, Others, Own
<1>4. /\ UNCHANGED <<now, store, lastRefresh, failures, port, proven>>
      /\ fetched' = [fetched EXCEPT ![c] = 0]
      /\ pool' \in Versions /\ pool <= pool' /\ pool' <= store
      /\ capable' = capable \/ capable' = CapableKey
      /\ lock' = NoClient
      /\ \A d \in Clients \ {c} : pc[d] \notin {"refresh", "apply"}
  <2>1. CASE ChooseCached(c)
    BY <2>1, ConstantsAssumption DEF ChooseCached, FetchedIsRecent, LockHeldByRefresh, Versions
  <2>2. CASE RefreshFails(c)
    BY <2>2, ConstantsAssumption DEF RefreshFails, FetchedIsRecent, LockHeldByRefresh, Versions
  <2>3. CASE RefreshApply(c)
    BY <2>3, ConstantsAssumption DEF RefreshApply, FetchedIsRecent, LockHeldByRefresh, Versions
  <2> QED
    BY <2>1, <2>2, <2>3
<1>5. TypeOK'
  <2>1. fetched' \in [Clients -> Versions]
    BY <1>4, ConstantsAssumption DEF Versions
  <2> QED
    BY <1>3, <1>4, <2>1, ConstantsAssumption DEF Chosen
<1>6. LockHeldByRefresh'
  BY <1>3, <1>4, ConstantsAssumption DEF Own, Others, LockHeldByRefresh
<1>7. BudgetLeft' /\ HasCandidate'
  BY <1>3, <1>4 DEF Own, Others, BudgetLeft, HasCandidate, Choosing, WithCandidate
<1>8. FetchedIsRecent'
  <2>1. /\ fetched'[c] = 0
        /\ \A d \in Clients \ {c} : fetched'[d] = fetched[d] /\ pc'[d] # "apply"
    BY <1>3, <1>4 DEF Others
  <2>2. pool' <= store' /\ store' = store /\ 0 <= store
    BY <1>4, ConstantsAssumption DEF Versions
  <2>3. ASSUME NEW d \in Clients
        PROVE  fetched'[d] <= store' /\ (pc'[d] = "apply" /\ fetched'[d] # 0 => pool' <= fetched'[d])
    BY <2>1, <2>2 DEF FetchedIsRecent
  <2> QED
    BY <2>2, <2>3 DEF FetchedIsRecent
<1>9. TriedIsFinite' /\ AttemptsAreDistinct'
  BY <1>3, <1>4 DEF Own, Others, TriedIsFinite, AttemptsAreDistinct
<1>10. ProbedBeforeUse' /\ CapableWasProven' /\ DnsTunnelIsProven'
  BY <1>3, <1>4 DEF Own, Others, ProbedBeforeUse, CapableWasProven, DnsTunnelIsProven
<1> QED
  BY <1>5, <1>6, <1>7, <1>8, <1>9, <1>10

\* A step that only moves one handler outside the pool, and may answer it 502.
LEMMA MoveIndInv ==
  ASSUME IndInv, NEW c \in Clients, NEW stage \in Stages,
         pc' = [pc EXCEPT ![c] = stage],
         answers' \in {answers, [answers EXCEPT ![c] = @ \cup {502}]},
         UNCHANGED <<now, store, pool, index, lastRefresh, failures, capable, lock,
                     port, fetched, cand, tried, attempts, proven>>,
         pc[c] \notin {"refresh", "apply"}, stage \notin {"idle", "refresh", "apply"},
         stage = "header" => pc[c] = "idle",
         stage = "choose" => pc[c] = "header",
         stage \in {"probe", "connect", "failed", "opened", "reply", "tunnel"}
           => WithCandidate(c),
         stage \in {"connect", "opened"} => pc[c] = "connect",
         pc[c] \in {"reply", "tunnel"} => stage \in {"reply", "tunnel", "closed"},
         pc[c] = "closed" => stage = "closed"
  PROVE  IndInv'
<1> USE DEF IndInv, TypeOK
<1>1. TypeOK'
  OBVIOUS
<1>2. LockHeldByRefresh'
  BY ConstantsAssumption DEF LockHeldByRefresh
<1>3. BudgetLeft'
  BY ConstantsAssumption DEF BudgetLeft, Choosing
<1>4. HasCandidate'
  BY DEF HasCandidate, WithCandidate
<1>5. FetchedIsRecent'
  BY DEF FetchedIsRecent
<1>6. TriedIsFinite' /\ AttemptsAreDistinct'
  BY DEF TriedIsFinite, AttemptsAreDistinct
<1>7. ProbedBeforeUse' /\ CapableWasProven' /\ DnsTunnelIsProven'
  <2>1. \A d \in Clients : 200 \in answers'[d] => 200 \in answers[d]
    OBVIOUS
  <2> QED
    BY <2>1 DEF ProbedBeforeUse, CapableWasProven, DnsTunnelIsProven
<1> QED
  BY <1>1, <1>2, <1>3, <1>4, <1>5, <1>6, <1>7

\* The steps of one handler that change the Pool, the lock or the probes.
LEMMA PoolStepIndInv ==
  ASSUME IndInv, NEW c \in Clients,
         RefreshStart(c) \/ RedisAnswers(c) \/ ProbeOK(c) \/ Record(c)
  PROVE  IndInv'
<1> USE ConstantsAssumption
<1> USE DEF IndInv, TypeOK, LockHeldByRefresh, BudgetLeft, HasCandidate,
        FetchedIsRecent, TriedIsFinite, AttemptsAreDistinct, ProbedBeforeUse,
        CapableWasProven, DnsTunnelIsProven, Choosing, WithCandidate,
        Goto, Answer502, Versions, Stages, DnsPort
<1>1. CASE RefreshStart(c)
  BY <1>1 DEF RefreshStart
<1>2. CASE RedisAnswers(c)
  BY <1>2 DEF RedisAnswers, poolVars
<1>3. CASE ProbeOK(c)
  BY <1>3 DEF ProbeOK, poolVars
<1>4. CASE RecordFailure(c)
  <2>1. /\ pc[c] = "failed" /\ lock = NoClient
        /\ failures' = [failures EXCEPT ![<<cand[c], port[c]>>] = now + Cooldown]
        /\ UNCHANGED <<now, store, pool, index, lastRefresh, capable, lock,
                       port, fetched, cand, tried, attempts, proven>>
    BY <1>4 DEF RecordFailure
  <2>2. failures' \in [Addresses \X Ports -> Nat]
    BY <2>1
  <2>3. CASE NextAttempt(c)
    <3>1. TypeOK'
      BY <2>1, <2>2, <2>3 DEF NextAttempt
    <3>2. LockHeldByRefresh' /\ BudgetLeft' /\ HasCandidate' /\ FetchedIsRecent'
      BY <2>1, <2>2, <2>3 DEF NextAttempt
    <3>3. TriedIsFinite' /\ AttemptsAreDistinct'
      BY <2>1, <2>2, <2>3 DEF NextAttempt
    <3>4. ProbedBeforeUse' /\ CapableWasProven' /\ DnsTunnelIsProven'
      BY <2>1, <2>2, <2>3 DEF NextAttempt
    <3> QED
      BY <3>1, <3>2, <3>3, <3>4
  <2>4. CASE BudgetSpent(c)
    <3>1. TypeOK'
      BY <2>1, <2>2, <2>4 DEF BudgetSpent
    <3>2. LockHeldByRefresh' /\ BudgetLeft' /\ HasCandidate' /\ FetchedIsRecent'
      BY <2>1, <2>2, <2>4 DEF BudgetSpent
    <3>3. TriedIsFinite' /\ AttemptsAreDistinct'
      BY <2>1, <2>2, <2>4 DEF BudgetSpent
    <3>4. ProbedBeforeUse' /\ CapableWasProven' /\ DnsTunnelIsProven'
      BY <2>1, <2>2, <2>4 DEF BudgetSpent
    <3> QED
      BY <3>1, <3>2, <3>3, <3>4
  <2> QED
    BY <1>4, <2>3, <2>4 DEF RecordFailure
<1>5. CASE RecordSuccess(c)
  BY <1>5 DEF RecordSuccess
<1> QED
  BY <1>1, <1>2, <1>3, <1>4, <1>5 DEF Record

LEMMA NextIndInv == IndInv /\ [Next]_vars => IndInv'
<1> SUFFICES ASSUME IndInv, [Next]_vars PROVE IndInv'
  OBVIOUS
<1>1. CASE UNCHANGED vars \/ Publish \/ Tick
  <2> USE ConstantsAssumption
  <2> USE DEF IndInv, TypeOK, LockHeldByRefresh, BudgetLeft, HasCandidate,
          FetchedIsRecent, TriedIsFinite, AttemptsAreDistinct, ProbedBeforeUse,
          CapableWasProven, DnsTunnelIsProven, Choosing, WithCandidate,
          Goto, Answer502, Versions, Stages, DnsPort
  <2>1. CASE UNCHANGED vars
    BY <2>1 DEF vars, poolVars, handlerVars
  <2>2. CASE Publish
    BY <2>2 DEF Publish, poolVars, handlerVars
  <2>3. CASE Tick
    BY <2>3 DEF Tick, poolVars, handlerVars
  <2> QED
    BY <1>1, <2>1, <2>2, <2>3
<1> USE DEF Goto, Answer502, poolVars, Stages, WithCandidate
<1>2. ASSUME NEW c \in Clients, Accept(c) PROVE IndInv'
  BY <1>2, MoveIndInv DEF Accept
<1>3. ASSUME NEW c \in Clients, HeaderParsed(c) PROVE IndInv'
  BY <1>3, MoveIndInv DEF HeaderParsed
<1>4. ASSUME NEW c \in Clients, HeaderRefused(c) PROVE IndInv'
  BY <1>4, MoveIndInv DEF HeaderRefused
<1>5. ASSUME NEW c \in Clients, HeaderOverrun(c) PROVE IndInv'
  BY <1>5, MoveIndInv DEF HeaderOverrun
<1>6. ASSUME NEW c \in Clients, ConnectOK(c) PROVE IndInv'
  BY <1>6, MoveIndInv DEF ConnectOK
<1>7. ASSUME NEW c \in Clients, UpstreamFails(c) PROVE IndInv'
  BY <1>7, MoveIndInv DEF UpstreamFails, Negotiating
<1>8. ASSUME NEW c \in Clients, UpstreamHangsUp(c) PROVE IndInv'
  BY <1>8, MoveIndInv DEF UpstreamHangsUp, Negotiating
<1>9. ASSUME NEW c \in Clients, UpstreamOverrun(c) PROVE IndInv'
  BY <1>9, MoveIndInv DEF UpstreamOverrun, Negotiating
<1>10. ASSUME NEW c \in Clients, TunnelOpens(c) PROVE IndInv'
  BY <1>10, MoveIndInv DEF TunnelOpens
<1>11. ASSUME NEW c \in Clients, TunnelEnds(c) PROVE IndInv'
  BY <1>11, MoveIndInv DEF TunnelEnds
<1>12. ASSUME NEW c \in Clients, TunnelBreaks(c) PROVE IndInv'
  BY <1>12, MoveIndInv DEF TunnelBreaks
<1> QED
  BY <1>1, <1>2, <1>3, <1>4, <1>5, <1>6, <1>7, <1>8, <1>9, <1>10, <1>11, <1>12,
     SelectingIndInv, PoolStepIndInv
     DEF Next, Request, Choose, Refresh, Negotiate, Reply

LEMMA Invariance == Spec => []IndInv
<1>1. QED
  BY InitIndInv, NextIndInv, PTL DEF Spec

----------------------------------------------------------------------------
(* Theorems. *)

\* Type correctness: the attempt counter keeps to its budget, the clock and the
\* snapshots to their ranges, in every reachable state.
THEOREM RelayTypeOK == Spec => []TypeOK
<1>1. IndInv => TypeOK
  BY DEF IndInv
<1> QED
  BY <1>1, Invariance, PTL

\* The pool lock is held exactly by the handler that waits for Redis, so that
\* two refreshes never overlap and no path out of choose keeps the lock.
THEOREM RelayLock == Spec => []LockHeldByRefresh
<1>1. IndInv => LockHeldByRefresh
  BY DEF IndInv
<1> QED
  BY <1>1, Invariance, PTL

\* No attempt of a CONNECT goes to an address this CONNECT has tried.
THEOREM RelayAttempts == Spec => []AttemptsAreDistinct
<1>1. IndInv => AttemptsAreDistinct
  BY DEF IndInv
<1> QED
  BY <1>1, Invariance, PTL

\* An upstream counts as DNS-over-TCP capable, and serves a port-53 tunnel, only
\* after it answered a probe (or was named by the key in Redis).
THEOREM RelayProbes == Spec => [](CapableWasProven /\ DnsTunnelIsProven)
<1>1. IndInv => CapableWasProven /\ DnsTunnelIsProven
  BY DEF IndInv
<1> QED
  BY <1>1, Invariance, PTL

\* The entries in use never go back to an older snapshot.
THEOREM RelayPoolMonotone == Spec => PoolNeverGoesBack
<1>1. IndInv /\ [Next]_vars => [pool' >= pool]_vars
  <2> SUFFICES ASSUME IndInv, [Next]_vars PROVE [pool' >= pool]_vars
    OBVIOUS
  <2>1. pool \in Nat
    BY ConstantsAssumption DEF IndInv, TypeOK, Versions
  <2>2. ASSUME NEW c \in Clients, RefreshApply(c) PROVE pool' >= pool
    <3>1. /\ pool' = IF fetched[c] = 0 THEN pool ELSE fetched[c]
          /\ pc[c] = "apply" /\ fetched[c] \in Nat
      BY <2>2, ConstantsAssumption DEF RefreshApply, IndInv, TypeOK, Versions
    <3> QED
      BY <2>1, <3>1 DEF IndInv, FetchedIsRecent
  <2>3. ASSUME ~(\E c \in Clients : RefreshApply(c)) PROVE UNCHANGED pool
    BY <2>3 DEF Next, vars, Publish, Tick, Accept, Request, HeaderParsed,
       HeaderRefused, HeaderOverrun, Choose, ChooseCached, RefreshStart, Refresh,
       RedisAnswers, RefreshFails, Negotiate, ProbeOK, ConnectOK, UpstreamFails,
       UpstreamHangsUp, UpstreamOverrun, Record, RecordFailure, RecordSuccess, Reply,
       TunnelOpens, TunnelBreaks, TunnelEnds
  <2> QED
    BY <2>1, <2>2, <2>3
<1> QED
  BY <1>1, Invariance, PTL DEF Spec, PoolNeverGoesBack

\* A cooldown is started by a failure, and ended early by a success, of the very
\* upstream and port it is kept for.
THEOREM RelayCooldowns == Spec => CooldownOwnedByAttempts
<1> DEFINE Owned ==
      \A a \in Addresses, p \in Ports :
        failures'[<<a, p>>] # failures[<<a, p>>] =>
          \E c \in Clients :
            /\ cand[c] = a /\ port[c] = p
            /\ \/ pc[c] = "failed" /\ failures'[<<a, p>>] = now + Cooldown
               \/ pc[c] = "opened" /\ failures'[<<a, p>>] = 0 /\ 200 \in answers'[c]
<1>1. IndInv /\ [Next]_vars => [Owned]_vars
  <2> SUFFICES ASSUME IndInv, [Next]_vars PROVE [Owned]_vars
    OBVIOUS
  <2>0. /\ failures \in [Addresses \X Ports -> Nat] /\ answers \in [Clients -> SUBSET {200, 502}]
        /\ \A a \in Addresses, p \in Ports : <<a, p>> \in Addresses \X Ports
    BY DEF IndInv, TypeOK
  <2>1. ASSUME NEW c \in Clients, RecordFailure(c) PROVE Owned
    <3>1. /\ pc[c] = "failed"
          /\ failures' = [failures EXCEPT ![<<cand[c], port[c]>>] = now + Cooldown]
      BY <2>1 DEF RecordFailure
    <3> QED
      BY <2>0, <3>1
  <2>2. ASSUME NEW c \in Clients, RecordSuccess(c) PROVE Owned
    <3>1. /\ pc[c] = "opened" /\ answers' = [answers EXCEPT ![c] = @ \cup {200}]
          /\ failures' = [failures EXCEPT ![<<cand[c], port[c]>>] = 0]
      BY <2>2 DEF RecordSuccess
    <3>2. 200 \in answers'[c]
      BY <2>0, <3>1
    <3> QED
      BY <2>0, <3>1, <3>2
  <2>3. ASSUME ~(\E c \in Clients : Record(c)) PROVE UNCHANGED failures
    BY <2>3 DEF Next, vars, poolVars, Publish, Tick, Accept, Request, HeaderParsed,
       HeaderRefused, HeaderOverrun, Choose, ChooseCached, RefreshStart, Refresh,
       RedisAnswers, RefreshApply, RefreshFails, Negotiate, ProbeOK, ConnectOK,
       UpstreamFails, UpstreamHangsUp, UpstreamOverrun, Reply, TunnelOpens,
       TunnelBreaks, TunnelEnds
  <2>4. CASE UNCHANGED failures
    BY <2>4
  <2> QED
    BY <2>1, <2>2, <2>3, <2>4 DEF Record
<1> QED
  BY <1>1, Invariance, PTL DEF Spec, CooldownOwnedByAttempts

\* A handler gives up choosing only with its budget spent or with every entry in
\* use tried or cooling down.
THEOREM RelayRefusals == Spec => RefusedOnlyWhenExhausted
<1> DEFINE Exhausted(c) ==
      \/ attempts[c] = Attempts
      \/ \A i \in 1 .. EntryCount(pool') :
           \/ Entry(pool', i) \in tried[c]
           \/ failures[<<Entry(pool', i), port[c]>>] > now
    Justified == \A c \in Clients :
                   /\ pc[c] \in {"choose", "refresh", "apply", "failed"}
                   /\ pc'[c] = "closed"
                   => Exhausted(c)
<1>1. IndInv /\ [Next]_vars => [Justified]_vars
  <2> SUFFICES ASSUME IndInv, Next, NEW c \in Clients,
                      pc[c] \in {"choose", "refresh", "apply", "failed"},
                      pc'[c] = "closed"
               PROVE  Exhausted(c)
    BY DEF vars
  <2>0. /\ pc \in [Clients -> Stages] /\ now \in Nat /\ port \in [Clients -> Ports]
        /\ failures \in [Addresses \X Ports -> Nat] /\ pool \in Versions
        /\ fetched \in [Clients -> Versions]
    BY ConstantsAssumption DEF IndInv, TypeOK
  <2>1. ChooseCached(c) \/ RefreshApply(c) \/ RefreshFails(c) \/ RecordFailure(c)
    <3>1. PICK d \in Clients :
            Accept(d) \/ Request(d) \/ Choose(d) \/ Refresh(d) \/ Negotiate(d)
            \/ Record(d) \/ Reply(d) \/ TunnelEnds(d)
      BY DEF Next, Publish, Tick, handlerVars
    <3> USE DEF Goto, Answer502
    <3>2. ASSUME d # c PROVE pc'[c] = pc[c]
      <4>1. CASE Accept(d) \/ Request(d) \/ TunnelEnds(d) \/ Reply(d)
        BY <2>0, <3>2, <4>1 DEF Accept, Request, HeaderParsed, HeaderRefused,
           HeaderOverrun, TunnelEnds, Reply, TunnelOpens, TunnelBreaks
      <4>2. CASE Choose(d) \/ Refresh(d)
        BY <2>0, <3>2, <4>2 DEF Choose, Refresh, ChooseCached, RefreshStart,
           RedisAnswers, RefreshApply, RefreshFails, Select, SelectEntry, SelectNone
      <4>3. CASE Negotiate(d) \/ Record(d)
        BY <2>0, <3>2, <4>3 DEF Negotiate, ProbeOK, ConnectOK, UpstreamFails,
           UpstreamHangsUp, UpstreamOverrun, Record, RecordFailure, RecordSuccess,
           NextAttempt, BudgetSpent
      <4> QED
        BY <3>1, <4>1, <4>2, <4>3
    <3>3. Choose(c) \/ Refresh(c) \/ RecordFailure(c)
      BY <3>1, <3>2 DEF Accept, Request, HeaderParsed, HeaderRefused, HeaderOverrun,
         Negotiate, Negotiating, ProbeOK, ConnectOK, UpstreamFails, UpstreamHangsUp,
         UpstreamOverrun, Record, RecordSuccess, Reply, TunnelOpens, TunnelBreaks,
         TunnelEnds
    <3>4. ~RefreshStart(c) /\ ~RedisAnswers(c)
      BY <2>0 DEF RefreshStart, RedisAnswers
    <3> QED
      BY <3>3, <3>4 DEF Choose, Refresh
  <2>2. CASE RecordFailure(c)
    BY <2>0, <2>2 DEF RecordFailure, NextAttempt, BudgetSpent, Goto
  <2>3. ASSUME NEW v \in Versions, NEW cap, Select(c, v, cap), v = pool'
        PROVE  Exhausted(c)
    <3>1. Eligible(c, v) = {}
      BY <2>0, <2>3 DEF Select, SelectEntry, SelectNone, Goto
    <3>2. ASSUME NEW i \in 1 .. EntryCount(v)
          PROVE  Entry(v, i) \in tried[c] \/ failures[<<Entry(v, i), port[c]>>] > now
      <4>1. Entry(v, i) \in tried[c] \/ ~(failures[<<Entry(v, i), port[c]>>] <= now)
        BY <3>1 DEF Eligible, Available
      <4>2. failures[<<Entry(v, i), port[c]>>] \in Nat
        BY <2>0, EntryType
      <4> QED
        BY <2>0, <4>1, <4>2
    <3> QED
      BY <2>3, <3>2
  <2>4. ChooseCached(c) \/ RefreshFails(c) => Select(c, pool', capable) /\ pool' \in Versions
    BY <2>0 DEF ChooseCached, RefreshFails
  <2>5. RefreshApply(c) => Select(c, pool', capable') /\ pool' \in Versions
    BY <2>0 DEF RefreshApply
  <2> QED
    BY <2>1, <2>2, <2>3, <2>4, <2>5
<1> QED
  BY <1>1, Invariance, PTL DEF Spec, RefusedOnlyWhenExhausted

=============================================================================

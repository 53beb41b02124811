-------------------------- MODULE Readiness_proofs --------------------------
(* The verdict of the gate is sound for any candidates, any limits, any time  *)
(* of replacement and any interleaving of its reads with the workers.         *)
EXTENDS Readiness, PoolPipeline_proofs

\* The operators that only abbreviate parts of actions are always expanded.
USE DEF FetcherAlone, ValidatorAlone, RankerAlone, historyVars, poolKeys, Found,
        Remember, Abandon, PublishThen, ReserveThen, ActiveThen

----------------------------------------------------------------------------
(* The lineage in a snapshot is what happened. *)

\* The times a pool snapshot names are those of its cycle.
Truthful(snapshot) ==
  snapshot.cycle > 0 =>
    origin[snapshot.cycle] = [ended |-> snapshot.src, fetched |-> snapshot.rawSrc]

TruthfulResult(result) ==
  result.cycle > 0 =>
    origin[result.cycle] = [ended |-> result.gen, fetched |-> result.src]

\* The keys tell the truth, and so will what the workers are about to publish.
KeysTruthful ==
  /\ TruthfulResult(validated)
  /\ pc["validator"] = "publish" => TruthfulResult(checked)
  /\ Truthful(reserve) /\ Truthful(active)
  /\ pc["ranker"] \in {"reserve", "active", "gateway"} =>
       Truthful(ranked) /\ Truthful(chosen)

\* So does the active pool as the gate has read it.
SeenTruthful ==
  LET a == seen["active"]
  IN  /\ Truthful(a) /\ a.cycle <= cycle /\ a.entries \subseteq healthyIn[a.cycle]
      /\ gate \in {"success", "gateway", "echo", "ready"} =>
           a.entries # {} /\ a.src >= Since
      /\ gate \in {"echo", "ready"} =>
           /\ Addressed(seen["gateway"].entries) = Addressed(a.entries)
           /\ seen["gateway"].entries # {}

GateInv ==
  /\ IndInv /\ GateTypeOK
  /\ healthyIn[0] = {}
  /\ KeysTruthful /\ SeenTruthful

----------------------------------------------------------------------------

\* No cycle is counted twice: what is known of past cycles stays.
LEMMA PastIsFixed ==
  ASSUME GateInv, Pipeline, NEW k \in 0 .. cycle
  PROVE  healthyIn'[k] = healthyIn[k] /\ origin'[k] = origin[k]
<1>0. cycle \in Nat /\ cycle + 1 # k /\ healthyIn \in [Cycles -> SUBSET Candidates]
  BY Numbers DEF GateInv, IndInv, TypeOK
<1>1. CASE FinishProbes
  <2>1. cycle' = cycle + 1 /\ \E healthy : healthyIn' = [healthyIn EXCEPT ![cycle + 1] = healthy]
    BY <1>1 DEF FinishProbes
  <2>2. origin' = [origin EXCEPT ![cycle'] = [ended |-> now, fetched |-> rawRead.gen]]
    BY <1>0, <2>1 DEF Pipeline
  <2>3. origin \in [Cycles -> [ended : Times, fetched : Times]]
    BY DEF GateInv, GateTypeOK
  <2>4. k \in Cycles
    BY <1>0, PipelineAssumption DEF GateInv, IndInv, TypeOK, Cycles
  <2>5. healthyIn'[k] = healthyIn[k]
    BY <1>0, <2>1, <2>4
  <2>6. origin'[k] = origin[k]
    BY <1>0, <2>1, <2>2, <2>3, <2>4
  <2> QED
    BY <2>5, <2>6
<1>2. CASE ~FinishProbes
  <2>1. UNCHANGED <<cycle, healthyIn>>
    BY <1>2 DEF Pipeline, PipelineNext, FetcherStep, ValidatorStep, RankerStep, Collect,
       PublishRaw, ReadRaw, ReadPrevious, CycleFails, PublishValidated, SetLastSuccess,
       RankValidated, PublishReserve, PublishActive, PublishGateway, Crash, Restart, Tick,
       validatorVars
  <2> QED
    BY <2>1 DEF Pipeline
<1> QED
  BY <1>1, <1>2

\* Publications carry the lineage of what was read along.
LEMMA PipelineKeepsTruth ==
  ASSUME GateInv, Pipeline
  PROVE  KeysTruthful'
<1> USE DEF Goto
<1>0. /\ pc \in [Workers -> Stages] /\ Workers = {"fetcher", "validator", "ranker"}
      /\ KeysTruthful
  BY DEF GateInv, IndInv, TypeOK, Workers
<1>1. /\ cycle \in Nat /\ validated.cycle \in 0 .. cycle
      /\ reserve.cycle \in 0 .. cycle /\ active.cycle \in 0 .. cycle
      /\ pc["ranker"] \in {"reserve", "active", "gateway"} =>
           ranked.cycle \in 0 .. cycle /\ chosen.cycle \in 0 .. cycle
      /\ pc["validator"] = "publish" => checked.cycle \in 0 .. cycle
  <2>1. /\ cycle \in Nat /\ validated.cycle \in Nat /\ checked.cycle \in Nat
        /\ \A pool \in {reserve, active, gateway, ranked, chosen} : pool.cycle \in Nat
        /\ CheckedIsNext /\ RankerOrder
    BY Numbers DEF GateInv, IndInv
  <2> QED
    BY <2>1 DEF CheckedIsNext, RankerOrder, Follows
<1>2. /\ \A pool \in {validated, reserve, active} : origin'[pool.cycle] = origin[pool.cycle]
      /\ pc["ranker"] \in {"reserve", "active", "gateway"} =>
           /\ origin'[ranked.cycle] = origin[ranked.cycle]
           /\ origin'[chosen.cycle] = origin[chosen.cycle]
      /\ pc["validator"] = "publish" => origin'[checked.cycle] = origin[checked.cycle]
  BY <1>1, PastIsFixed
<1> USE DEF KeysTruthful, Truthful, TruthfulResult
<1>3. CASE FinishProbes
  <2>1. /\ cycle' = cycle + 1 /\ checked'.cycle = cycle + 1
        /\ checked'.gen = now /\ checked'.src = rawRead.gen
        /\ UNCHANGED <<validated, reserve, active, ranked, chosen>>
        /\ pc' = [pc EXCEPT !["validator"] = "publish"]
    BY <1>3 DEF FinishProbes, redisVars, rankerVars
  <2>2. origin' = [origin EXCEPT ![cycle'] = [ended |-> now, fetched |-> rawRead.gen]]
    BY <1>1, <2>1 DEF Pipeline
  <2>3. cycle' \in DOMAIN origin
    BY <1>3, <2>1, NextCycle DEF GateInv, GateTypeOK, IndInv, CheckedIsNext, FinishProbes
  <2> QED
    BY <1>0, <1>2, <2>1, <2>2, <2>3
<1>4. CASE PublishValidated
  BY <1>0, <1>2, <1>4 DEF PublishValidated, rankerVars
<1>5. CASE RankValidated
  <2>1. /\ ranked'.cycle = validated.cycle /\ ranked'.src = validated.gen
        /\ ranked'.rawSrc = validated.src
        /\ chosen'.cycle = validated.cycle /\ chosen'.src = validated.gen
        /\ chosen'.rawSrc = validated.src
        /\ UNCHANGED <<validated, reserve, active, checked>>
        /\ pc' = [pc EXCEPT !["ranker"] = "reserve"]
    BY <1>5 DEF RankValidated, Derived, redisVars, validatorVars
  <2> QED
    BY <1>0, <1>2, <2>1
<1>6. CASE PublishReserve \/ PublishActive \/ PublishGateway
  BY <1>0, <1>2, <1>6 DEF PublishReserve, PublishActive, PublishGateway, rankerVars,
     validatorVars
<1>7. CASE FetcherStep \/ Tick
  BY <1>0, <1>2, <1>7 DEF FetcherStep, Collect, PublishRaw, Tick, redisVars, validatorVars,
     rankerVars
<1>8. CASE ReadRaw \/ ReadPrevious \/ CycleFails \/ SetLastSuccess
  BY <1>0, <1>2, <1>8 DEF ReadRaw, ReadPrevious, CycleFails, SetLastSuccess, redisVars,
     rankerVars
<1>9. ASSUME NEW w \in Workers, Crash(w) \/ Restart(w) PROVE KeysTruthful'
  BY <1>0, <1>2, <1>9 DEF Crash, Restart, Forget, redisVars, validatorVars, rankerVars
<1> QED
  BY <1>3, <1>4, <1>5, <1>6, <1>7, <1>8, <1>9
     DEF Pipeline, PipelineNext, ValidatorStep, RankerStep

\* A step of a worker leaves what the gate has read as true as it was.
LEMMA PipelineIndInv ==
  ASSUME GateInv, Pipeline
  PROVE  GateInv'
<1>0. cycle \in Nat /\ seen \in [Kinds \cup {"gateway"} -> PoolSnapshot]
  BY Numbers DEF GateInv, IndInv, GateTypeOK
<1>1. IndInv'
  BY NextIndInv DEF GateInv, Pipeline
<1>2. UNCHANGED <<gate, seen>>
  BY DEF Pipeline, gateVars
<1>3. GateTypeOK'
  <2>1. CASE cycle' = cycle
    BY <1>2, <2>1 DEF Pipeline, GateInv, GateTypeOK
  <2>2. CASE cycle' # cycle
    <3>1. origin' = [origin EXCEPT ![cycle'] = [ended |-> now, fetched |-> rawRead.gen]]
      BY <2>2 DEF Pipeline
    <3>2. now \in Times /\ rawRead.gen \in Times
      BY PipelineAssumption DEF GateInv, IndInv, TypeOK, RawSnapshot, Times
    <3> QED
      BY <1>2, <3>1, <3>2 DEF GateInv, GateTypeOK
  <2> QED
    BY <2>1, <2>2
<1>4. healthyIn'[0] = {}
  BY <1>0, PastIsFixed DEF GateInv
<1>5. SeenTruthful'
  <2> DEFINE a == seen["active"]
  <2>1. a.cycle \in 0 .. cycle
    <3>1. a.cycle \in Nat
      BY <1>0, PipelineAssumption DEF Kinds, PoolSnapshot, Cycles
    <3> QED
      BY <1>0, <3>1 DEF GateInv, SeenTruthful
  <2>2. healthyIn'[a.cycle] = healthyIn[a.cycle] /\ origin'[a.cycle] = origin[a.cycle]
    BY <2>1, PastIsFixed
  <2>3. cycle <= cycle'
    <3>1. CASE FinishProbes
      BY <1>0, <3>1 DEF FinishProbes
    <3>2. CASE ~FinishProbes
      <4>1. cycle' = cycle
        BY <3>2 DEF Pipeline, PipelineNext, FetcherStep, ValidatorStep, RankerStep, Collect,
           PublishRaw, ReadRaw, ReadPrevious, CycleFails, PublishValidated,
           SetLastSuccess, RankValidated, PublishReserve, PublishActive, PublishGateway,
           Crash, Restart, Tick, validatorVars
      <4> QED
        BY <1>0, <4>1
    <3> QED
      BY <3>1, <3>2
  <2>4. cycle' \in Nat
    BY <1>1, Numbers DEF IndInv, TypeOK, Cycles, PipelineAssumption
  <2> QED
    BY <1>0, <1>2, <2>1, <2>2, <2>3, <2>4 DEF GateInv, SeenTruthful, Truthful
<1> QED
  BY <1>1, <1>3, <1>4, <1>5, PipelineKeepsTruth DEF GateInv

\* What the gate reads is true when it reads it.
LEMMA ReadIndInv ==
  ASSUME GateInv, ReadSnapshot
  PROVE  GateInv'
<1>0. /\ UNCHANGED <<now, redisVars, pc, fetcherVars, validatorVars, rankerVars, crashes>>
      /\ UNCHANGED origin
  BY DEF ReadSnapshot, pipelineVars
<1>1. IndInv'
  BY NextIndInv DEF GateInv, ReadSnapshot
<1>2. /\ seen' = [seen EXCEPT ![gate] = Look(gate)] /\ gate \in Kinds
      /\ gate' = Following[gate]
      /\ seen \in [Kinds \cup {"gateway"} -> PoolSnapshot]
  BY DEF ReadSnapshot, GateInv, GateTypeOK
<1>3. GateTypeOK'
  <2>1. Look(gate) \in PoolSnapshot
    <3>1. /\ raw \in RawSnapshot /\ validated \in ValidatedSnapshot
          /\ reserve \in PoolSnapshot /\ active \in PoolSnapshot
      BY DEF GateInv, IndInv, TypeOK
    <3>2. NoPool \in PoolSnapshot
      BY AbsentOK
    <3>3. Entries(validated) \in SUBSET Candidates
      BY DEF Entries
    <3>4. CASE gate = "raw"
      BY <3>1, <3>2, <3>4 DEF Look, RawSnapshot, PoolSnapshot, NoPool
    <3>5. CASE gate = "validated"
      BY <3>1, <3>3, <3>5 DEF Look, ValidatedSnapshot, PoolSnapshot
    <3> QED
      BY <1>2, <3>1, <3>4, <3>5 DEF Look, Kinds
  <2> QED
    BY <1>0, <1>2, <2>1 DEF GateInv, GateTypeOK, Following, Kinds, GateStages
<1>4. KeysTruthful'
  BY <1>0 DEF GateInv, KeysTruthful, Truthful, TruthfulResult, redisVars, rankerVars,
     validatorVars, pipelineVars
<1>5. SeenTruthful'
  <2>1. CASE gate # "active"
    <3>1. seen'["active"] = seen["active"]
      BY <1>2, <2>1
    <3>2. gate' \notin {"success", "gateway", "echo", "ready"}
      BY <1>2, <2>1 DEF Following, Kinds
    <3> QED
      BY <1>0, <3>1, <3>2 DEF GateInv, SeenTruthful, Truthful, validatorVars
  <2>2. CASE gate = "active"
    <3>1. seen'["active"] = active /\ gate' = "success"
      BY <1>2, <2>2 DEF Following, Look, Kinds
    <3>2. active.cycle <= cycle
      <4>1. cycle \in Nat /\ validated.cycle \in Nat /\ reserve.cycle \in Nat
            /\ active.cycle \in Nat /\ CheckedIsNext /\ RankerOrder
        BY Numbers DEF GateInv, IndInv
      <4> QED
        BY <4>1 DEF CheckedIsNext, RankerOrder, Follows
    <3>3. active.entries \subseteq healthyIn[active.cycle] /\ Truthful(active)
      BY DEF GateInv, IndInv, GatewayServesValidated, KeysTruthful
    <3>4. active.entries # {} /\ active.src >= Since
      BY <2>2 DEF ReadSnapshot, Young, AfterReplacement, Look
    <3> QED
      BY <1>0, <3>1, <3>2, <3>3, <3>4 DEF SeenTruthful, Truthful, validatorVars
  <2> QED
    BY <2>1, <2>2
<1>6. healthyIn'[0] = {}
  BY <1>0 DEF GateInv, validatorVars
<1> QED
  BY <1>1, <1>3, <1>4, <1>5, <1>6 DEF GateInv

LEMMA GateIndInv == GateInv /\ [GateNext]_vars => GateInv'
<1> SUFFICES ASSUME GateInv, [GateNext]_vars PROVE GateInv'
  OBVIOUS
<1>1. CASE StartCheck \/ Assess \/ ReadGateway \/ RelayEcho \/ EndCheck \/ UNCHANGED vars
  <2>1. UNCHANGED <<pipelineVars, origin>>
    BY <1>1 DEF StartCheck, Assess, ReadGateway, RelayEcho, EndCheck, vars
  <2>2. IndInv'
    BY <2>1, NextIndInv DEF GateInv
  <2>3. KeysTruthful' /\ healthyIn'[0] = {}
    BY <2>1 DEF GateInv, KeysTruthful, Truthful, TruthfulResult, redisVars, rankerVars,
       validatorVars, pipelineVars
  <2>4. UNCHANGED <<cycle, healthyIn, gateway>> /\ gateway \in PoolSnapshot
    BY <2>1 DEF pipelineVars, validatorVars, redisVars, GateInv, IndInv, TypeOK
  <2>5. NothingSeen \in [Kinds \cup {"gateway"} -> PoolSnapshot]
    BY AbsentOK DEF NothingSeen
  <2>6. seen \in [Kinds \cup {"gateway"} -> PoolSnapshot] /\ gate \in GateStages
    BY DEF GateInv, GateTypeOK
  <2>7. GateTypeOK'
    BY <1>1, <2>1, <2>4, <2>5, <2>6 DEF GateInv, GateTypeOK, GateStages, Kinds, StartCheck,
       Assess, ReadGateway, RelayEcho, EndCheck, vars, gateVars
  <2>8. SeenTruthful'
    <3> USE DEF GateInv, SeenTruthful, Truthful
    <3>1. CASE StartCheck
      BY <2>1, <2>4, <3>1 DEF StartCheck
    <3>2. CASE Assess
      BY <2>1, <2>4, <3>2 DEF Assess
    <3>3. CASE ReadGateway
      <4>1. /\ seen'["active"] = seen["active"] /\ seen'["gateway"] = gateway
            /\ gate = "gateway" /\ gate' = "echo"
        BY <2>6, <3>3 DEF ReadGateway, Kinds
      <4>2. /\ Addressed(gateway.entries) = Addressed(seen["active"].entries)
            /\ seen["active"].entries # {}
        BY <3>3, <4>1 DEF ReadGateway, SameMembers
      <4>3. gateway.entries # {}
        BY <4>2 DEF Addressed
      <4>4. Addressed(seen["gateway"].entries)' = Addressed(seen["active"].entries)
        BY <4>1, <4>2 DEF Addressed
      <4>5. Addressed(seen["active"].entries)' = Addressed(seen["active"].entries)
        BY <4>1 DEF Addressed
      <4> QED
        BY <2>1, <2>4, <4>1, <4>2, <4>3, <4>4, <4>5
    <3>4. CASE RelayEcho
      BY <2>1, <2>4, <3>4 DEF RelayEcho, Addressed
    <3>5. CASE EndCheck
      <4>1. seen'["active"] = NoPool /\ gate' = "off"
        BY <3>5 DEF EndCheck, NothingSeen, Kinds
      <4>2. cycle \in Nat
        BY Numbers DEF IndInv
      <4> QED
        BY <2>4, <4>1, <4>2 DEF NoPool
    <3>6. CASE UNCHANGED vars
      BY <2>1, <2>4, <3>6 DEF vars, gateVars, Addressed
    <3> QED
      BY <1>1, <3>1, <3>2, <3>3, <3>4, <3>5, <3>6
  <2> QED
    BY <2>2, <2>3, <2>7, <2>8 DEF GateInv
<1> QED
  BY <1>1, PipelineIndInv, ReadIndInv DEF GateNext

LEMMA GateInitInv == GateInit => GateInv
<1> SUFFICES ASSUME GateInit PROVE GateInv
  OBVIOUS
<1>1. IndInv
  BY InitIndInv DEF GateInit
<1>2. GateTypeOK
  BY AbsentOK, PipelineAssumption DEF GateInit, GateTypeOK, GateStages, NothingSeen, Times
<1>3. healthyIn[0] = {} /\ KeysTruthful
  BY PipelineAssumption DEF GateInit, Init, KeysTruthful, Truthful, TruthfulResult,
     NoValidated, NoPool, Cycles, Workers
<1>4. SeenTruthful
  BY DEF GateInit, Init, SeenTruthful, Truthful, NothingSeen, NoPool, Kinds
<1> QED
  BY <1>1, <1>2, <1>3, <1>4 DEF GateInv

LEMMA GateInvariance == GateSpec => []GateInv
<1> QED
  BY GateInitInv, GateIndInv, PTL DEF GateSpec

----------------------------------------------------------------------------
(* Theorems. *)

\* The validation behind an active pool with entries is one of the history.
LEMMA ValidationIsKnown ==
  ASSUME GateInv, seen["active"].entries # {}
  PROVE  Validation = [ended |-> seen["active"].src, fetched |-> seen["active"].rawSrc]
<1> DEFINE a == seen["active"]
<1>1. a.cycle \in Nat
  BY PipelineAssumption DEF GateInv, GateTypeOK, Kinds, PoolSnapshot, Cycles
<1>2. a.cycle # 0
  BY DEF GateInv, SeenTruthful
<1> QED
  BY <1>1, <1>2 DEF GateInv, SeenTruthful, Truthful, Validation

\* Ready means that the relay was given upstreams that passed a validation which
\* ended after the replacement.
THEOREM GateIsSound == GateSpec => []ReadyIsProven
<1>1. GateInv => ReadyIsProven
  <2> SUFFICES ASSUME GateInv, gate = "ready"
               PROVE  /\ seen["gateway"].entries # {}
                      /\ Addressed(seen["gateway"].entries)
                           \subseteq Addressed(healthyIn[seen["active"].cycle])
                      /\ Validation.ended >= Since
    BY DEF ReadyIsProven
  <2>1. /\ seen["gateway"].entries # {} /\ seen["active"].entries # {}
        /\ Addressed(seen["gateway"].entries) = Addressed(seen["active"].entries)
        /\ seen["active"].entries \subseteq healthyIn[seen["active"].cycle]
        /\ seen["active"].src >= Since
    BY DEF GateInv, SeenTruthful
  <2> QED
    BY <2>1, ValidationIsKnown DEF Addressed
<1> QED
  BY <1>1, GateInvariance, PTL

\* Ranking an old validation again never gets it through the assessment.
THEOREM GateRefusesOldLineage == GateSpec => AssessedIsRecent
<1> DEFINE Recent == gate = "success" /\ gate' = "gateway" =>
                       /\ now - Validation.ended <= ValidatedLimit
                       /\ now - Validation.fetched <= RawLimit + ValidatedLimit
<1>1. GateInv /\ [GateNext]_vars => [Recent]_vars
  <2> SUFFICES ASSUME GateInv, GateNext, gate = "success", gate' = "gateway"
               PROVE  /\ now - Validation.ended <= ValidatedLimit
                      /\ now - Validation.fetched <= RawLimit + ValidatedLimit
    BY DEF vars, gateVars
  <2>1. Assess
    BY DEF GateNext, Pipeline, gateVars, StartCheck, ReadSnapshot, ReadGateway, RelayEcho,
       EndCheck, Kinds
  <2>2. seen["active"].entries # {}
    BY DEF GateInv, SeenTruthful
  <2> QED
    BY <2>1, <2>2, ValidationIsKnown DEF Assess, LineageYoung, Kinds
<1> QED
  BY <1>1, GateInvariance, PTL DEF GateSpec, AssessedIsRecent

=============================================================================

------------------------ MODULE PoolPipeline_proofs ------------------------
(* Proofs about PoolPipeline, for any set of candidates, any pool sizes and *)
(* any number of cycles and crashes.                                        *)
EXTENDS PoolPipeline, TLAPS

\* The operators that only abbreviate parts of actions are always expanded.
USE DEF FetcherAlone, ValidatorAlone, RankerAlone, historyVars, poolKeys, Found,
        Remember, Abandon, PublishThen, ReserveThen, ActiveThen

----------------------------------------------------------------------------
(* The inductive invariant: besides the keys themselves, what each worker     *)
(* still holds between two of its publications.                               *)

\* A validated snapshot lists what passed in the cycle it names.
PassedOnly(snapshot) ==
  \A c \in Candidates : snapshot.streak[c] > 0 => c \in healthyIn[snapshot.cycle]

\* The validator's results are those of its last cycle and will not step back.
CheckedIsNext ==
  /\ validated.cycle <= cycle /\ rawRead.gen <= raw.gen
  /\ pc["validator"] \in {"previous", "probe"} => cycle < MaxCycles
  /\ lastSuccess.cycle <= validated.cycle
  /\ PassedOnly(validated)
  /\ pc["validator"] = "publish" =>
       /\ checked.cycle = cycle /\ validated.cycle < checked.cycle
       /\ checked.src <= raw.gen
       /\ validated.gen <= checked.gen
       /\ PassedOnly(checked)
  /\ pc["validator"] = "success" => checked = validated

\* No snapshot carries a time of the future.
NothingFromTheFuture ==
  /\ raw.gen <= now /\ collected.gen <= now
  /\ validated.gen <= now /\ checked.gen <= now
  /\ reserve.gen <= now /\ active.gen <= now /\ gateway.gen <= now
  /\ ranked.gen <= now

\* The raw snapshot moves on in time and stays ahead of what was derived from it.
FetcherOrder ==
  /\ validated.src <= raw.gen
  /\ pc["fetcher"] = "publish" => raw.gen <= collected.gen

\* b may be published over a.
Follows(a, b) == a.gen <= b.gen /\ a.cycle <= b.cycle /\ a.src <= b.src

\* The ranker's two snapshots share one lineage, and the keys follow each other
\* in the order in which it publishes.
RankerOrder ==
  /\ Follows(gateway, active) /\ Follows(active, reserve)
  /\ reserve.cycle <= validated.cycle /\ reserve.src <= validated.gen
  /\ pc["ranker"] \in {"reserve", "active", "gateway"} =>
       /\ Follows(chosen, ranked) /\ Follows(ranked, chosen)
       /\ chosen.entries \subseteq ranked.entries
       /\ ranked.entries \subseteq healthyIn[ranked.cycle]
       /\ Follows(reserve, ranked)
       /\ ranked.cycle <= validated.cycle /\ ranked.src <= validated.gen
  /\ pc["ranker"] \in {"active", "gateway"} => reserve = ranked
  /\ pc["ranker"] = "gateway" => active = chosen

IndInv ==
  /\ TypeOK /\ NothingFromTheFuture
  /\ FetcherOrder /\ CheckedIsNext /\ RankerOrder /\ GatewayServesValidated

----------------------------------------------------------------------------
(* Preservation, action by action. *)

LEMMA AbsentOK ==
  /\ NoRaw \in RawSnapshot /\ NoValidated \in ValidatedSnapshot
  /\ NoSuccess \in Success /\ NoPool \in PoolSnapshot /\ NoStreaks \in Streaks
  BY PipelineAssumption DEF NoRaw, NoValidated, NoSuccess, NoPool, NoStreaks,
     RawSnapshot, ValidatedSnapshot, Success, PoolSnapshot, Streaks,
       Times, Cycles

\* What arithmetic needs to know of the variables.
LEMMA Numbers ==
  ASSUME TypeOK
  PROVE  /\ now \in Nat /\ cycle \in Nat
         /\ raw.gen \in Int /\ -1 <= raw.gen /\ collected.gen \in Int /\ rawRead.gen \in Int
         /\ validated.gen \in Int /\ validated.cycle \in Nat /\ validated.src \in Int
         /\ checked.gen \in Int /\ checked.cycle \in Nat /\ checked.src \in Int
         /\ lastSuccess.cycle \in Nat
         /\ \A pool \in {reserve, active, gateway, ranked, chosen} :
              pool.gen \in Int /\ pool.cycle \in Nat /\ pool.src \in Int
  BY PipelineAssumption DEF TypeOK, RawSnapshot, ValidatedSnapshot, Success, PoolSnapshot, Streaks,
       Times, Cycles

LEMMA NextCycle ==
  ASSUME TypeOK, cycle < MaxCycles
  PROVE  cycle + 1 \in Cycles
  BY PipelineAssumption DEF TypeOK, Cycles

LEMMA InitIndInv == Init => IndInv
<1> SUFFICES ASSUME Init PROVE IndInv
  OBVIOUS
<1> USE PipelineAssumption DEF Init
<1>1. TypeOK
  BY AbsentOK DEF TypeOK, NoStreaks, Cycles, Workers, Stages
<1>2. /\ NothingFromTheFuture /\ FetcherOrder /\ CheckedIsNext /\ RankerOrder
      /\ GatewayServesValidated
  BY DEF NothingFromTheFuture, FetcherOrder, CheckedIsNext, RankerOrder, Follows,
     GatewayServesValidated, PassedOnly, Cycles, Workers, NoRaw, NoValidated, NoPool,
     NoSuccess, NoStreaks
<1> QED
  BY <1>1, <1>2 DEF IndInv

LEMMA NextIndInv == IndInv /\ [PipelineNext]_pipelineVars => IndInv'
<1> SUFFICES ASSUME IndInv, [PipelineNext]_pipelineVars PROVE IndInv'
  OBVIOUS
<1> USE PipelineAssumption
<1>0. /\ TypeOK /\ NothingFromTheFuture /\ FetcherOrder /\ CheckedIsNext /\ RankerOrder
      /\ GatewayServesValidated
      /\ pc \in [Workers -> Stages] /\ Workers = {"fetcher", "validator", "ranker"}
      /\ validated.streak \in Streaks /\ healthyIn \in [Cycles -> SUBSET Candidates]
      /\ now \in Nat /\ cycle \in Nat
      /\ raw.gen \in Int /\ -1 <= raw.gen /\ collected.gen \in Int /\ rawRead.gen \in Int
      /\ validated.gen \in Int /\ validated.cycle \in Nat /\ validated.src \in Int
      /\ checked.gen \in Int /\ checked.cycle \in Nat /\ checked.src \in Int
      /\ lastSuccess.cycle \in Nat
      /\ \A pool \in {reserve, active, gateway, ranked, chosen} :
           pool.gen \in Int /\ pool.cycle \in Nat /\ pool.src \in Int
  BY Numbers DEF IndInv, TypeOK, ValidatedSnapshot, Workers
<1>1. CASE Collect
  <2> USE <1>1 DEF Collect, Goto, redisVars, fetcherVars, validatorVars, rankerVars
  <2> USE <1>0
  <2>1. TypeOK'
    <3>1. collected' \in RawSnapshot
      BY DEF TypeOK, RawSnapshot, Times
    <3> QED
      BY <3>1, AbsentOK DEF TypeOK, Stages, Workers
  <2>2. NothingFromTheFuture'
    BY DEF NothingFromTheFuture, RankerOrder, Follows, NoRaw, NoValidated, NoPool
  <2>3. FetcherOrder'
    BY DEF FetcherOrder, NothingFromTheFuture, CheckedIsNext, NoRaw
  <2>4. CheckedIsNext'
    BY DEF CheckedIsNext, FetcherOrder, NothingFromTheFuture, PassedOnly, NoRaw, NoValidated, NoStreaks
  <2>5. RankerOrder'
    BY DEF CheckedIsNext, RankerOrder, Follows, NothingFromTheFuture
  <2>6. GatewayServesValidated'
    BY DEF RankerOrder, Follows, GatewayServesValidated, CheckedIsNext, PassedOnly
  <2> QED
    BY <2>1, <2>2, <2>3, <2>4, <2>5, <2>6 DEF IndInv
<1>2. CASE PublishRaw
  <2> USE <1>2 DEF PublishRaw, Goto, redisVars, fetcherVars, validatorVars, rankerVars
  <2> USE <1>0
  <2>1. TypeOK'
    BY AbsentOK DEF TypeOK, Stages, Workers
  <2>2. NothingFromTheFuture'
    BY DEF NothingFromTheFuture, RankerOrder, Follows, NoRaw, NoValidated, NoPool
  <2>3. FetcherOrder'
    BY DEF FetcherOrder, NothingFromTheFuture, CheckedIsNext, NoRaw
  <2>4. CheckedIsNext'
    BY DEF CheckedIsNext, FetcherOrder, NothingFromTheFuture, PassedOnly, NoRaw, NoValidated, NoStreaks
  <2>5. RankerOrder'
    BY DEF CheckedIsNext, RankerOrder, Follows, NothingFromTheFuture
  <2>6. GatewayServesValidated'
    BY DEF RankerOrder, Follows, GatewayServesValidated, CheckedIsNext, PassedOnly
  <2> QED
    BY <2>1, <2>2, <2>3, <2>4, <2>5, <2>6 DEF IndInv
<1>3. CASE ReadRaw
  <2> USE <1>3 DEF ReadRaw, Goto, redisVars, fetcherVars, validatorVars, rankerVars
  <2> USE <1>0
  <2>1. TypeOK'
    BY AbsentOK DEF TypeOK, Stages, Workers
  <2>2. NothingFromTheFuture'
    BY DEF NothingFromTheFuture, RankerOrder, Follows, NoRaw, NoValidated, NoPool
  <2>3. FetcherOrder'
    BY DEF FetcherOrder, NothingFromTheFuture, CheckedIsNext, NoRaw
  <2>4. CheckedIsNext'
    BY DEF CheckedIsNext, FetcherOrder, NothingFromTheFuture, PassedOnly, NoRaw, NoValidated, NoStreaks
  <2>5. RankerOrder'
    BY DEF CheckedIsNext, RankerOrder, Follows, NothingFromTheFuture
  <2>6. GatewayServesValidated'
    BY DEF RankerOrder, Follows, GatewayServesValidated, CheckedIsNext, PassedOnly
  <2> QED
    BY <2>1, <2>2, <2>3, <2>4, <2>5, <2>6 DEF IndInv
<1>4. CASE ReadPrevious
  <2> USE <1>4 DEF ReadPrevious, Goto, redisVars, fetcherVars, validatorVars, rankerVars
  <2> USE <1>0
  <2>1. TypeOK'
    BY AbsentOK DEF TypeOK, Stages, Workers
  <2>2. NothingFromTheFuture'
    BY DEF NothingFromTheFuture, RankerOrder, Follows, NoRaw, NoValidated, NoPool
  <2>3. FetcherOrder'
    BY DEF FetcherOrder, NothingFromTheFuture, CheckedIsNext, NoRaw
  <2>4. CheckedIsNext'
    BY DEF CheckedIsNext, FetcherOrder, NothingFromTheFuture, PassedOnly, NoRaw, NoValidated, NoStreaks
  <2>5. RankerOrder'
    BY DEF CheckedIsNext, RankerOrder, Follows, NothingFromTheFuture
  <2>6. GatewayServesValidated'
    BY DEF RankerOrder, Follows, GatewayServesValidated, CheckedIsNext, PassedOnly
  <2> QED
    BY <2>1, <2>2, <2>3, <2>4, <2>5, <2>6 DEF IndInv
<1>5. CASE CycleFails
  <2> USE <1>5 DEF CycleFails, Goto, redisVars, fetcherVars, validatorVars, rankerVars
  <2> USE <1>0
  <2>1. TypeOK'
    BY AbsentOK DEF TypeOK, Stages, Workers
  <2>2. NothingFromTheFuture'
    BY DEF NothingFromTheFuture, RankerOrder, Follows, NoRaw, NoValidated, NoPool
  <2>3. FetcherOrder'
    BY DEF FetcherOrder, NothingFromTheFuture, CheckedIsNext, NoRaw
  <2>4. CheckedIsNext'
    BY DEF CheckedIsNext, FetcherOrder, NothingFromTheFuture, PassedOnly, NoRaw, NoValidated, NoStreaks
  <2>5. RankerOrder'
    BY DEF CheckedIsNext, RankerOrder, Follows, NothingFromTheFuture
  <2>6. GatewayServesValidated'
    BY DEF RankerOrder, Follows, GatewayServesValidated, CheckedIsNext, PassedOnly
  <2> QED
    BY <2>1, <2>2, <2>3, <2>4, <2>5, <2>6 DEF IndInv
<1>6. CASE FinishProbes
  <2> USE <1>6 DEF FinishProbes, Goto, redisVars, fetcherVars, validatorVars, rankerVars
  <2> USE <1>0
  <2>0. PICK healthy \in SUBSET rawRead.entries, s \in Streaks :
          /\ checked' = [gen |-> now, cycle |-> cycle + 1, src |-> rawRead.gen,
                         streak |-> s]
          /\ healthyIn' = [healthyIn EXCEPT ![cycle + 1] = healthy]
          /\ s \in StreaksAfter(healthy)
    BY DEF StreaksAfter
  <2>00. \A c \in Candidates : s[c] > 0 => c \in healthy
    BY <2>0 DEF StreaksAfter
  <2>01. cycle + 1 \in Cycles /\ cycle \in Cycles /\ healthy \subseteq Candidates
    <3>1. cycle < MaxCycles
      BY DEF CheckedIsNext
    <3>2. cycle \in Cycles
      BY DEF TypeOK
    <3>3. cycle + 1 \in Cycles
      BY <3>1, NextCycle
    <3>4. rawRead.entries \subseteq Candidates
      BY DEF TypeOK, RawSnapshot
    <3> QED
      BY <2>0, <3>2, <3>3, <3>4
  <2>1. TypeOK'
    <3>1. /\ checked' \in ValidatedSnapshot /\ cycle' \in Cycles
          /\ healthyIn' \in [Cycles -> SUBSET Candidates]
      <4>1. checked' \in ValidatedSnapshot
        BY <2>0, <2>01 DEF TypeOK, ValidatedSnapshot, RawSnapshot, Times
      <4> QED
        BY <2>0, <2>01, <4>1
    <3> QED
      BY <3>1, AbsentOK DEF TypeOK, Stages, Workers
  <2>2. NothingFromTheFuture'
    BY DEF NothingFromTheFuture, RankerOrder, Follows, NoRaw, NoValidated, NoPool
  <2>3. FetcherOrder'
    BY DEF FetcherOrder, NothingFromTheFuture, CheckedIsNext, NoRaw
  <2>4. CheckedIsNext'
    <3>1. PassedOnly(checked)' /\ PassedOnly(validated)'
      <4>1. healthyIn'[cycle + 1] = healthy
        BY <2>0, <2>01
      <4>2. PassedOnly(checked)'
        BY <2>0, <2>00, <4>1 DEF PassedOnly
      <4>3. healthyIn'[validated.cycle] = healthyIn[validated.cycle]
        BY <2>0, <2>01 DEF CheckedIsNext, Cycles
      <4> QED
        BY <4>2, <4>3 DEF CheckedIsNext, PassedOnly
    <3>2. checked'.cycle = cycle + 1 /\ checked'.src = rawRead.gen /\ checked'.gen = now
      BY <2>0
    <3> QED
      BY <3>1, <3>2 DEF CheckedIsNext, FetcherOrder, NothingFromTheFuture, PassedOnly,
         NoRaw
  <2>5. RankerOrder'
    BY DEF CheckedIsNext, RankerOrder, Follows, NothingFromTheFuture
  <2>6. GatewayServesValidated'
    <3>1. ASSUME NEW pool \in {reserve, active, gateway}
          PROVE  pool.cycle <= cycle /\ pool.cycle \in Nat
      BY DEF RankerOrder, Follows, CheckedIsNext
    <3>2. ASSUME NEW k \in Nat, k <= cycle PROVE healthyIn'[k] = healthyIn[k]
      BY <2>0, <3>2 DEF Cycles
    <3> QED
      BY <3>1, <3>2 DEF GatewayServesValidated
  <2> QED
    BY <2>1, <2>2, <2>3, <2>4, <2>5, <2>6 DEF IndInv
<1>7. CASE PublishValidated
  <2> USE <1>7 DEF PublishValidated, Goto, redisVars, fetcherVars, validatorVars, rankerVars
  <2> USE <1>0
  <2>1. TypeOK'
    BY AbsentOK DEF TypeOK, Stages, Workers
  <2>2. NothingFromTheFuture'
    BY DEF NothingFromTheFuture, RankerOrder, Follows, NoRaw, NoValidated, NoPool
  <2>3. FetcherOrder'
    BY DEF FetcherOrder, NothingFromTheFuture, CheckedIsNext, NoRaw
  <2>4. CheckedIsNext'
    BY DEF CheckedIsNext, FetcherOrder, NothingFromTheFuture, PassedOnly, NoRaw, NoValidated, NoStreaks
  <2>5. RankerOrder'
    BY DEF CheckedIsNext, RankerOrder, Follows, NothingFromTheFuture
  <2>6. GatewayServesValidated'
    BY DEF RankerOrder, Follows, GatewayServesValidated, CheckedIsNext, PassedOnly
  <2> QED
    BY <2>1, <2>2, <2>3, <2>4, <2>5, <2>6 DEF IndInv
<1>8. CASE SetLastSuccess
  <2> USE <1>8 DEF SetLastSuccess, Goto, redisVars, fetcherVars, validatorVars, rankerVars
  <2> USE <1>0
  <2>1. TypeOK'
    BY AbsentOK DEF TypeOK, Stages, Workers, RawSnapshot, ValidatedSnapshot, Success, PoolSnapshot, Streaks,
       Times, Cycles
  <2>2. NothingFromTheFuture'
    BY DEF NothingFromTheFuture, RankerOrder, Follows, NoRaw, NoValidated, NoPool
  <2>3. FetcherOrder'
    BY DEF FetcherOrder, NothingFromTheFuture, CheckedIsNext, NoRaw
  <2>4. CheckedIsNext'
    BY DEF CheckedIsNext, FetcherOrder, NothingFromTheFuture, PassedOnly, NoRaw, NoValidated, NoStreaks
  <2>5. RankerOrder'
    BY DEF CheckedIsNext, RankerOrder, Follows, NothingFromTheFuture
  <2>6. GatewayServesValidated'
    BY DEF RankerOrder, Follows, GatewayServesValidated, CheckedIsNext, PassedOnly
  <2> QED
    BY <2>1, <2>2, <2>3, <2>4, <2>5, <2>6 DEF IndInv
<1>9. CASE RankValidated
  <2> USE <1>9 DEF RankValidated, Derived, Goto, redisVars, fetcherVars, validatorVars, rankerVars
  <2> USE <1>0
  <2>0. PICK kept \in SUBSET Entries(validated), taken \in SUBSET Entries(validated) :
          /\ taken \subseteq kept
          /\ ranked' = [gen |-> now, cycle |-> validated.cycle, src |-> validated.gen,
                        rawSrc |-> validated.src, entries |-> kept]
          /\ chosen' = [gen |-> now, cycle |-> validated.cycle, src |-> validated.gen,
                        rawSrc |-> validated.src, entries |-> taken]
    OBVIOUS
  <2>1. TypeOK'
    <3>1. ranked' \in PoolSnapshot /\ chosen' \in PoolSnapshot
      <4>1. kept \in SUBSET Candidates /\ taken \in SUBSET Candidates
        BY <2>0 DEF Entries
      <4>2. /\ now \in Times /\ validated.cycle \in Cycles /\ validated.gen \in Times
            /\ validated.src \in Times
        BY DEF TypeOK, ValidatedSnapshot, Times
      <4> QED
        BY <2>0, <4>1, <4>2 DEF PoolSnapshot
    <3>2. now \in Times
      BY DEF TypeOK, Times
    <3> QED
      BY <3>1, AbsentOK DEF TypeOK, Stages, Workers
  <2>2. NothingFromTheFuture'
    BY DEF NothingFromTheFuture, RankerOrder, Follows, NoRaw, NoValidated, NoPool
  <2>3. FetcherOrder'
    BY DEF FetcherOrder, NothingFromTheFuture, CheckedIsNext, NoRaw
  <2>4. CheckedIsNext'
    BY DEF CheckedIsNext, FetcherOrder, NothingFromTheFuture, PassedOnly, NoRaw, NoValidated, NoStreaks
  <2>5. RankerOrder'
    <3>1. /\ ranked'.gen = now /\ ranked'.cycle = validated.cycle
          /\ ranked'.src = validated.gen /\ chosen'.gen = now
          /\ chosen'.cycle = validated.cycle /\ chosen'.src = validated.gen
          /\ chosen'.entries \subseteq ranked'.entries
          /\ ranked'.entries \subseteq healthyIn[validated.cycle]
      BY <2>0 DEF CheckedIsNext, PassedOnly, Entries
    <3> QED
      BY <3>1 DEF RankerOrder, Follows, NothingFromTheFuture
  <2>6. GatewayServesValidated'
    BY DEF RankerOrder, Follows, GatewayServesValidated, CheckedIsNext, PassedOnly
  <2> QED
    BY <2>1, <2>2, <2>3, <2>4, <2>5, <2>6 DEF IndInv
<1>10. CASE PublishReserve
  <2> USE <1>10 DEF PublishReserve, Goto, redisVars, fetcherVars, validatorVars, rankerVars
  <2> USE <1>0
  <2>1. TypeOK'
    BY AbsentOK DEF TypeOK, Stages, Workers
  <2>2. NothingFromTheFuture'
    BY DEF NothingFromTheFuture, RankerOrder, Follows, NoRaw, NoValidated, NoPool
  <2>3. FetcherOrder'
    BY DEF FetcherOrder, NothingFromTheFuture, CheckedIsNext, NoRaw
  <2>4. CheckedIsNext'
    BY DEF CheckedIsNext, FetcherOrder, NothingFromTheFuture, PassedOnly, NoRaw, NoValidated, NoStreaks
  <2>5. RankerOrder'
    BY DEF CheckedIsNext, RankerOrder, Follows, NothingFromTheFuture
  <2>6. GatewayServesValidated'
    BY DEF RankerOrder, Follows, GatewayServesValidated, CheckedIsNext, PassedOnly
  <2> QED
    BY <2>1, <2>2, <2>3, <2>4, <2>5, <2>6 DEF IndInv
<1>11. CASE PublishActive
  <2> USE <1>11 DEF PublishActive, Goto, redisVars, fetcherVars, validatorVars, rankerVars
  <2> USE <1>0
  <2>1. TypeOK'
    BY AbsentOK DEF TypeOK, Stages, Workers
  <2>2. NothingFromTheFuture'
    BY DEF NothingFromTheFuture, RankerOrder, Follows, NoRaw, NoValidated, NoPool
  <2>3. FetcherOrder'
    BY DEF FetcherOrder, NothingFromTheFuture, CheckedIsNext, NoRaw
  <2>4. CheckedIsNext'
    BY DEF CheckedIsNext, FetcherOrder, NothingFromTheFuture, PassedOnly, NoRaw, NoValidated, NoStreaks
  <2>5. RankerOrder'
    BY DEF CheckedIsNext, RankerOrder, Follows, NothingFromTheFuture
  <2>6. GatewayServesValidated'
    BY DEF RankerOrder, Follows, GatewayServesValidated, CheckedIsNext, PassedOnly
  <2> QED
    BY <2>1, <2>2, <2>3, <2>4, <2>5, <2>6 DEF IndInv
<1>12. CASE PublishGateway
  <2> USE <1>12 DEF PublishGateway, Goto, redisVars, fetcherVars, validatorVars, rankerVars
  <2> USE <1>0
  <2>1. TypeOK'
    BY AbsentOK DEF TypeOK, Stages, Workers
  <2>2. NothingFromTheFuture'
    BY DEF NothingFromTheFuture, RankerOrder, Follows, NoRaw, NoValidated, NoPool
  <2>3. FetcherOrder'
    BY DEF FetcherOrder, NothingFromTheFuture, CheckedIsNext, NoRaw
  <2>4. CheckedIsNext'
    BY DEF CheckedIsNext, FetcherOrder, NothingFromTheFuture, PassedOnly, NoRaw, NoValidated, NoStreaks
  <2>5. RankerOrder'
    BY DEF CheckedIsNext, RankerOrder, Follows, NothingFromTheFuture
  <2>6. GatewayServesValidated'
    BY DEF RankerOrder, Follows, GatewayServesValidated, CheckedIsNext, PassedOnly
  <2> QED
    BY <2>1, <2>2, <2>3, <2>4, <2>5, <2>6 DEF IndInv
<1>13. CASE Tick
  <2> USE <1>13 DEF Tick, Goto, redisVars, fetcherVars, validatorVars, rankerVars
  <2> USE <1>0
  <2>1. TypeOK'
    BY AbsentOK DEF TypeOK, Stages, Workers
  <2>2. NothingFromTheFuture'
    BY DEF NothingFromTheFuture, RankerOrder, Follows, NoRaw, NoValidated, NoPool
  <2>3. FetcherOrder'
    BY DEF FetcherOrder, NothingFromTheFuture, CheckedIsNext, NoRaw
  <2>4. CheckedIsNext'
    BY DEF CheckedIsNext, FetcherOrder, NothingFromTheFuture, PassedOnly, NoRaw, NoValidated, NoStreaks
  <2>5. RankerOrder'
    BY DEF CheckedIsNext, RankerOrder, Follows, NothingFromTheFuture
  <2>6. GatewayServesValidated'
    BY DEF RankerOrder, Follows, GatewayServesValidated, CheckedIsNext, PassedOnly
  <2> QED
    BY <2>1, <2>2, <2>3, <2>4, <2>5, <2>6 DEF IndInv
<1>14. ASSUME NEW w \in Workers, Crash(w) PROVE IndInv'
  <2> USE <1>14 DEF Crash, Forget, Goto, redisVars, fetcherVars, validatorVars, rankerVars
  <2> USE <1>0
  <2>1. TypeOK'
    BY AbsentOK DEF TypeOK, Stages, Workers
  <2>2. NothingFromTheFuture'
    BY DEF NothingFromTheFuture, RankerOrder, Follows, NoRaw, NoValidated, NoPool
  <2>3. FetcherOrder'
    BY DEF FetcherOrder, NothingFromTheFuture, CheckedIsNext, NoRaw
  <2>4. CheckedIsNext'
    BY DEF CheckedIsNext, FetcherOrder, NothingFromTheFuture, PassedOnly, NoRaw, NoValidated, NoStreaks
  <2>5. RankerOrder'
    BY DEF CheckedIsNext, RankerOrder, Follows, NothingFromTheFuture
  <2>6. GatewayServesValidated'
    BY DEF RankerOrder, Follows, GatewayServesValidated, CheckedIsNext, PassedOnly
  <2> QED
    BY <2>1, <2>2, <2>3, <2>4, <2>5, <2>6 DEF IndInv
<1>15. ASSUME NEW w \in Workers, Restart(w) PROVE IndInv'
  <2> USE <1>15 DEF Restart, Goto, redisVars, fetcherVars, validatorVars, rankerVars
  <2> USE <1>0
  <2>1. TypeOK'
    BY AbsentOK DEF TypeOK, Stages, Workers
  <2>2. NothingFromTheFuture'
    BY DEF NothingFromTheFuture, RankerOrder, Follows, NoRaw, NoValidated, NoPool
  <2>3. FetcherOrder'
    BY DEF FetcherOrder, NothingFromTheFuture, CheckedIsNext, NoRaw
  <2>4. CheckedIsNext'
    BY DEF CheckedIsNext, FetcherOrder, NothingFromTheFuture, PassedOnly, NoRaw, NoValidated, NoStreaks
  <2>5. RankerOrder'
    BY DEF CheckedIsNext, RankerOrder, Follows, NothingFromTheFuture
  <2>6. GatewayServesValidated'
    BY DEF RankerOrder, Follows, GatewayServesValidated, CheckedIsNext, PassedOnly
  <2> QED
    BY <2>1, <2>2, <2>3, <2>4, <2>5, <2>6 DEF IndInv
<1>16. CASE UNCHANGED pipelineVars
  <2> USE <1>16 DEF pipelineVars, Goto, redisVars, fetcherVars, validatorVars, rankerVars
  <2> USE <1>0
  <2>1. TypeOK'
    BY AbsentOK DEF TypeOK, Stages, Workers
  <2>2. NothingFromTheFuture'
    BY DEF NothingFromTheFuture, RankerOrder, Follows, NoRaw, NoValidated, NoPool
  <2>3. FetcherOrder'
    BY DEF FetcherOrder, NothingFromTheFuture, CheckedIsNext, NoRaw
  <2>4. CheckedIsNext'
    BY DEF CheckedIsNext, FetcherOrder, NothingFromTheFuture, PassedOnly, NoRaw, NoValidated, NoStreaks
  <2>5. RankerOrder'
    BY DEF CheckedIsNext, RankerOrder, Follows, NothingFromTheFuture
  <2>6. GatewayServesValidated'
    BY DEF RankerOrder, Follows, GatewayServesValidated, CheckedIsNext, PassedOnly
  <2> QED
    BY <2>1, <2>2, <2>3, <2>4, <2>5, <2>6 DEF IndInv
<1> QED
  BY <1>1, <1>2, <1>3, <1>4, <1>5, <1>6, <1>7, <1>8, <1>9, <1>10, <1>11, <1>12, <1>13, <1>14, <1>15, <1>16
     DEF PipelineNext, FetcherStep, ValidatorStep, RankerStep

LEMMA Invariance == Spec => []IndInv
<1> QED
  BY InitIndInv, NextIndInv, PTL DEF Spec

----------------------------------------------------------------------------
(* Theorems. *)

\* Type correctness of the keys, of what the workers hold and of the histories.
THEOREM PipelineTypeOK == Spec => []TypeOK
<1>1. IndInv => TypeOK
  BY DEF IndInv
<1> QED
  BY <1>1, Invariance, PTL

\* What the reserve, the active pool and the relay's key list has passed the
\* probes of the cycle they name.
THEOREM PipelineServesValidated == Spec => []GatewayServesValidated
<1>1. IndInv => GatewayServesValidated
  BY DEF IndInv
<1> QED
  BY <1>1, Invariance, PTL

\* Lineage never decreases from the relay's key up to the raw snapshot.
THEOREM PipelineLineage == Spec => []LineageIsVisible
<1>1. IndInv => LineageIsVisible
  BY DEF IndInv, RankerOrder, Follows, CheckedIsNext, FetcherOrder, LineageIsVisible
<1> QED
  BY <1>1, Invariance, PTL

\* No key goes back to an earlier validation.
THEOREM PipelineMonotone == Spec => LineageNeverBackwards
<1> DEFINE Forward ==
      /\ validated'.cycle >= validated.cycle /\ reserve'.cycle >= reserve.cycle
      /\ active'.cycle >= active.cycle /\ gateway'.cycle >= gateway.cycle
      /\ lastSuccess'.cycle >= lastSuccess.cycle
<1>1. IndInv /\ [PipelineNext]_pipelineVars => [Forward]_pipelineVars
  <2> SUFFICES ASSUME IndInv, PipelineNext PROVE Forward
    BY DEF pipelineVars
  <2>0. /\ validated.cycle \in Nat /\ checked.cycle \in Nat /\ lastSuccess.cycle \in Nat
        /\ \A pool \in {reserve, active, gateway, ranked, chosen} : pool.cycle \in Nat
        /\ CheckedIsNext /\ RankerOrder
    BY Numbers DEF IndInv
  <2>1. CASE PublishValidated
    BY <2>0, <2>1 DEF PublishValidated, CheckedIsNext
  <2>2. CASE SetLastSuccess
    BY <2>0, <2>2 DEF SetLastSuccess, CheckedIsNext
  <2>3. CASE PublishReserve \/ PublishActive \/ PublishGateway
    BY <2>0, <2>3 DEF PublishReserve, PublishActive, PublishGateway, RankerOrder, Follows
  <2>4. CASE ~PublishValidated /\ ~SetLastSuccess /\ ~PublishReserve /\ ~PublishActive
             /\ ~PublishGateway
    <3>1. UNCHANGED <<validated, lastSuccess, reserve, active, gateway>>
      BY <2>4 DEF PipelineNext, FetcherStep, ValidatorStep, RankerStep, Collect,
         PublishRaw, ReadRaw, ReadPrevious, CycleFails, FinishProbes, RankValidated, Derived,
         Crash, Restart, Tick, redisVars
    <3> QED
      BY <2>0, <3>1
  <2> QED
    BY <2>1, <2>2, <2>3, <2>4
<1> QED
  BY <1>1, Invariance, PTL DEF Spec, LineageNeverBackwards

\* A completed ranking leaves the relay's key equal to the active pool and the
\* active pool within the reserve.
THEOREM PipelineAligned == Spec => RankerLeavesPoolsAligned
<1> DEFINE Aligned == pc["ranker"] = "gateway" /\ pc'["ranker"] = "idle" =>
                        gateway' = active' /\ active'.entries \subseteq reserve'.entries
<1>1. IndInv /\ [PipelineNext]_pipelineVars => [Aligned]_pipelineVars
  <2> SUFFICES ASSUME IndInv, PipelineNext, pc["ranker"] = "gateway", pc'["ranker"] = "idle"
               PROVE  gateway' = active' /\ active'.entries \subseteq reserve'.entries
    BY DEF pipelineVars
  <2>0. /\ active = chosen /\ reserve = ranked /\ chosen.entries \subseteq ranked.entries
        /\ pc \in [Workers -> Stages]
    BY DEF IndInv, RankerOrder, TypeOK
  <2>1. PublishGateway
    <3>1. ~FetcherStep
      BY <2>0 DEF FetcherStep, Collect, PublishRaw, Goto, Workers
    <3>2. ~ValidatorStep
      BY <2>0 DEF ValidatorStep, ReadRaw, ReadPrevious, CycleFails, FinishProbes,
         PublishValidated, SetLastSuccess, Goto, Workers
    <3>3. ~Tick /\ ~(\E w \in Workers : Crash(w) \/ Restart(w))
      BY <2>0 DEF Tick, Crash, Restart, Goto, Workers
    <3> QED
      BY <2>0, <3>1, <3>2, <3>3
         DEF PipelineNext, RankerStep, RankValidated, Derived, PublishReserve, PublishActive
  <2> QED
    BY <2>0, <2>1 DEF PublishGateway
<1> QED
  BY <1>1, Invariance, PTL DEF Spec, RankerLeavesPoolsAligned

\* What is about to be called the last success is one.
LastSuccessInv ==
  /\ LastSuccessIsReal
  /\ pc["validator"] = "success" => Entries(checked) # {}

LEMMA LastSuccessStep ==
  ASSUME IndInv, LastSuccessInv, [PipelineNext]_pipelineVars
  PROVE  LastSuccessInv'
<1> USE DEF LastSuccessInv, LastSuccessIsReal, Goto
<1>0. /\ pc \in [Workers -> Stages] /\ Workers = {"fetcher", "validator", "ranker"}
      /\ healthyIn \in [Cycles -> SUBSET Candidates]
      /\ cycle \in Nat /\ validated.cycle \in Nat /\ checked.cycle \in Nat
      /\ lastSuccess.cycle \in Nat
      /\ CheckedIsNext
  BY Numbers DEF IndInv, TypeOK, Workers
<1>1. CASE FinishProbes
  <2>1. /\ UNCHANGED <<validated, lastSuccess>> /\ pc'["validator"] = "publish"
        /\ \E healthy : healthyIn' = [healthyIn EXCEPT ![cycle + 1] = healthy]
    BY <1>0, <1>1 DEF FinishProbes, redisVars
  <2>2. lastSuccess.cycle # cycle + 1
    BY <1>0 DEF CheckedIsNext
  <2>3. healthyIn'[lastSuccess.cycle] = healthyIn[lastSuccess.cycle]
    BY <1>0, <2>1, <2>2
  <2> QED
    BY <2>1, <2>3
<1>2. CASE PublishValidated
  <2>1. /\ validated' = checked /\ UNCHANGED <<lastSuccess, healthyIn>>
        /\ pc'["validator"] = "success" => checked' = checked /\ Entries(checked) # {}
    BY <1>0, <1>2 DEF PublishValidated
  <2>2. lastSuccess.cycle # checked.cycle
    BY <1>0, <1>2 DEF PublishValidated, CheckedIsNext
  <2> QED
    BY <2>1, <2>2 DEF Entries
<1>3. CASE SetLastSuccess
  <2>1. /\ lastSuccess' = [cycle |-> checked.cycle, at |-> checked.gen]
        /\ UNCHANGED <<validated, healthyIn>> /\ pc'["validator"] = "idle"
        /\ checked = validated /\ Entries(checked) # {}
    BY <1>0, <1>3 DEF SetLastSuccess, CheckedIsNext
  <2>2. healthyIn[checked.cycle] # {}
    BY <1>0, <2>1 DEF CheckedIsNext, PassedOnly, Entries
  <2> QED
    BY <2>1, <2>2
<1>4. CASE FetcherStep \/ RankerStep \/ Tick
  BY <1>0, <1>4 DEF FetcherStep, RankerStep, Collect, PublishRaw, RankValidated,
     PublishReserve, PublishActive, PublishGateway, Tick, redisVars, validatorVars, Entries
<1>5. CASE ReadRaw \/ ReadPrevious \/ CycleFails
  BY <1>0, <1>5 DEF ReadRaw, ReadPrevious, CycleFails, redisVars, Entries
<1>6. ASSUME NEW w \in Workers, Crash(w) \/ Restart(w) PROVE LastSuccessInv'
  BY <1>0, <1>6 DEF Crash, Restart, Forget, redisVars, validatorVars, Entries
<1>7. CASE UNCHANGED pipelineVars
  BY <1>7 DEF pipelineVars, redisVars, validatorVars, Entries
<1> QED
  BY <1>1, <1>2, <1>3, <1>4, <1>5, <1>6, <1>7 DEF PipelineNext, ValidatorStep

\* validator:last_success names a published cycle in which something passed, even
\* when the validator died before it wrote the key.
THEOREM PipelineLastSuccess == Spec => []LastSuccessIsReal
<1>1. Init => LastSuccessInv
  BY DEF Init, LastSuccessInv, LastSuccessIsReal, NoSuccess, Workers
<1>2. IndInv /\ LastSuccessInv /\ [PipelineNext]_pipelineVars => LastSuccessInv'
  BY LastSuccessStep
<1>3. LastSuccessInv => LastSuccessIsReal
  BY DEF LastSuccessInv
<1> QED
  BY <1>1, <1>2, <1>3, Invariance, PTL DEF Spec

----------------------------------------------------------------------------
(* The streak of a candidate is its own when no two candidates share an       *)
(* address; StreakIsConsecutive fails when two do.                            *)

DistinctAddresses ==
  \A c, d \in Candidates : AddressOf[c] = AddressOf[d] => c = d

StreakInv ==
  /\ StreakIsConsecutive
  /\ pc["validator"] = "probe" => previous = validated.streak
  /\ pc["validator"] = "publish" =>
       checked.streak = [c \in Candidates |->
                           IF c \in healthyIn[checked.cycle] THEN inARow[c] + 1 ELSE 0]

\* With distinct addresses the lookup by address finds the candidate itself.
LEMMA ContinuedIsOwn ==
  ASSUME DistinctAddresses, previous \in Streaks, NEW c \in Candidates
  PROVE  Continued(c) = {previous[c]}
<1> DEFINE same == {d \in Candidates : AddressOf[d] = AddressOf[c] /\ previous[d] > 0}
<1>1. same = (IF previous[c] > 0 THEN {c} ELSE {})
  BY DEF DistinctAddresses
<1>2. previous[c] \in Nat
  BY PipelineAssumption DEF Streaks, Cycles
<1>3. CASE previous[c] > 0
  BY <1>1, <1>3 DEF Continued
<1>4. CASE previous[c] = 0
  BY <1>1, <1>4 DEF Continued
<1> QED
  BY <1>2, <1>3, <1>4

\* The streaks after a cycle, in closed form.
LEMMA StreaksAfterOwn ==
  ASSUME DistinctAddresses, previous \in Streaks, NEW healthy,
         NEW s \in StreaksAfter(healthy)
  PROVE  s = [c \in Candidates |-> IF c \in healthy THEN previous[c] + 1 ELSE 0]
<1>1. s \in [Candidates -> Cycles]
  BY DEF StreaksAfter, Streaks
<1>2. ASSUME NEW c \in Candidates
      PROVE  s[c] = IF c \in healthy THEN previous[c] + 1 ELSE 0
  BY ContinuedIsOwn DEF StreaksAfter
<1> QED
  BY <1>1, <1>2

LEMMA StreakStep ==
  ASSUME DistinctAddresses, IndInv, StreakInv, [PipelineNext]_pipelineVars
  PROVE  StreakInv'
<1> USE DEF StreakInv, StreakIsConsecutive, Goto
<1>0. /\ pc \in [Workers -> Stages] /\ Workers = {"fetcher", "validator", "ranker"}
      /\ previous \in Streaks /\ healthyIn \in [Cycles -> SUBSET Candidates]
      /\ pc["validator"] \in {"previous", "probe"} => cycle + 1 \in Cycles
      /\ pc["validator"] = "publish" => checked.cycle = cycle
  BY NextCycle DEF IndInv, TypeOK, Workers, CheckedIsNext
<1>1. CASE ReadPrevious
  BY <1>0, <1>1 DEF ReadPrevious, redisVars
<1>2. CASE FinishProbes
  <2>1. PICK healthy \in SUBSET rawRead.entries, s \in Streaks :
          /\ s \in StreaksAfter(healthy)
          /\ checked' = [gen |-> now, cycle |-> cycle + 1, src |-> rawRead.gen,
                         streak |-> s]
          /\ healthyIn' = [healthyIn EXCEPT ![cycle + 1] = healthy]
    BY <1>2 DEF FinishProbes, StreaksAfter
  <2>2. /\ pc["validator"] = "probe" /\ pc'["validator"] = "publish"
        /\ UNCHANGED <<validated, inARow>>
    BY <1>0, <1>2 DEF FinishProbes, redisVars
  <2>3. s = [c \in Candidates |-> IF c \in healthy THEN previous[c] + 1 ELSE 0]
    BY <1>0, <2>1, StreaksAfterOwn
  <2>4. healthyIn'[checked'.cycle] = healthy /\ checked'.streak = s
    BY <1>0, <2>1, <2>2
  <2> QED
    BY <2>2, <2>3, <2>4
<1>3. CASE PublishValidated
  BY <1>0, <1>3 DEF PublishValidated
<1>4. CASE FetcherStep \/ RankerStep \/ Tick
  BY <1>0, <1>4 DEF FetcherStep, RankerStep, Collect, PublishRaw, RankValidated, Derived,
     PublishReserve, PublishActive, PublishGateway, Tick, redisVars, validatorVars
<1>5. CASE ReadRaw \/ CycleFails \/ SetLastSuccess
  BY <1>0, <1>5 DEF ReadRaw, CycleFails, SetLastSuccess, redisVars
<1>6. ASSUME NEW w \in Workers, Crash(w) \/ Restart(w) PROVE StreakInv'
  BY <1>0, <1>6 DEF Crash, Restart, Forget, redisVars, validatorVars
<1>7. CASE UNCHANGED pipelineVars
  BY <1>7 DEF pipelineVars, redisVars, validatorVars
<1> QED
  BY <1>1, <1>2, <1>3, <1>4, <1>5, <1>6, <1>7 DEF PipelineNext, ValidatorStep

\* Where every candidate has an address of its own, success_streak counts its
\* published successes in a row, through lost cycles, crashes and restarts.
THEOREM PipelineStreaks == DistinctAddresses => (Spec => []StreakIsConsecutive)
<1> SUFFICES ASSUME DistinctAddresses PROVE Spec => []StreakIsConsecutive
  OBVIOUS
<1>1. Init => StreakInv
  BY DEF Init, StreakInv, StreakIsConsecutive, NoValidated, Workers
<1>2. IndInv /\ StreakInv /\ [PipelineNext]_pipelineVars => StreakInv'
  BY StreakStep
<1>3. StreakInv => StreakIsConsecutive
  BY DEF StreakInv
<1> QED
  BY <1>1, <1>2, <1>3, Invariance, PTL DEF Spec

=============================================================================

---------------------------- MODULE PoolPipeline ----------------------------
(***************************************************************************)
(* The proxy-pool workers under validator/: fetcher, validator and ranker, *)
(* three processes that never call each other and exchange whole snapshots *)
(* through Redis keys.  Every worker is a loop over cycle(); a step is one *)
(* command to Redis with the computation before it, and a worker may die   *)
(* between any two of them.                                                *)
(*                                                                         *)
(* A publication is the SET of a private temporary key followed by RENAME: *)
(* only the RENAME is seen by others, so it is one step, before or after   *)
(* which the worker may die.  What a probe finds, and how the ranker sorts *)
(* and cuts, is a choice here: the properties are about who may be listed  *)
(* and from which validation, not about the order of a list.               *)
(***************************************************************************)
EXTENDS Integers, FiniteSets

CONSTANTS
  Candidates,    \* an address together with a credential_ref
  AddressOf,     \* the address part; two candidates may share one
  PoolSize,      \* POOL_SIZE
  ReserveSize,   \* RESERVE_SIZE
  MaxNow,        \* bound on the clock
  MaxCycles,     \* bound on the cycles of the validator
  MaxCrashes     \* bound on the deaths of workers

ASSUME PipelineAssumption ==
  /\ IsFiniteSet(Candidates)
  /\ DOMAIN AddressOf = Candidates
  /\ PoolSize \in Nat \ {0} /\ ReserveSize \in Nat \ {0} /\ PoolSize <= ReserveSize
  /\ MaxNow \in Nat /\ MaxCycles \in Nat /\ MaxCrashes \in Nat

VARIABLES
  now,          \* int(time.time()), from 0
  raw,          \* proxy_pool:raw:v1
  validated,    \* proxy_pool:validated:v1
  lastSuccess,  \* validator:last_success:v1
  reserve,      \* proxy_pool:reserve:v1
  active,       \* proxy_pool:active:v1
  gateway,      \* transparent-gateway:validated:v1, which the relay reads
  pc,           \* where each worker stands in its cycle
  collected,    \* fetcher: snapshot
  rawRead,      \* validator: raw_snapshot
  previous,     \* validator: previous_streaks, still per candidate
  checked,      \* validator: snapshot
  ranked,       \* ranker: reserve_snapshot
  chosen,       \* ranker: active_snapshot
  cycle,        \* history: cycles the validator has completed
  healthyIn,    \* history: candidates that passed the probes of each cycle
  inARow,       \* history: published cycles in a row a candidate has passed
  crashes       \* deaths so far

poolKeys == <<reserve, active, gateway>>
redisVars == <<raw, validated, lastSuccess, poolKeys>>
fetcherVars == <<collected>>
historyVars == <<cycle, healthyIn, inARow>>
validatorVars == <<rawRead, previous, checked, historyVars>>
rankerVars == <<ranked, chosen>>
pipelineVars ==
  <<now, redisVars, pc, fetcherVars, validatorVars, rankerVars, crashes>>

Workers == {"fetcher", "validator", "ranker"}

Stages == {"idle", "dead", "publish", "previous", "probe", "success",
           "reserve", "active", "gateway"}

----------------------------------------------------------------------------
(* Snapshots.  Time -1 marks a key that was never written; cycle 0 is no     *)
(* cycle.  validator_cycle.completed_at and generated_at are read from the   *)
(* clock in one breath and are one field, gen, here.                         *)

Times == -1 .. MaxNow
Cycles == 0 .. MaxCycles
Streaks == [Candidates -> Cycles]

RawSnapshot == [gen : Times, entries : SUBSET Candidates]
ValidatedSnapshot == [gen : Times, cycle : Cycles, src : Times, streak : Streaks]
Success == [cycle : Cycles, at : Times]
PoolSnapshot ==
  [gen : Times, cycle : Cycles, src : Times, rawSrc : Times,
   entries : SUBSET Candidates]

NoStreaks == [c \in Candidates |-> 0]
NoRaw == [gen |-> -1, entries |-> {}]
NoValidated == [gen |-> -1, cycle |-> 0, src |-> -1, streak |-> NoStreaks]
NoSuccess == [cycle |-> 0, at |-> -1]
NoPool == [gen |-> -1, cycle |-> 0, src |-> -1, rawSrc |-> -1, entries |-> {}]

Written(snapshot) == snapshot.gen # -1

\* success_streak is positive exactly for the entries of the snapshot.
Entries(snapshot) == {c \in Candidates : snapshot.streak[c] > 0}

Goto(w, stage) == pc' = [pc EXCEPT ![w] = stage]

\* No step of one worker touches what another one holds.
FetcherAlone == UNCHANGED <<now, validatorVars, rankerVars, crashes>>
ValidatorAlone == UNCHANGED <<now, fetcherVars, rankerVars, crashes>>
RankerAlone == UNCHANGED <<now, fetcherVars, validatorVars, crashes>>

----------------------------------------------------------------------------
Init ==
  /\ now = 0
  /\ raw = NoRaw /\ validated = NoValidated /\ lastSuccess = NoSuccess
  /\ reserve = NoPool /\ active = NoPool /\ gateway = NoPool
  /\ pc = [w \in Workers |-> "idle"]
  /\ collected = NoRaw
  /\ rawRead = NoRaw /\ previous = NoStreaks /\ checked = NoValidated
  /\ ranked = NoPool /\ chosen = NoPool
  /\ cycle = 0
  /\ healthyIn = [k \in Cycles |-> {}]
  /\ inARow = NoStreaks
  /\ crashes = 0

----------------------------------------------------------------------------
(* fetcher.cycle *)

Found(time) ==
  /\ \E found \in SUBSET Candidates : collected' = [gen |-> time, entries |-> found]
  /\ Goto("fetcher", "publish")
  /\ FetcherAlone /\ UNCHANGED redisVars

\* Mutant: generated_at is rounded up.
CollectRoundsUp == pc["fetcher"] = "idle" /\ Found(now + 1)

\* Connectors that fail are skipped, so any part of the sources may be missing.
Collect == pc["fetcher"] = "idle" /\ Found(now)

PublishRaw ==
  /\ pc["fetcher"] = "publish"
  /\ raw' = collected
  /\ collected' = NoRaw
  /\ Goto("fetcher", "idle")
  /\ FetcherAlone /\ UNCHANGED <<validated, lastSuccess, poolKeys>>

----------------------------------------------------------------------------
(* validator.cycle *)

ReadRaw ==
  /\ pc["validator"] = "idle" /\ Written(raw) /\ cycle < MaxCycles
  /\ rawRead' = raw
  /\ Goto("validator", "previous")
  /\ ValidatorAlone /\ UNCHANGED <<redisVars, previous, checked, historyVars>>

Remember(streaks) ==
  /\ previous' = streaks
  /\ Goto("validator", "probe")
  /\ ValidatorAlone /\ UNCHANGED <<redisVars, rawRead, checked, historyVars>>

\* Mutant: the streaks of the previous snapshot are not read.
ReadNothingPrevious == pc["validator"] = "previous" /\ Remember(NoStreaks)

ReadPrevious == pc["validator"] = "previous" /\ Remember(validated.streak)

Abandon ==
  /\ pc["validator"] = "probe"
  /\ rawRead' = NoRaw /\ previous' = NoStreaks
  /\ Goto("validator", "idle")
  /\ ValidatorAlone /\ UNCHANGED <<raw, lastSuccess, poolKeys, checked, historyVars>>

\* Mutant: a cycle that fails clears the published pool.
FailureClears == Abandon /\ validated' = NoValidated

\* The baseline request, the ASN database or the enrichment of any one probe
\* fails: the cycle ends without a publication.
CycleFails == Abandon /\ UNCHANGED validated

\* The streak a candidate continues is looked up by its address; of several
\* entries with that address the last one read stands for all.
Continued(c) ==
  LET same == {d \in Candidates : AddressOf[d] = AddressOf[c] /\ previous[d] > 0}
  IN  IF same = {} THEN {0} ELSE {previous[d] : d \in same}

\* Mutant: a candidate that fails keeps its streak, and its place.
StreaksKept(healthy) ==
  {s \in Streaks :
     \A c \in Candidates :
       \E k \in Continued(c) : s[c] = IF c \in healthy THEN k + 1 ELSE k}

\* The streaks a cycle may report when exactly the candidates of healthy pass.
StreaksAfter(healthy) ==
  {s \in Streaks :
     \A c \in Candidates :
       IF c \in healthy THEN \E k \in Continued(c) : s[c] = k + 1 ELSE s[c] = 0}

FinishProbes ==
  /\ pc["validator"] = "probe"
  /\ \E healthy \in SUBSET rawRead.entries :
       /\ \E s \in StreaksAfter(healthy) :
            checked' = [gen |-> now, cycle |-> cycle + 1, src |-> rawRead.gen,
                        streak |-> s]
       /\ healthyIn' = [healthyIn EXCEPT ![cycle + 1] = healthy]
  /\ cycle' = cycle + 1
  /\ rawRead' = NoRaw /\ previous' = NoStreaks
  /\ Goto("validator", "publish")
  /\ ValidatorAlone /\ UNCHANGED <<redisVars, inARow>>

PublishThen(stage) ==
  /\ validated' = checked
  /\ inARow' = [c \in Candidates |->
                  IF c \in healthyIn[checked.cycle] THEN inARow[c] + 1 ELSE 0]
  /\ Goto("validator", stage)
  /\ checked' = IF stage = "idle" THEN NoValidated ELSE checked
  /\ ValidatorAlone
  /\ UNCHANGED <<raw, lastSuccess, poolKeys, rawRead, previous, cycle, healthyIn>>

PublishValidated ==
  /\ pc["validator"] = "publish"
  /\ PublishThen(IF Entries(checked) = {} THEN "idle" ELSE "success")

\* A key of its own, written after the snapshot it speaks of.
SetLastSuccess ==
  /\ pc["validator"] = "success"
  /\ lastSuccess' = [cycle |-> checked.cycle, at |-> checked.gen]
  /\ checked' = NoValidated
  /\ Goto("validator", "idle")
  /\ ValidatorAlone
  /\ UNCHANGED <<raw, validated, poolKeys, rawRead, previous, historyVars>>

----------------------------------------------------------------------------
(* ranker.cycle *)

\* A snapshot of the ranker carries the lineage of the one it was made from.
Derived(entries) ==
  [gen |-> now, cycle |-> validated.cycle, src |-> validated.gen,
   rawSrc |-> validated.src, entries |-> entries]

\* The ranking keeps at most ReserveSize entries of the snapshot, the selection
\* at most PoolSize of those.
RankValidated ==
  /\ pc["ranker"] = "idle" /\ Written(validated)
  /\ \E kept \in SUBSET Entries(validated) : \E taken \in SUBSET kept :
       /\ Cardinality(kept) <= ReserveSize /\ Cardinality(taken) <= PoolSize
       /\ ranked' = Derived(kept) /\ chosen' = Derived(taken)
  /\ Goto("ranker", "reserve")
  /\ RankerAlone /\ UNCHANGED redisVars

ReserveThen(stage) ==
  /\ reserve' = ranked
  /\ Goto("ranker", stage)
  /\ RankerAlone
  /\ UNCHANGED <<raw, validated, lastSuccess, active, gateway, rankerVars>>

\* Mutant: the active pool is left as it is.
PublishReserveOnly == pc["ranker"] = "reserve" /\ ReserveThen("gateway")

PublishReserve == pc["ranker"] = "reserve" /\ ReserveThen("active")

ActiveThen(stage) ==
  /\ active' = chosen
  /\ Goto("ranker", stage)
  /\ RankerAlone
  /\ UNCHANGED <<raw, validated, lastSuccess, reserve, gateway, rankerVars>>

\* Mutant: the relay keeps its pool when the new one is empty.
PublishNonEmpty ==
  pc["ranker"] = "active" /\ ActiveThen(IF chosen.entries = {} THEN "idle" ELSE "gateway")

PublishActive == pc["ranker"] = "active" /\ ActiveThen("gateway")

PublishGateway ==
  /\ pc["ranker"] = "gateway"
  /\ gateway' = chosen
  /\ ranked' = NoPool /\ chosen' = NoPool
  /\ Goto("ranker", "idle")
  /\ RankerAlone /\ UNCHANGED <<raw, validated, lastSuccess, reserve, active>>

----------------------------------------------------------------------------
(* A worker dies, by a signal or by an exception main() does not expect (the *)
(* errors of the Redis client are such), and what it held is lost.  Compose  *)
(* does not restart it; the installation's service or an operator does.      *)

Forget(w) ==
  /\ collected' = IF w = "fetcher" THEN NoRaw ELSE collected
  /\ rawRead' = IF w = "validator" THEN NoRaw ELSE rawRead
  /\ previous' = IF w = "validator" THEN NoStreaks ELSE previous
  /\ checked' = IF w = "validator" THEN NoValidated ELSE checked
  /\ ranked' = IF w = "ranker" THEN NoPool ELSE ranked
  /\ chosen' = IF w = "ranker" THEN NoPool ELSE chosen

Crash(w) ==
  /\ pc[w] # "dead" /\ crashes < MaxCrashes
  /\ crashes' = crashes + 1
  /\ Goto(w, "dead")
  /\ Forget(w)
  /\ UNCHANGED <<now, redisVars, historyVars>>

Restart(w) ==
  /\ pc[w] = "dead"
  /\ Goto(w, "idle")
  /\ UNCHANGED <<now, redisVars, fetcherVars, validatorVars, rankerVars, crashes>>

Tick ==
  /\ now < MaxNow
  /\ now' = now + 1
  /\ UNCHANGED <<redisVars, pc, fetcherVars, validatorVars, rankerVars, crashes>>

----------------------------------------------------------------------------
FetcherStep == Collect \/ PublishRaw

ValidatorStep ==
  ReadRaw \/ ReadPrevious \/ CycleFails \/ FinishProbes \/ PublishValidated
  \/ SetLastSuccess

RankerStep == RankValidated \/ PublishReserve \/ PublishActive \/ PublishGateway

PipelineNext ==
  \/ FetcherStep \/ ValidatorStep \/ RankerStep \/ Tick
  \/ \E w \in Workers : Crash(w) \/ Restart(w)

Spec == Init /\ [][PipelineNext]_pipelineVars

(* main() loops without an exit and sleeps a bounded time between cycles, so *)
(* a worker that is up keeps stepping; one that died is started again.       *)
FairSpec ==
  /\ Spec
  /\ WF_pipelineVars(RankerStep) /\ WF_pipelineVars(Restart("ranker"))

----------------------------------------------------------------------------
(* Correctness. *)

TypeOK ==
  /\ now \in 0 .. MaxNow
  /\ raw \in RawSnapshot /\ collected \in RawSnapshot /\ rawRead \in RawSnapshot
  /\ validated \in ValidatedSnapshot /\ checked \in ValidatedSnapshot
  /\ lastSuccess \in Success
  /\ reserve \in PoolSnapshot /\ active \in PoolSnapshot /\ gateway \in PoolSnapshot
  /\ ranked \in PoolSnapshot /\ chosen \in PoolSnapshot
  /\ pc \in [Workers -> Stages]
  /\ previous \in Streaks /\ inARow \in [Candidates -> Nat]
  /\ cycle \in Cycles
  /\ healthyIn \in [Cycles -> SUBSET Candidates]
  /\ crashes \in 0 .. MaxCrashes

\* Every upstream the relay may use passed the probes of the very cycle its
\* snapshot names, through three processes, two keys and any crash.
GatewayServesValidated ==
  \A pool \in {reserve, active, gateway} : pool.entries \subseteq healthyIn[pool.cycle]

\* What a snapshot was derived from is never newer than what the keys show: a
\* reader that goes up the chain gateway, active, reserve, validated, raw finds
\* lineage that does not decrease, at any moment and after any crash.
LineageIsVisible ==
  /\ gateway.cycle <= active.cycle /\ active.cycle <= reserve.cycle
  /\ reserve.cycle <= validated.cycle /\ lastSuccess.cycle <= validated.cycle
  /\ gateway.src <= active.src /\ active.src <= reserve.src
  /\ reserve.src <= validated.gen /\ validated.src <= raw.gen
  /\ gateway.gen <= active.gen /\ active.gen <= reserve.gen

\* validator:last_success:v1 names a published cycle in which something passed.
LastSuccessIsReal ==
  lastSuccess.cycle > 0 =>
    /\ healthyIn[lastSuccess.cycle] # {}
    /\ lastSuccess.cycle = validated.cycle => lastSuccess.at = validated.gen

\* No key is ever replaced by a snapshot of an earlier validation.
LineageNeverBackwards ==
  [][/\ validated'.cycle >= validated.cycle /\ reserve'.cycle >= reserve.cycle
     /\ active'.cycle >= active.cycle /\ gateway'.cycle >= gateway.cycle
     /\ lastSuccess'.cycle >= lastSuccess.cycle]_pipelineVars

\* A ranking cycle that ends leaves the relay's key equal to the active pool and
\* the active pool within the reserve, whatever was left by an earlier crash
\* (tests/test_proxy_pipeline.py:124 checks it for one undisturbed cycle).
RankerLeavesPoolsAligned ==
  [][pc["ranker"] = "gateway" /\ pc'["ranker"] = "idle" =>
       gateway' = active' /\ active'.entries \subseteq reserve'.entries]_pipelineVars

\* README.md:62-63, "records ... the consecutive-success count": success_streak
\* counts the candidate's own published successes in a row.
StreakIsConsecutive == validated.streak = inARow

\* Every published validation, empty ones included, reaches the relay's key.
PoolCatchesUp ==
  \A k \in Cycles : validated.cycle = k ~> gateway.cycle >= k

=============================================================================

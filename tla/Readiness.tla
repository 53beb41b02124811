----------------------------- MODULE Readiness -----------------------------
(***************************************************************************)
(* The gate of deploy/readiness.py and deploy/pool_health.py, a process of *)
(* its own that reads the pipeline's keys one after the other while the    *)
(* workers go on publishing, and from what it has read concludes that the  *)
(* relay is served.  A deployment and an update call it in a loop; every   *)
(* call starts from nothing.                                               *)
(***************************************************************************)
EXTENDS PoolPipeline

CONSTANTS
  Since,           \* when the containers were replaced; -1: not asked about
  RawLimit,        \* limits['raw'], three intervals of the fetcher
  ValidatedLimit,  \* limits['validated'], three intervals of the validator
  RankLimit        \* limits['reserve'] and limits['active']

ASSUME ReadinessAssumption ==
  Since \in Times /\ RawLimit \in Nat /\ ValidatedLimit \in Nat /\ RankLimit \in Nat

VARIABLES
  gate,    \* the read the gate is about to make
  seen,    \* snapshots, and the relay's key, as they were read
  origin   \* history: when each cycle ended, and what it validated was fetched

gateVars == <<gate, seen>>
vars == <<pipelineVars, gateVars, origin>>

Kinds == {"raw", "validated", "reserve", "active"}
GateStages == Kinds \cup {"off", "success", "gateway", "echo", "ready"}

Limit == [raw |-> RawLimit, validated |-> ValidatedLimit,
          reserve |-> RankLimit, active |-> RankLimit]

\* What the gate looks at in a snapshot: src is the completed_at of its validator
\* cycle and rawSrc the time of the raw snapshot behind it.
Look(kind) ==
  CASE kind = "raw" -> [NoPool EXCEPT !.gen = raw.gen, !.entries = raw.entries]
    [] kind = "validated" ->
         [gen |-> validated.gen, cycle |-> validated.cycle, src |-> validated.gen,
          rawSrc |-> validated.src, entries |-> Entries(validated)]
    [] kind = "reserve" -> reserve
    [] OTHER -> active

NothingSeen == [key \in Kinds \cup {"gateway"} |-> NoPool]

Addressed(entries) == {AddressOf[c] : c \in entries}

----------------------------------------------------------------------------
GateInit ==
  /\ Init
  /\ gate = "off" /\ seen = NothingSeen
  /\ origin = [k \in Cycles |-> [ended |-> -1, fetched |-> -1]]

\* All services run, and no worker is among the dead.
StartCheck ==
  /\ gate = "off" /\ now >= Since
  /\ \A w \in Workers : pc[w] # "dead"
  /\ gate' = "raw"
  /\ UNCHANGED <<pipelineVars, seen, origin>>

Young(snapshot, kind) == snapshot.entries # {} /\ now - snapshot.gen <= Limit[kind]

\* Mutant: that a snapshot was published after the replacement is enough.
AfterReplacementPublished(snapshot, kind) == snapshot.gen >= Since

AfterReplacement(snapshot, kind) ==
  snapshot.gen >= Since /\ (kind # "raw" => snapshot.src >= Since)

Following == [raw |-> "validated", validated |-> "reserve", reserve |-> "active",
              active |-> "success"]

ReadSnapshot ==
  /\ gate \in Kinds
  /\ Young(Look(gate), gate) /\ AfterReplacement(Look(gate), gate)
  /\ seen' = [seen EXCEPT ![gate] = Look(gate)]
  /\ gate' = Following[gate]
  /\ UNCHANGED <<pipelineVars, origin>>

\* Mutant: the age of the validation is not asked for, only that of the ranking.
LineageUnchecked == TRUE

\* Ranking an old validation again does not make it young.
LineageYoung ==
  \A kind \in Kinds \ {"raw"} :
    /\ now - seen[kind].src <= ValidatedLimit
    /\ now - seen[kind].rawSrc <= RawLimit + ValidatedLimit

\* assess, once validator:last_success:v1 is read.
Assess ==
  /\ gate = "success"
  /\ lastSuccess.cycle > 0 /\ now - lastSuccess.at <= ValidatedLimit
  /\ \A kind \in Kinds : Young(seen[kind], kind)
  /\ \A kind \in Kinds \ {"raw"} : healthyIn[seen[kind].cycle] # {}
  /\ LineageYoung
  /\ seen["active"].entries \subseteq seen["reserve"].entries
  /\ seen["active"].entries \subseteq seen["validated"].entries
  /\ gate' = "gateway"
  /\ UNCHANGED <<pipelineVars, seen, origin>>

\* Entry by entry the addresses are those of the active pool; the order is not
\* modelled, and the time of publication is not compared.
SameMembers(snapshot) ==
  /\ Addressed(snapshot.entries) = Addressed(seen["active"].entries)
  /\ Cardinality(snapshot.entries) = Cardinality(seen["active"].entries)

ReadGateway ==
  /\ gate = "gateway" /\ Written(gateway)
  /\ SameMembers(gateway)
  /\ seen' = [seen EXCEPT !["gateway"] = gateway]
  /\ gate' = "echo"
  /\ UNCHANGED <<pipelineVars, origin>>

\* A request through the relay leaves from the exit of an active upstream.
RelayEcho ==
  /\ gate = "echo"
  /\ gate' = "ready"
  /\ UNCHANGED <<pipelineVars, seen, origin>>

\* A check fails, a command fails, or the verdict was given: the next call.
EndCheck ==
  /\ gate # "off"
  /\ gate' = "off" /\ seen' = NothingSeen
  /\ UNCHANGED <<pipelineVars, origin>>

Pipeline ==
  /\ PipelineNext
  /\ origin' = IF cycle' = cycle THEN origin
               ELSE [origin EXCEPT ![cycle'] = [ended |-> now, fetched |-> rawRead.gen]]
  /\ UNCHANGED gateVars

GateNext ==
  Pipeline \/ StartCheck \/ ReadSnapshot \/ Assess \/ ReadGateway \/ RelayEcho \/ EndCheck

GateSpec == GateInit /\ [][GateNext]_vars

----------------------------------------------------------------------------
(* Correctness. *)

GateTypeOK ==
  /\ gate \in GateStages
  /\ seen \in [Kinds \cup {"gateway"} -> PoolSnapshot]
  /\ origin \in [Cycles -> [ended : Times, fetched : Times]]

\* The validation the active pool was made from, as it really was.
Validation == origin[seen["active"].cycle]

\* When the gate says ready, the relay had been given upstreams, every one of
\* which passed a validation that ended after the replacement (README.md:318-320),
\* although six keys were read one by one and the relay's own may still be that
\* of an older cycle.
ReadyIsProven ==
  gate = "ready" =>
    /\ seen["gateway"].entries # {}
    /\ Addressed(seen["gateway"].entries)
         \subseteq Addressed(healthyIn[seen["active"].cycle])
    /\ Validation.ended >= Since

\* What is assessed as healthy was validated, and before that fetched, within the
\* limits, however often it was ranked since: deploy/pool_health.py:1, "freshness
\* and validator lineage cannot be refreshed by ranking".
AssessedIsRecent ==
  [][gate = "success" /\ gate' = "gateway" =>
       /\ now - Validation.ended <= ValidatedLimit
       /\ now - Validation.fetched <= RawLimit + ValidatedLimit]_vars

=============================================================================

----------------------------- MODULE Validation -----------------------------
(***************************************************************************)
(* The cycles of the validator in detail, between the connectors before it *)
(* and the ranking after it, next to the two files it reads while others   *)
(* replace them: the credential store (common/credentials.py), rewritten   *)
(* by operators, and the ASN database, replaced by asn_updater.py.         *)
(* PoolPipeline has a cycle as one choice, and the keys in Redis; here the *)
(* keys it reads are inputs (Feeds, Prior).                                *)
(*                                                                         *)
(* The validator is one asyncio process: a step is the code between two    *)
(* awaits.  A probe takes its credentials, connects, and then offers them: *)
(* the negotiation and the request through the proxy are one await, which  *)
(* ends in an observation or in an error.  A cycle that fails leaves its   *)
(* other probes running, with its semaphore and its CredentialStore, while *)
(* the next one has its own.  Versions stand for contents: two files with  *)
(* one digest are one version.                                             *)
(***************************************************************************)
EXTENDS Ranking

CONSTANTS
  Candidates,      \* an address with a credential_ref
  AddressOf,       \* the address, a number in the order of the strings
  RefOf,           \* credential_ref, or NoRef
  NoRef,
  Connectors,      \* the active connectors, a sequence
  Feeds,           \* the valid candidates of each connector, in its order
  Prior,           \* by address, success_streak in the previous snapshot or 0
  Outcomes,        \* what a probe of each candidate may observe: the exit, the
                   \* latency, and whether a header shows a direct identity
  DirectExits,     \* the baseline's peer and ANONYMITY_CLIENT_IPS
  SubnetOf,        \* /24 or /48 of each exit address
  AsnOf,           \* by database version and exit, or NoKey
  Known,           \* the references in each version of the credential file
  ReloadInterval,  \* reload_interval_seconds, which the validator leaves at one
  Timeout,         \* PROXY_VALIDATION_TIMEOUT_SECONDS
  MaxAge,          \* ASN_MAX_DATABASE_AGE_SECONDS
  Concurrency,     \* VALIDATION_CONCURRENCY
  MaxNow, MaxReleases, MaxCycles  \* bounds: clock, databases, cycles

Versions == DOMAIN Known
Releases == 1 .. MaxReleases
Cycles == 1 .. MaxCycles

\* A probe: of which cycle and of which candidate.
Probes == Cycles \X Candidates

ASSUME ValidationAssumption ==
  /\ Connectors \in Seq(DOMAIN Feeds)
  /\ \A k \in DOMAIN Feeds : Feeds[k] \in Seq(Candidates)
  /\ \A c \in Candidates : AddressOf[c] \in Nat /\ Prior[AddressOf[c]] \in Nat
  /\ \A c \in Candidates : \A seen \in Outcomes[c] : seen.latency \in Nat
  /\ Len(Known) > 0 /\ Versions = 1 .. Len(Known)
  /\ ReloadInterval \in Nat \ {0} /\ Timeout \in Nat \ {0}
  /\ MaxAge \in Nat \ {0} /\ Concurrency \in Nat \ {0}
  /\ MaxNow \in Nat /\ MaxReleases \in Nat \ {0} /\ MaxCycles \in Nat

VARIABLES
  now,
  secrets,    \* the credential file: last version written, and whether it is whole
  retired,    \* history: when each version was last in the file
  upstream,   \* what the publisher serves: database and checksum, two downloads
  updater,    \* asn-updater: where it stands, and the checksum it expects
  db,         \* the installed database: content (0: none) and mtime
  stage,      \* where the validator stands in its cycle
  cycle,      \* the number of that cycle, or of the last one
  listed,     \* candidates of the cycle, in order
  store,      \* CredentialStore of each cycle: last_checked, values
  resolver,   \* AsnResolver of the cycle: when it looked, what it holds open
  task,       \* the probes, those of failed cycles included
  validated,  \* entries of proxy_pool:validated:v1
  reserve, active,
  published   \* a snapshot of validated entries has been published

fileVars == <<secrets, retired, upstream, updater, db>>
poolVars == <<validated, reserve, active, published>>
cycleVars == <<stage, cycle, listed, store, resolver, task>>
vars == <<now, fileVars, cycleVars, poolVars>>

Never == -1                       \* float("-inf"), no time, or before the model starts
Times == Never .. MaxNow
Bad == MaxReleases + 1            \* a body cut short or damaged on the way
Fresh == [at |-> Never, version |-> 0]
Closed == [content |-> 0, mtime |-> Never, at |-> Never]
NoTask == [pc |-> "none"]
InCycle == {"baseline", "open", "probing"}

----------------------------------------------------------------------------
\* The volume of the database may be that of an earlier installation.
Init ==
  /\ now = 0
  /\ secrets = [version |-> 1, whole |-> TRUE]
  /\ retired = [v \in Versions |-> Never]
  /\ upstream = [body |-> 1, sum |-> 1]
  /\ updater = [pc |-> "sleep", sum |-> 0]
  /\ db \in [content : {0, 1}, mtime : {Never}]
  /\ stage = "idle" /\ cycle = 0 /\ listed = <<>> /\ resolver = Closed
  /\ store = [n \in Cycles |-> Fresh] /\ task = [p \in Probes |-> NoTask]
  /\ validated = <<>> /\ reserve = <<>> /\ active = <<>> /\ published = FALSE

----------------------------------------------------------------------------
(* The files. *)

\* A file replaced by rename is whole at any moment.
ReplaceSecrets ==
  /\ secrets.whole /\ secrets.version + 1 \in Versions
  /\ secrets' = [secrets EXCEPT !.version = @ + 1]
  /\ retired' = [retired EXCEPT ![secrets.version] = now]
  /\ UNCHANGED <<now, upstream, updater, db, cycleVars, poolVars>>

\* One edited in place is not.
TruncateSecrets ==
  /\ secrets.whole /\ secrets.version + 1 \in Versions
  /\ secrets' = [secrets EXCEPT !.whole = FALSE]
  /\ retired' = [retired EXCEPT ![secrets.version] = now]
  /\ UNCHANGED <<now, upstream, updater, db, cycleVars, poolVars>>

WriteSecrets ==
  /\ ~secrets.whole
  /\ secrets' = [version |-> secrets.version + 1, whole |-> TRUE]
  /\ UNCHANGED <<now, retired, upstream, updater, db, cycleVars, poolVars>>

\* The publisher replaces the database, then its checksum.
Release ==
  /\ \/ upstream.body = upstream.sum /\ upstream.body < MaxReleases
        /\ upstream' = [upstream EXCEPT !.body = @ + 1]
     \/ upstream.body > upstream.sum /\ upstream' = [upstream EXCEPT !.sum = upstream.body]
  /\ UNCHANGED <<now, secrets, retired, updater, db, cycleVars, poolVars>>

UpdaterAlone == UNCHANGED <<now, secrets, retired, upstream, cycleVars, poolVars>>
Sleep == updater' = [pc |-> "sleep", sum |-> 0]

FetchChecksum ==
  /\ updater.pc = "sleep"
  /\ updater' = [pc |-> "body", sum |-> upstream.sum]
  /\ UNCHANGED db /\ UpdaterAlone

\* An empty answer: split()[0] raises IndexError, which main does not expect.
ChecksumEmpty ==
  /\ updater.pc = "sleep"
  /\ updater' = [pc |-> "dead", sum |-> 0]
  /\ UNCHANGED db /\ UpdaterAlone

\* What arrives is compared with the checksum, and then with what is installed:
\* the same database again only gets a new mtime.
Accept(got) ==
  IF db.content = got
  THEN db' = [db EXCEPT !.mtime = now] /\ Sleep
  ELSE updater' = [pc |-> "install", sum |-> got] /\ UNCHANGED db

\* Mutant: the checksum is not compared.
FetchUnverified ==
  /\ updater.pc = "body"
  /\ \E got \in {upstream.body, Bad} : Accept(got)
  /\ UpdaterAlone

FetchDatabase ==
  /\ updater.pc = "body"
  /\ \E got \in {upstream.body, Bad} :
       IF got = updater.sum THEN Accept(got) ELSE Sleep /\ UNCHANGED db
  /\ UpdaterAlone

\* A temporary file is written, synced and renamed over the database.
Install ==
  /\ updater.pc = "install"
  /\ db' = [content |-> updater.sum, mtime |-> now]
  /\ Sleep
  /\ UpdaterAlone

\* OSError, UnicodeError or ValueError: nothing is installed, until the next time.
UpdateFails ==
  /\ updater.pc \in {"body", "install"}
  /\ Sleep
  /\ UNCHANGED db /\ UpdaterAlone

RestartUpdater ==
  /\ updater.pc = "dead"
  /\ Sleep
  /\ UNCHANGED db /\ UpdaterAlone

----------------------------------------------------------------------------
(* The cycle. *)

\* One connector: its valid items in order, or nothing when it fails.
Collected(k, answered) == IF k \in answered THEN Feeds[k] ELSE <<>>

IsIn(c, list) == \E i \in DOMAIN list : list[i] = c

\* What is already in the list keeps its place.
Added(list, c) == IF IsIn(c, list) THEN list ELSE Append(list, c)

Merged(list, items) ==
  LET merged[i \in 0 .. Len(items)] ==
        IF i = 0 THEN list ELSE Added(merged[i - 1], items[i])
  IN  merged[Len(items)]

\* registry.collect_all: the lists of the connectors, one after the other.
CollectAll(answered) ==
  LET unique[k \in 0 .. Len(Connectors)] ==
        IF k = 0 THEN <<>> ELSE Merged(unique[k - 1], Collected(Connectors[k], answered))
  IN  unique[Len(Connectors)]

CycleAlone == UNCHANGED <<now, fileVars>>

Begin ==
  /\ stage = "idle" /\ cycle < MaxCycles /\ cycle' = cycle + 1
  /\ \E answered \in SUBSET {Connectors[k] : k \in DOMAIN Connectors} :
       listed' = CollectAll(answered)
  /\ stage' = "baseline"
  /\ CycleAlone /\ UNCHANGED <<store, resolver, task, poolVars>>

\* The locals of a cycle are gone.  Its store and its semaphore are its probes'.
Leave(to) ==
  /\ stage' = to
  /\ listed' = <<>> /\ resolver' = Closed
  /\ CycleAlone /\ UNCHANGED cycle

\* __enter__ looks at the file before it opens it.
Usable == db.content # 0 /\ now - db.mtime <= MaxAge

BaselineAnswers ==
  /\ stage = "baseline" /\ Usable
  /\ stage' = "open" /\ resolver' = [Closed EXCEPT !.at = now]
  /\ CycleAlone /\ UNCHANGED <<cycle, listed, store, task, poolVars>>

Open ==
  /\ stage = "open"
  /\ resolver' = [resolver EXCEPT !.content = db.content, !.mtime = db.mtime]
  /\ task' = [p \in Probes |->
                IF p[1] = cycle /\ IsIn(p[2], listed) THEN [pc |-> "queued"] ELSE task[p]]
  /\ stage' = "probing"
  /\ CycleAlone /\ UNCHANGED <<cycle, listed, store, poolVars>>

----------------------------------------------------------------------------
(* The probes. *)

Pc(p) == task[p].pc
Negotiating(p) == Pc(p) \in {"connect", "exchange"}
Unfinished(p) == Pc(p) = "queued" \/ Negotiating(p)
SetTask(p, value) == task' = [task EXCEPT ![p] = value]
ProbeAlone == CycleAlone /\ UNCHANGED <<stage, cycle, listed, resolver, poolVars>>

\* Mutant: a probe that fails does not give its slot back.
SlotsLost(n) ==
  Cardinality({c \in Candidates : Negotiating(<<n, c>>) \/ Pc(<<n, c>>) = "failed"})

\* Slots that are taken of the semaphore of cycle n.
SlotsTaken(n) == Cardinality({c \in Candidates : Negotiating(<<n, c>>)})

\* Mutant: every probe has a semaphore of its own.
OwnSlot(p) == Pc(p) = "queued"

GetsSlot(p) == Pc(p) = "queued" /\ SlotsTaken(p[1]) < Concurrency

Store(p) == store[p[1]]
Ref(p) == RefOf[p[2]]

ReloadDue(p) == Store(p).at = Never \/ now - Store(p).at >= ReloadInterval

\* The connection is awaited, for which and for all that follows there is a timeout.
Connecting(auth) == [pc |-> "connect", auth |-> auth, since |-> now]

\* CredentialStore.get with the values that are then in the store, {} at first.
Values(version) == IF version = 0 THEN {} ELSE Known[version]

Get(p, version) ==
  SetTask(p, IF Ref(p) \in Values(version) THEN Connecting(version) ELSE [pc |-> "failed"])

StartAnonymous(p) ==
  /\ GetsSlot(p) /\ Ref(p) = NoRef
  /\ SetTask(p, Connecting(0))
  /\ ProbeAlone /\ UNCHANGED store

StartCached(p) ==
  /\ GetsSlot(p) /\ Ref(p) # NoRef /\ ~ReloadDue(p)
  /\ Get(p, Store(p).version)
  /\ ProbeAlone /\ UNCHANGED store

StartReloaded(p) ==
  /\ GetsSlot(p) /\ Ref(p) # NoRef /\ ReloadDue(p) /\ secrets.whole
  /\ store' = [store EXCEPT ![p[1]] = [at |-> now, version |-> secrets.version]]
  /\ Get(p, secrets.version)
  /\ ProbeAlone

\* Mutant: the time of a reload is noted before it has succeeded.
ReloadNoted(p) == store' = [store EXCEPT ![p[1]].at = now]

\* _reload raises, and get with it: values, digest and last_checked stay.
ReloadFailed(p) == UNCHANGED store

StartRefused(p) ==
  /\ GetsSlot(p) /\ Ref(p) # NoRef /\ ReloadDue(p) /\ ~secrets.whole
  /\ SetTask(p, [pc |-> "failed"])
  /\ ReloadFailed(p)
  /\ ProbeAlone

InTime(p) == now - task[p].since <= Timeout

\* Connected, by TLS to an https proxy, the probe negotiates and shows its
\* credentials.
Offer(p) ==
  /\ Pc(p) = "connect" /\ InTime(p)
  /\ SetTask(p, [task[p] EXCEPT !.pc = "exchange"])
  /\ ProbeAlone /\ UNCHANGED store

\* classify_anonymity
Anonymous(seen) == seen.exit \notin DirectExits /\ ~seen.leaks

\* The echo endpoint answers through the proxy.  For a probe of a failed cycle
\* this comes to nothing: the database is closed, and nobody waits for the entry.
ProbeAnswered(p) ==
  /\ Pc(p) = "exchange" /\ InTime(p) /\ p[1] = cycle /\ stage = "probing"
  /\ \E seen \in Outcomes[p[2]] :
       SetTask(p, IF Anonymous(seen)
                  THEN [pc |-> "passed", exit |-> seen.exit, latency |-> seen.latency]
                  ELSE [pc |-> "failed"])
  /\ ProbeAlone /\ UNCHANGED store

\* Refused, cut off, malformed or timed out, or any end in a cycle that has failed.
ProbeFails(p) ==
  /\ Negotiating(p)
  /\ SetTask(p, [pc |-> "failed"])
  /\ ProbeAlone /\ UNCHANGED store

----------------------------------------------------------------------------
(* How a cycle ends. *)

\* What is left of the tasks when a cycle ends, ended by one of those gone.
Remaining(gone) ==
  [p \in Probes |-> IF Unfinished(p) /\ p \notin gone THEN task[p] ELSE NoTask]

\* The baseline request fails, the database is missing, stale or cannot be
\* opened, or the lookup of one exit fails: main logs it and tries again later.
\* gather does not cancel the other probes, those in its queue included.
CycleFails ==
  /\ \/ stage \in {"baseline", "open"} /\ UNCHANGED task
     \/ /\ stage = "probing"
        /\ \E c \in Candidates :
             Pc(<<cycle, c>>) = "exchange" /\ task' = Remaining({<<cycle, c>>})
  /\ Leave("idle") /\ UNCHANGED <<store, poolVars>>

\* An error that main does not expect: asyncio.run cancels every task.
Die ==
  /\ Leave("dead")
  /\ store' = [n \in Cycles |-> Fresh] /\ task' = [p \in Probes |-> NoTask]
  /\ UNCHANGED poolVars

\* The echo endpoint hangs up on the baseline request: IncompleteReadError is an
\* EOFError.
BaselineCutShort == stage = "baseline" /\ Die

\* A response whose headers do not end: readuntil raises LimitOverrunError, which
\* probe does not expect either.
HeadersOverrun ==
  /\ stage = "probing" /\ \E c \in Candidates : Pc(<<cycle, c>>) = "exchange"
  /\ Die

RestartWorker ==
  /\ stage = "dead"
  /\ Leave("idle") /\ UNCHANGED <<store, task, poolVars>>

EntryOf(c) ==
  LET found == task[<<cycle, c>>]
  IN  [candidate |-> c, address |-> AddressOf[c], latency |-> found.latency,
       streak |-> Prior[AddressOf[c]] + 1, subnet |-> SubnetOf[found.exit],
       asn |-> AsnOf[resolver.content][found.exit]]

\* The entries of the probes that passed, in the order of the candidates.
Kept(entries, c) ==
  IF Pc(<<cycle, c>>) = "passed" THEN Append(entries, EntryOf(c)) ELSE entries

Healthy ==
  LET kept[n \in 0 .. Len(listed)] ==
        IF n = 0 THEN <<>> ELSE Kept(kept[n - 1], listed[n])
  IN  kept[Len(listed)]

PublishValidated ==
  /\ stage = "probing" /\ \A c \in Candidates : ~Unfinished(<<cycle, c>>)
  /\ validated' = Healthy /\ published' = TRUE
  /\ task' = Remaining({})
  /\ Leave("idle") /\ UNCHANGED <<store, reserve, active>>

\* ranker.cycle, with its three publications as one.
Rank ==
  /\ published
  /\ reserve' = RankEntries(validated)
  /\ active' = SelectActive(RankEntries(validated))
  /\ CycleAlone /\ UNCHANGED <<cycleVars, validated, published>>

Tick ==
  /\ now < MaxNow
  /\ now' = now + 1
  /\ UNCHANGED <<fileVars, cycleVars, poolVars>>

----------------------------------------------------------------------------
FilesNext ==
  \/ ReplaceSecrets \/ TruncateSecrets \/ WriteSecrets \/ Release
  \/ FetchChecksum \/ ChecksumEmpty \/ FetchDatabase \/ Install \/ UpdateFails
  \/ RestartUpdater

StartProbe(p) == StartAnonymous(p) \/ StartCached(p) \/ StartReloaded(p) \/ StartRefused(p)

EndProbe(p) == ProbeAnswered(p) \/ ProbeFails(p)

Next ==
  \/ FilesNext \/ Tick
  \/ Begin \/ BaselineAnswers \/ Open
  \/ CycleFails \/ BaselineCutShort \/ HeadersOverrun \/ RestartWorker
  \/ \E p \in Probes : StartProbe(p) \/ Offer(p) \/ EndProbe(p)
  \/ PublishValidated \/ Rank

Spec == Init /\ [][Next]_vars

(* The baseline request and each probe have a timeout, and the slots of each *)
(* semaphore are given to those that wait for it.                            *)
FairSpec ==
  /\ Spec
  /\ WF_vars(BaselineAnswers \/ Open \/ (stage # "probing" /\ CycleFails))
  /\ \A n \in Cycles : WF_vars(\E c \in Candidates : StartProbe(<<n, c>>))
  /\ \A p \in Probes : WF_vars(EndProbe(p))
  /\ WF_vars(PublishValidated)

----------------------------------------------------------------------------
\* Types, and of each cycle no more proxies are negotiated with than
\* VALIDATION_CONCURRENCY allows (validator.py:77, validator.py:98).  What a
\* failed cycle has left running does not count for the next one.
TypeOK ==
  /\ now \in 0 .. MaxNow
  /\ secrets \in [version : Versions, whole : BOOLEAN]
  /\ retired \in [Versions -> Times]
  /\ upstream \in [body : Releases, sum : Releases]
  /\ updater \in [pc : {"sleep", "body", "install", "dead"}, sum : 0 .. Bad]
  /\ db \in [content : 0 .. Bad, mtime : Times]
  /\ stage \in {"idle", "dead"} \cup InCycle /\ cycle \in 0 .. MaxCycles
  /\ \A i \in DOMAIN listed : listed[i] \in Candidates
  /\ store \in [Cycles -> [at : Times, version : {0} \cup Versions]]
  /\ resolver \in [content : 0 .. Bad, mtime : Times, at : Times]
  /\ \A p \in Probes : Pc(p) \in {"none", "queued", "connect", "exchange", "passed", "failed"}
  /\ Len(reserve) <= ReserveSize /\ Len(active) <= PoolSize /\ published \in BOOLEAN
  /\ \A n \in Cycles : Cardinality({c \in Candidates : Negotiating(<<n, c>>)}) <= Concurrency

\* When a proxy is offered credentials they are in the file, or were less than
\* the reload interval and the timeout of a probe ago: neither the cache
\* (credentials.py:37), nor a reload that fails while the file is half written,
\* nor the connection that is awaited in between (proxy_probe.py:317) makes a
\* withdrawn secret last longer, in a probe of a failed cycle either.
AuthIsRecent ==
  [][\A p \in Probes :
       LET auth == task[p].auth
       IN  Pc(p) = "connect" /\ task'[p].pc = "exchange" /\ auth # 0 =>
             \/ secrets.whole /\ auth = secrets.version
             \/ retired[auth] # Never /\ now - retired[auth] < ReloadInterval + Timeout]_vars

\* The database that names the networks of a cycle is one the publisher
\* released whole, although checksum and database are two downloads, and it was
\* not stale when the cycle looked, although it is replaced while cycles read
\* (asn_updater.py:46, asn_resolver.py:40).
AsnIsVerified ==
  stage = "probing" =>
    /\ resolver.content \in 1 .. upstream.body
    /\ resolver.at - resolver.mtime <= MaxAge

\* What the ranker publishes is in the order of its scores with the penalties
\* of each position, nothing better is left out, and the cap on unknown ASNs
\* keeps no verified entry out of the active pool (ranking.py:70, ranking.py:105).
PoolsAreRanked ==
  [][reserve' # reserve \/ active' # active =>
       /\ OrderedByScore(validated, reserve') /\ BetterTwinFirst(reserve')
       /\ CappedFairly(reserve', active')]_vars

\* A cycle that has begun ends, in a snapshot or an error, and so does every
\* probe, whatever happens to its cycle: it gets a slot and gives it back
\* (validator.py:97).
CycleEnds ==
  /\ stage \in InCycle ~> stage \in {"idle", "dead"}
  /\ \A p \in Probes : Unfinished(p) ~> ~Unfinished(p)

\* After a cycle comes the next, whatever a proxy answered: README.md:456 has
\* VALIDATION_INTERVAL_SECONDS as the interval between cycles, and
\* proxy_probe.py:82 means headers that do not end to fail that one probe.
CycleIsRetried == stage = "probing" ~> stage = "idle"

=============================================================================

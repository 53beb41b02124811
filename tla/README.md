# TransparentGateway in TLA+

TransparentGateway sends the TCP and DNS traffic of a client network through
upstream proxies that it collects, validates and ranks continuously. This
directory specifies its concurrent and crash-prone parts, model-checks them with
TLC and proves the safety properties of all of them with TLAPS. Every
definition follows the Python source; `PROJECT.json` gives the lines of each.

Contents: [the system](#the-system), [the modules](#the-modules),
[the runs](#the-runs), [fairness](#fairness), [the proofs](#the-proofs),
[disagreements](#disagreements-between-code-and-documentation),
[abstractions](#abstractions), [the plan](#the-plan).

## The system

    public lists            Internet                      clients
        |                      ^                             |
     fetcher --raw--> validator --validated--> ranker        | TCP, DNS
                          |                      |           v
                     last_success     reserve, active    iptables, redsocks,
                          |            gateway key       DoH / UDP-to-TCP DNS
                          v                |                 |
                      readiness            +---> CONNECT egress relay --> upstream
                          ^                                  |
     deploy, tg_update, tgctl, service supervisor (bring all of it up and down)

Every arrow through a name is a Redis key. Processes share nothing else, apart
from the files that deployment and updates replace.

| Component | State it keeps | Operations | What is hard | What makes it correct |
|---|---|---|---|---|
| **CONNECT relay** `gateway/egress_relay.py` | the `Pool`: entries, rotation index, refresh time, cooldowns per upstream and port, DNS-capable set; one handler per connection | `choose`, `record_result`, `probe_dns_tcp`, `connect_upstream`, `handle` | handlers interleave at every await; the pool is refreshed in the middle of a CONNECT, under the lock; failures of upstreams during a negotiation | attempts are distinct and within budget, cooldowns belong to attempts, DNS tunnels are proven, the pool never goes back, every connection ends |
| **Storage** `validator/storage.py` | Redis keys | `read_snapshot`, `publish_snapshot`, `publish_active_snapshot` | three keys are replaced one after the other | readers see whole snapshots with lineage that never decreases |
| **Fetcher** `validator/fetcher.py`, **validator** `validator.py`, **ranker** `ranker.py` | locals of a cycle; the keys raw, validated, last_success, reserve, active, gateway | `cycle`, `main` | snapshots are read long before they are used; a worker may die between two keys; partial failure ends a cycle | the relay is only given upstreams that passed; streaks count; every validation reaches the relay |
| **Ranking** `validator/ranking.py` | none | `base_score`, `rank_entries`, `select_active_entries` | every pick changes the penalties of the rest; the cap on unknown ASNs | in the order of the scores, and the cap keeps no verified entry out |
| **Readiness** `deploy/readiness.py`, `pool_health.py` | none | `check`, `assess`, `relay_echo` | reads six keys one by one while the pipeline publishes | ready implies that the relay serves what was recently validated |
| **Credentials** `common/credentials.py` | digest, values, last check | `get`, `_reload` | the file is replaced or edited while it is read, a reload may fail, and the proxy is connected to between the look and the offer | no withdrawn secret is offered for longer than the interval and a probe's timeout |
| **Probe** `validator/proxy_probe.py`, **connectors** `validator/sources/` | none | negotiation, `classify_anonymity`, `collect_all` | partial failure of sources and probes, duplicates, a bounded number of probes, probes that outlive their cycle | every probe ends and gives its slot back |
| **ASN updater, resolver** `validator/asn_*.py` | the database and its metadata | `update_once`, `main`, lookup | checksum and database are two downloads; replacement under a reader; unexpected errors | a reader sees a complete, verified database that was not stale when it looked |
| **DNS relays** `gateway/doh_dns.py`, `udp2tcp_dns.py` | semaphore, tasks | `forward`, `tcp_exchange`, `serve` | more datagrams than slots, failures inside them, a stop in the middle | every query ends and gives its slot back |
| **Entrypoint** `gateway/entrypoint.sh` | iptables, rules, routes | install, cleanup | a kill between two commands, a rerun over leftovers | a query goes to its relay or nowhere; started means exactly the rules of a first start, stopped means nothing left but the guard |
| **Updater** `scripts/tg_update.py` | checkout, `images.json`, `transaction.json`, flock | `update`, `restore`, `--recover` | failure or death at any command, boots meanwhile, two operators | the installation is one release, or a journal says how to get back |
| **tgctl** `scripts/tgctl.py` | `.env`, containers, unit | `up`, `down`, `ready`, `prepare-service`, `status`, `configure` | runs without the updater's lock | |
| **Lab deployment** `deploy/deploy.py`, `secret-transfer.py`, `install-service.py` | checkout, runtime files, `deployment.json`, `service.json`, flock | `deploy`, `receive`, `install` | three tools, of which one takes no lock; a delivery cut between two files | what is recorded is what was validated and installed |
| **Lab service supervisor** `deploy/service.py`, systemd | the unit, its settings | `check`, `serve`, `stop` | starts and stops in the middle of deliveries and deployments | READY means the pinned checkout with validated files |
| **Balance API** `tg-balance-api.py` | haproxy configuration, mode file | `set_mode` | request threads interleave, any command may fail | haproxy runs what its file says; an undisturbed request that was applied is |
| **Host preparation, acceptance checks** `deploy/cloud-init`, `deploy/proxmox`, `deploy/lab`, `deploy/verify-*.py`, `scripts/client-check.py` | none of the program's own | linear scripts | | |

The hazards these behaviours amount to are listed line by line in `PROJECT.json`,
each with the properties that address it.

## The modules

| Module | Models |
|---|---|
| `EgressRelay` | the relay: `Pool` and any number of concurrent handlers |
| `PoolPipeline` | fetcher, validator, ranker and the Redis keys between them |
| `Readiness` | the readiness gate, composed with `PoolPipeline` |
| `Installation` | abstract: what an update promises an operator |
| `UpdateTransaction` | `tg_update.py`, with `tgctl up`/`down`, boots and crashes; implements `Installation` |
| `Ranking` | pure: scores, penalties, the ranked list and the active pool |
| `Validation` | the cycles of the validator in detail, with connectors before it, the ranking after it, credential store and ASN database next to it |
| `BalanceApi` | concurrent requests to the balance API |
| `Gateway` | the gateway container: interception rules, daemons, DNS queries |
| `LabDeployment` | the lab's tools and supervisor on one host, with crashes |
| `EgressRelay_proofs`, `PoolPipeline_proofs`, `Readiness_proofs`, `UpdateTransaction_proofs`, `Gateway_proofs`, `LabDeployment_proofs`, `BalanceApi_proofs` | theorems about the modules of these names |
| `Validation_proofs` | theorems about `Validation` and about the list that `Ranking` computes |
| `MC...` | instances for TLC |

Operators marked "Mutant:" in a comment are plausible mistakes in one handler.
No specification uses them: each shows that some property would notice the
mistake.

### EgressRelay

One asyncio process, so a step is the code between two awaits that can really
suspend. `pc[c]` is the await at which the handler of connection `c` stands:

| `pc` | where in the code |
|---|---|
| `header` | `readuntil` of the request, 10 s |
| `choose` | about to call `Pool.choose`, or waiting for its lock |
| `refresh`, `apply` | inside `choose`, lock held: the GETs are under way, or answered |
| `probe`, `connect` | `probe_dns_tcp` (port 53 only), `connect_upstream`, 15 s each |
| `opened`, `failed` | about to call `record_result`, or waiting for the lock |
| `reply`, `tunnel` | 200 written; the two pipes |

`ChooseCached` is `choose` without a refresh; `RefreshStart`, `RedisAnswers`, and
`RefreshApply` or `RefreshFails` are `choose` with one. The choice itself (filter
by `tried` and cooldown, stable sort for port 53, `index % len`) is `Select`,
the same code at the end of all three paths. `record_result` is `RecordFailure`
and `RecordSuccess`, with what `handle` does next.
Exceptions are distinguished as the code distinguishes them: those the attempt
loop catches (`UpstreamFails`), those only the handler's outer clause catches
(`UpstreamHangsUp`, `HeaderRefused`, `TunnelBreaks`: 502), and those neither
does (`HeaderOverrun`, `UpstreamOverrun`: no answer).
`Publish` and `Tick` are the ranker and the clock. `proven` is a history
variable.

### PoolPipeline

Three processes and six keys. A step is one Redis command with the computation
before it. `pc[w]` names the command worker `w` is about to issue. The validator's
cycle is `ReadRaw`, `ReadPrevious`, then `FinishProbes` or `CycleFails`, then
`PublishValidated`, and `SetLastSuccess` unless nothing passed; the ranker's is
`RankValidated`, `PublishReserve`, `PublishActive`, `PublishGateway`. A worker
dies between any two of these (`Crash`) and loses its locals; the keys stay.
A candidate is an address with a credential reference; `AddressOf` lets two
share an address, as feeds do. `cycle`, `healthyIn` and `inARow` are history:
what really passed, against which the snapshots are judged.

### Ranking and Validation

`Ranking` translates `ranking.py`: `RankEntries` is the greedy loop, `Best` its `max` with the
tuple of adjusted score, base score and address, `SelectActive` the selection of the
active pool. The loops are recursive functions of the round (`NextRound`, `Rounds`, `Admitted`), as
those of `Validation` are of the candidate (`Merged`, `Kept`), so that they can be proved about.
Scores are fractions. What the two lists promise is stated next to
them without reference to the loop (`OrderedByScore`, `BetterTwinFirst`, `CappedFairly`).

`Validation` opens up what `PoolPipeline` has as the one step `FinishProbes`. `stage` is where the
validator stands: `idle` (asleep), `baseline` (the direct request), `open` (in
`AsnResolver.__enter__`, between the look at the file and its opening), `probing`
(`gather` over all candidates), `dead`. A probe belongs to a cycle and a candidate, and
`task[p]` is where it is: `queued` for the semaphore, waiting for its `connect`ion, in its
`exchange`, `passed` or `failed`. Taking a slot and `CredentialStore.get` are one step without
an await, in four cases: no credential (`StartAnonymous`), values still fresh (`StartCached`), a
reload that succeeds (`StartReloaded`) or fails (`StartRefused`). Then the connection is awaited
(proxy_probe.py:317), with the credentials in hand (`auth`) and the timeout running (`since`), and only
after it the proxy is shown them (`Offer`). The probe ends in an observation, which
`classify_anonymity` (`Anonymous`) passes or rejects (`ProbeAnswered`), in an error of its own
(`ProbeFails`), in an error of the cycle (`CycleFails`) or in one nobody expects
(`HeadersOverrun`; `BaselineCutShort` before the probes). `Begin` has the connectors'
`collect_all` of any of them that answered, and `Rank` what the ranker makes of
the published entries.

A cycle that fails does not cancel its other probes (validator.py:108): those that are queued or
negotiate stay (`Remaining`), with the semaphore and the credential store of their cycle (`SlotsTaken(n)`,
`store[n]`), while the next cycle creates its own (validator.py:77, :92). What they observe comes to
nothing. Only the end of the process ends them (`Die`).

Next to it two files change. Operators replace the credential file or edit it in
place (`TruncateSecrets`, `WriteSecrets`). `asn-updater` downloads a checksum and then a database
from a publisher that may release the next one between the two, verifies, and
installs or only touches what is there. `retired` is history.

### BalanceApi

Every request is a thread; `pc[r]` is the command of `set_mode` it is about to run: `render`
(the private file), `test` (`haproxy -c`), `replace`, `reload`, `note` and `write` (the mode
file, emptied and then written). Each may fail (`Fail`), which undoes nothing but the
private file. `config`, `loaded` and `modeFile` are the three places that can
disagree. `alone` and `failed` are history.

### Readiness

`Readiness` extends `PoolPipeline` with a fourth process that only reads:
`check` and `assess`, as `tgctl ready` calls them in a loop. `gate` is the read it
is about to make (the four pools in the order of `limits`, then `success`, then
`gateway`, then `echo`), `seen` the snapshots as they were read. `StartCheck` is the
query of the services, `ReadSnapshot` one round of the loop over the pools with
its checks, `Assess` the read of `validator:last_success` and all of `assess`,
`ReadGateway` the comparison with the relay's key, and `EndCheck` any failed
check, after which everything is read again. The workers go on between any two
of these (`Pipeline`). `origin` is history: when each validation really ended, and when
what it validated was fetched.

### Installation and UpdateTransaction

`Installation` has three variables (the release that stands, the one before it,
whether a replacement is under way) and four steps.
`UpdateTransaction` is the updater at the grain of its commands: `update` and
`restore` issue the same ones towards different releases, so one sequence
`stop, checkout, pin, up, start, health, verify, close` serves `forward`,
`rollback` (the except clause) and `recover`. A command may fail or time out
(`CommandFails`), the updater may be killed (`Kill`) and so may the host
(`HostCrash`); each can leave a torn `compose up` or a half-done checkout.
systemd and operators start and stop containers and edit the runtime files at
any moment, without the lock (`ServiceUp`, `ServiceDown`, `EditRuntime`), as
the unit and `tgctl` do. The runtime files are what they hold (`Contents`: bytes, owner and
mode, which the fingerprint compares), so an edit may also put them back as they were; `copied` is
what the candidate was given of them (`CopyRuntime`, between the fingerprint and the first
comparison), and `putBack` is history: an edit returned to what the update had found.
The refinement mapping reads the release off the disk: `head`, or the journal's
`previous` while a journal is open.

### Gateway

`entrypoint.sh` is a script, and the model has it as one: `Setup` and `Cleanup` are the
sequences of its commands, and `SetupStep` and `CleanupStep` execute the one at `at`.
`hooks` holds the rules of which there is one (the jumps into the chains, the guard in
FORWARD, the rule for marked sockets in OUTPUT, the policy rule and the route), `chain`
what the rules of each `TG_*` chain match, in their order. `stage` is `setup`, `serving`
(the script waits for the egress relay), `cleanup` (the EXIT trap), `ending` and `off`.
A command that fails, or TERM, leads to `cleanup` (`Abort`), or straight to `off` when
the traps are not set yet. `Kill` ends it anywhere and leaves the rules, `HostReboot` removes
them. `Route` is what the kernel does under the rules of the moment with a query to the
gateway, to a default resolver or to any other server.

Each query that reaches a relay gets a task: `waiting` for the semaphore,
`connecting`, `exchanging`. `Receive`, `Acquire`, `Connect` and `End` are common to
both relays; the actions named `Doh...` and `Tcp...` are these steps of each. `via` is history:
whether the connection left through the proxy or directly.

### LabDeployment

Operators run the tools of the lab, and systemd runs `service.py`, at any time on one
host. `pc[o]` is what the tool of operator `o` is about to do, `job[o]` its locals:

| `pc` | where in the code |
|---|---|
| `replace` | `secret-transfer.py receive`: replacing one file after the other, after the set was staged and validated |
| `validate`, `checkout`, `copy`, `build`, `up`, `ready`, `record` | `deploy.py`, in this order |
| `pin`, `enable`, `restart` | `install-service.py`: `service.json`, then the check and `systemctl enable`, then `start` or `restart` |

`unit` is the same for the service: `check` is `ExecStartPre`, `lock`, `up` and `ready` the
locked part of `serve`, `active` its loop, `stop` and `restop` `ExecStopPost` (before
nothing, or before the start that `systemctl restart` asks for), `wait` the delay before
the automatic restart, `failed` the start limit. `loaded` is the pin that `serve` has read.
Delivery, deployment and the start of the service take `deployment.lock` without
waiting: one that finds it taken fails (`TakeLock`; for the service, `ServiceFails`).
`Install`, `Stop` and the check before a start do not take it. A tool may fail or be
killed at any step (`ToolFails`), so may the service (`ServiceFails`) and the host
(`HostCrash`): a delivery or a copy is cut between two files, a checkout is left
half-done, images are built and not started, or services of two releases run (`Torn`).
`delivered`, `cut` and `job.validated` are history.

A file is known by the set it was delivered with, and `Consistent` is the predicate of
`validate` on the files together: in the instance, one set's credentials name the
CA, so its first file without its second is refused.

## The runs

| Run | Instance | States | What it shows |
|---|---|---|---|
| `relay` | 2 connections, ports 53 and 443, 2 upstreams, 2 snapshots, 2 attempts, clock to 2 | 249 thousand | all relay properties, liveness included |
| `relay_hangup` | the same, port 53 | violation | an upstream that hangs up is not cooled down |
| `pipeline` | 1 candidate, 2 validation cycles, clock to 1, 1 death | 433 thousand | lineage of the keys, who is listed with which streak, and that validations reach the relay |
| `validation` | 4 candidates, 2 connectors, 2 slots, 2 versions of either file, clock to 2, 2 cycles, one thing at a time | 106 thousand | which secrets are offered and which database is used, how a cycle's result is ranked, and that cycles and probes end |
| `validation_overrun` | 2 candidates, 1 slot, 2 cycles | violation | one proxy can end the validator |
| `balance` | 3 requests, 2 modes | 11 thousand, up to symmetry | what haproxy runs in the end, and what an answer is worth |
| `readiness` | 1 candidate, 2 validation cycles, clock to 2, replacement at 1, limits 0 and 1 | 4.1 million | what a verdict of *ready* is worth |
| `update` | 2 updaters, 2 releases, 2 contents of the runtime files, 3 faults | 488 thousand | the installation's promise, and that interruptions are resolved |
| `update_advice` | 1 updater, 2 faults | violation | the advice to run `--recover` can be useless |
| `gateway` | 3 queries, 2 of them to one relay with 1 slot; no bound on starts, stops, kills and reboots | 1.2 million | where queries go, what rules are served under and left, that queries end |
| `gateway_shutdown` | 1 query | violation | a query under way at a stop may leave directly |
| `lab` | 2 operators, 2 commits, 2 sets of 2 files, 5 invocations, 1 start in a window | 257 thousand | what is delivered, recorded and reported READY, and that the lock comes free |

Why these bounds are enough for the cases that matter:

* **relay.** Two handlers are enough for every pairwise meeting at the lock, in a
  cooldown or in the capable set. Two snapshots let a refresh change the pool in
  the middle of a CONNECT. The second one repeats an address and is longer than
  `POOL_SIZE`, so that duplicates and the cut happen. With `RefreshEvery = 1` and a
  clock to 2, each handler meets both fresh and stale entries, and a cooldown of 1
  is seen running and expired. Two attempts give one retry; the first to exhaust
  the pool and the first to exhaust the budget both occur.
* **pipeline.** Two cycles of the validator give one key from each of two
  validations next to each other, which is what lineage and streaks are about; the
  second cycle may be the empty one. One death at every point, of every worker.
  Candidates do not interact in the pipeline except by a shared address, so one is
  enough; the theorems have any number.
* **validation.** The credential file and the ASN database do not meet in the code, and two cycles meet only
  in the probes that the first leaves behind. So the bound `OneThingAtATime` has four parts instead of their product.
  `SecretsMove`: three candidates need the credential store; the first loads, the second
  meets a file that is half written, the third shows what that left behind. With interval and timeout of one and
  a clock to 2, values are met fresh and due, a connection takes no time or all of its timeout, and
  a secret can get as old as the bound that no offer may reach.
  `DatabaseMoves`: a database left by an earlier installation is fresh at first and stale later, two releases
  let the checksum and the database differ, and an unknown exit is known in the second database.
  `AllAreListed`: outcomes are chosen so that exits share an ASN and a subnet, more unknown
  entries pass than the cap admits, with a verified one ranked after them, one
  answer shows the client's address and one the direct peer; the fourth candidate needs no credential.
  `CyclesMeet`: one probe of the first cycle fails it and leaves up to three, queued or
  negotiating, beside two of the next cycle. A third cycle would meet two sets of leftovers, which share nothing; the
  theorems have any number, and every combination of these parts.
* **balance.** Two requests can overlap in every way and a third finds what they left.
  The theorems have any number of requests.
* **readiness.** The replacement at 1 lies between two validations, so a pool may
  predate it, be republished after it, or be validated after it. A limit of
  one for validations and a clock to 2 make a validation expire while its ranking is
  still young. The second cycle changes the pools between two reads. One candidate
  is enough for that; deaths, which `pipeline` covers, are left out here, and the
  theorems have both.
* **update.** Three faults reach a failed update with a failed rollback and a
  failed recovery. Two updaters meet at the flock. Two releases suffice because an
  update knows only its previous and its target, and two contents of the runtime files because
  it compares them with one that it remembers; two faults edit them and put them back.
* **gateway.** All counters are the script's own, so nothing is bounded but the queries:
  leftovers of leftovers are reached. Two queries compete for the one slot of a relay, the third
  uses the other relay. `RoutedRight` is about all three kinds of server in every state.
* **lab.** Five invocations deliver, deploy, install, deploy another commit and
  return to the first, or put a second delivery anywhere in this. Two operators make every
  pair of tools meet at the lock, and with the service every pair of lock holders. The
  CA is the last file and optional, so that a delivery cut before it can leave files that
  do not fit. A limit of one start makes the unit fail and, when the window passes,
  start again.

The relay's model stops when all connections have ended and no time or snapshot is left, that of
a validation when its bounds are spent, and that of the balance API when every request
has been answered: their configurations disable the deadlock check. The other models have no end
state (a worker or an operator can always do something) and are checked for deadlock.

The properties, and what in the code makes them worth stating:

* *RefusedOnlyWhenExhausted* (with the theorem about *AttemptsAreDistinct*): the attempt loop spends its
  budget on different upstreams, although the candidate list can be replaced,
  reordered and contain duplicates between two attempts, and it gives up neither too
  early nor too late.
* *PoolNeverGoesBack* (with the theorem about *LockHeldByRefresh*): Redis replies are applied in the order of
  their reads because the lock is held across the await, and no error path keeps it.
* *CooldownOwnedByAttempts*: overlapping handlers may overwrite each other's
  cooldown for one upstream and port, but nothing else touches it.
* *DnsTunnelIsProven*: nobody is tunnelled to port 53 through an
  upstream that has not answered a DNS probe.
* *GatewayServesValidated*: each upstream the relay may read passed the probes of
  the very cycle its snapshot names.
* *LineageIsVisible, LineageNeverBackwards* (with the theorem about *LastSuccessIsReal*): what a reader that
  walks up the keys can rely on at any moment; the readiness gate does.
* *ReadyIsProven*: when the gate says ready, all the relay was given passed a validation
  after the replacement, although the relay's key may be from another cycle
  than the active pool it is compared with.
* *AssessedIsRecent*: ranking an old validation again and again does not get it past the
  assessment, which reads the time a second time after the snapshots.
* *PoolCatchesUp* (with the theorem about *RankerLeavesPoolsAligned*): the three pool keys are repaired by the next
  complete cycle after a death, and empty validations get through.
* *AuthIsRecent*: the values of the store survive a reload that fails, and the time of the last
  check is only set by one that succeeds. Together they may not make a secret that
  was withdrawn last longer than the reload interval; but the proxy is shown it only after the connection, which
  is awaited. What holds is the interval plus the timeout of the probe, for the probes of a failed cycle as well.
* *AsnIsVerified*: the database a cycle has open is a released one, although checksum and
  body come in two answers and the file is replaced under its readers; and it was not stale when
  the cycle looked, although it may have been replaced before it was opened.
* *PoolsAreRanked*: every pick changes the scores of the rest, and yet the published order is that
  of the published scores, nothing left out would have scored higher than the last
  entry, of two entries of the same networks the better comes first, and the cap on unknown ASNs
  passes over entries without ending the selection.
* *CycleEnds*: whatever the probes meet, each gives its slot back, and the cycle ends. So do the probes
  that a failed cycle leaves behind, those still queued on its semaphore included.
* The bound in `Validation`'s *TypeOK* is one for each cycle: `VALIDATION_CONCURRENCY` limits a semaphore, and a
  cycle that follows a failed one has a new semaphore while the old one's probes run on.
* *LoadedCatchesUp, AppliedAloneIsTrue*: haproxy reads the file and not what the
  request asked for, so the last reload that succeeds repairs what overlapping requests did
  to each other; and a request that met no other leaves all three places in agreement, whatever
  failed before it.
* *SettledIsWhole, RolledBackIsPrevious, ChangesAreJournalled,
  InstallationPromise*: checkout, pins and containers belong to one release unless
  an open journal says otherwise; a rollback that claims success is one.
* *PassedAsValidated*: the runtime files are fingerprinted, copied for the candidate, compared,
  given to the containers and compared again, and may be edited between any two. No number of
  edits gets past both comparisons, unless one puts the files back as they were.
* *RoutedRight, ServingIsFresh, StoppedIsClean*: the rules are installed and removed by
  single commands, over whatever a killed run left. No state in between sends a query to the
  wrong relay or lets it be forwarded, and no leftover is doubled or survives a proper stop. A start
  over a leftover policy rule fails (`Refused`) and cleans up; the next one serves.
* *SlotsAreOwned, EveryQueryEnds*: the semaphore gets its slots back on every path, those on which
  the daemon dies included, and lets no more tasks in than it has slots.
* *InstalledIsValidated, DeliveredIsCanonical*: between the validation and the copy of the
  canonical files no delivery gets in, and a delivery that failed leaves a mixture only until
  the next one passes.
* *RecordedIsInstalled*: the record of a deployment is written long after the checkout; the
  unit can be stopped and started in between, and its starts must not get in.
* *ReadyIsPinned*: the check before the start is worth nothing by the time the containers
  are started; what counts is that it is repeated under the lock.
* *LockComesFree*: nobody keeps the lock, the supervisor included,
  which needs it every 15 seconds.

## Fairness

* **relay.** The header and each negotiation have timeouts (10 s, 15 s), so weak
  fairness. `asyncio.Lock` is first come first served: a handler that finds it free
  again and again is eventually the one that takes it, so strong fairness on
  `Choose` and `Record`. The read of Redis under the lock has no timeout in the
  relay's code; weak fairness on `Refresh` *assumes* that Redis answers or fails.
  Nothing is assumed of clients, of open tunnels, of the ranker or of the clock.
* **pipeline.** `main` loops without an exit and sleeps a bounded time, so the
  ranker keeps stepping while it is up. Compose does not restart a dead worker: its
  restart is the service's or an operator's, and `PoolCatchesUp` assumes it
  happens. No fairness is assumed of the fetcher and the validator.
* **validation.** The baseline request and every probe, from its connection on, have a timeout
  (`PROXY_VALIDATION_TIMEOUT_SECONDS`, proxy_probe.py:301 and :348), and each semaphore wakes those that wait, first
  come first served, also when its cycle has failed: weak fairness of each. Nothing is assumed of operators, of the publisher, of the
  updater, or that a dead worker is started again: Compose does not.
* **balance.** None: the calls of haproxy and systemctl have no timeout, so nothing is claimed to
  happen.
* **update.** Every command goes through `execute` with a timeout, so an updater
  progresses. Recovery is explicit: `FairSpec` assumes that someone runs it
  again while the journal is open, and that the operator cleans a dirty checkout when told to.
  The second is needed: a checkout killed half way leaves changed files, and
  `--recover` refuses those before it reads the journal.
* **gateway.** Every step of an exchange has a timeout, and a semaphore that is released
  wakes the first that waits: weak fairness of `Enter` and `Finish`, as each query
  enters once. Nothing is assumed of the container or of clients.
* **lab.** Each command of the tools and of the start has a timeout, and systemd has its
  own for start and stop, so weak fairness. The supervisor polls every 15 seconds
  and skips the poll when the lock is taken; strong fairness on `Supervise` *assumes* that
  some poll meets a free lock when the lock is free again and again. Nothing is assumed of
  operators, nor that a failed unit is restarted.

## The proofs

All theorems hold for any values of the constants that satisfy the `ASSUME` of the
module. They are proved without fairness and cover every interleaving.

**EgressRelay_proofs.** `IndInv` is `TypeOK` and the safety invariants with five
strengthenings: a handler before its choice has budget left (`BudgetLeft`); one with
a candidate has tried it (`HasCandidate`); a fetched snapshot is at least the pool
and at most the store (`FetchedIsRecent`, which is where the lock is needed: two replies
in flight would break it); a handler that connects on port 53 has a proven candidate
(`ProbedBeforeUse`); `tried` is finite. `SelectStep` states once what a choice does and
serves the three actions that choose. Theorems: `RelayTypeOK`, `RelayLock`,
`RelayAttempts`, `RelayProbes`, and, as action properties from the same invariant,
`RelayPoolMonotone`, `RelayCooldowns`, `RelayRefusals`.

**PoolPipeline_proofs.** `IndInv` is `TypeOK` and `GatewayServesValidated` with: no
snapshot is dated in the future (`NothingFromTheFuture`); what a worker holds is
ordered between the key it read and the key it will write (`FetcherOrder`,
`RankerOrder`); what the validator is about to publish is the next cycle
(`CheckedIsNext`). From it: `PipelineTypeOK`, `PipelineServesValidated`,
`PipelineLineage`, `PipelineMonotone`, `PipelineAligned`, `PipelineLastSuccess`. `PipelineStreaks` is
conditional: *if* addresses are distinct, the published streak is the true one.
Two candidates with one address and different credentials do share a streak:
`previous_streaks` (validator.py:68) is keyed by the address. The theorem says that this is the only
way to get one that was not earned.

**Readiness_proofs.** `GateInv` takes the pipeline's `IndInv` as it is and adds that the
times in the keys are true (`KeysTruthful`: they are those of the history), that what the
gate keeps of the active pool still is (`SeenTruthful`: past cycles do not change,
`PastIsFixed`), and what each stage has established. `GateIsSound` and
`GateRefusesOldLineage` follow for every limit, every time of replacement and any number
of deaths.

**BalanceApi_proofs.** `IndInv` is `TypeOK` with: a request at work has a mode and no answer
yet (`Underway`); haproxy is behind its file only while some request is about to reload it, or
a reload has failed (`BehindOnlyBriefly`); what a request that has met no other has done so far
stands (`AloneStands`). `BalanceTypeOK` and `BalanceLoaded` follow from the invariant,
`BalanceApplied` from it and the one step that answers *applied*.

**UpdateTransaction_proofs.** `IndInv` is `TypeOK` and `RolledBackIsPrevious` with: whoever works
has the lock (`LockIsHeld`); before its journal is open an updater has touched nothing
(`NothingTouched`); afterwards it works by the journal on disk (`WorksByJournal`); what a command
has established still stands when the later ones run, although systemd starts and stops containers and
operators edit files in between (`Steered`); the images to go back to belong to the commit
to go back to (`Retained`); runtime files that are as the update found them, and were not put back, are
what the candidate and the containers were given (`EditsShow`); and an installation
without open journal is whole *and clean* (`Settled`). The last is why `SettledIsWhole` is not inductive:
the half-done checkout that a kill leaves has to be accounted for until somebody cleans it. Each
action has a lemma. Theorems: `UpdateTypeOK`, `UpdateSettled`, `UpdateRolledBack`, `UpdatePassed`,
`UpdateJournalled`, and `UpdatePromise`: `UpdateTransaction` implements `Installation`, as
opening a journal is its `Begin`, closing one is one of its ends (`OpenedBegins`, `ClosedEnds`), and
everything else leaves the release that is read off the disk alone.

**Gateway_proofs.** `RuleInv` is `TypeOK`, `ServingIsFresh` and `StoppedIsClean` with: a chain is always
the beginning of what a first start makes (`Ordered`, which gives `RoutedRight` in every state);
the guard stands from the first command on (`GuardStands`); how far each chain and each hook
has got at each command of the setup (`SetupChains`, `SetupHooks`) and of the cleanup (`CleanupGone`).
Before its `Flush` a chain may still be any of the beginnings that an earlier run has left. `GatewaySlots` is inductive with `TypeOK` alone, from what the cardinality of
a set does when one element is added (`AcquireFits`) or some go (`FewerFit`). The other theorems:
`GatewayTypeOK` (proved for every instance, and so not checked by a run), `GatewayRoutes`, `GatewayServesFresh`, `GatewayStopsClean`.

**LabDeployment_proofs.** `IndInv` is `TypeOK` and `DeliveredIsCanonical` with: the tools and the
service hold the lock in the stages in which they change anything (`LockIsHeld`); the files
replaced so far are of the set that is delivered (`Delivering`); the canonical files are still those that
were validated, and those copied so far are they (`Copying`); the commit, the images and the
containers a deployment has put in place so far are its own (`Deploying`); what the service checked
under the lock holds until it is ready (`Serving`). Theorems: `LabTypeOK`, `LabDelivered`, `LabInstalled`,
`LabRecorded`, `LabReady`.

**Validation_proofs.** On the cycle, `IndInv` has the types (`FilesTyped`, `CycleTyped`, `ProbesTyped`,
`PoolsTyped`), the count of each cycle's slots (`SlotsKept`, `Holders`), and for each hazard where its data came
from: a checksum that was downloaded is of a
release (`Downloads`); a database that was found fresh was so when the cycle looked, and one that
is open is verified (`Opening`, `AsnIsVerified`); the values in a store were in the file at its last
check or later (`StoresAreRecent`); and the secret of a probe that connects was in the file less than the interval
before the probe took it (`ProbesAreRecent`, in terms of `since`), which a file that is replaced later does
not change (`Withdrawn`). The probes of a failed cycle are under the same invariant: a cycle that ends only gives
slots back (`FewerSlots`). `AuthIsRecent` adds the two durations, as an offer comes in time (`OfferIsRecent`).
`ValidationTypeOK`, `ValidationAsn` and `ValidationAuth` follow for any
number of connectors, candidates, cycles and replacements of the two files.

`ValidationRanked` says `PoolsAreRanked` of every list of entries there can be, of any length, with any
latencies and histories. The library's induction takes the property as an operator, which the provers
cannot instantiate; here the property is a *set* of numbers (`SetInduction`, `UpTo`), from which
the loops of the code, recursive functions in the model, are shown to exist (`Recursion`) and to keep
an invariant (`RoundsHold`, `ActiveIsFair`). The argument: scores are fractions and compared by
cross-multiplication, which is an order only for positive denominators (`HigherOrders`); together with the
tie-breaks it orders the entries of a round (`BeatsOrders`), so that a best one exists (`BestExists`);
a pick only raises the penalties of what is left, whose scores fall (`ScoresFall`); so what is left never
beats what was picked, and the list comes out in the order of its own, final scores (`RankedWell`).
`SelectActive` admits an entry unless it is unknown and the cap is reached, and the number of unknown entries
in the list never exceeds the cap (`AdmittedFairly`).

The assumptions are those a deployment satisfies: sizes, limits and times are numbers, an
enumerated set is finite where the code iterates over it, `POOL_SIZE` and the limits are
positive, the active pool is no larger than the reserve, and `ValidationAssumption` gives the data of
candidates and feeds their types and has a positive reload interval and timeout (the validator leaves the first at
its default of one second, and refuses to run with a timeout that is not positive, validator.py:79). No theorem assumes anything of the order in which things happen.

Only model-checked: liveness, which is out of the prover's reach (`EveryConnectionEnds`, `PoolCatchesUp`,
`CycleEnds`, `InterruptionIsResolved`, `EveryQueryEnds`, `LockComesFree`). `StreakIsConsecutive` is
proved under the condition above. The four runs that end in a violation show single
behaviours and have nothing to prove.

## Disagreements between code and documentation

Each is a run in which TLC finds the documented claim violated.

1. `relay_hangup`. README.md:161 says that failed candidates enter a cooldown. An
   upstream that closes during the negotiation raises `IncompleteReadError`, which is
   not an `OSError`: the attempt loop is left, without a cooldown and without trying another candidate.
2. `validation_overrun`. proxy_probe.py:82 means a response with too large headers to fail one
   probe, and README.md:456 speaks of the interval between validation cycles. The stream reader has
   the same limit of 64 KiB and raises `LimitOverrunError` first, which neither `probe` nor
   `main` catches: the validator ends, and Compose does not restart it. `BaselineCutShort` is the
   same for an echo endpoint that hangs up on the direct request.
3. `update_advice`. An error after the closed journal is in place is followed by a
   rollback, and if that fails by the advice to run `--recover`, which refuses a closed journal.
4. `gateway_shutdown`. README.md:151-152 says that the marked socket of the DoH relay also passes
   through the upstream proxy. The clean-up removes the rule for marked sockets while the DNS
   relays are still running, so a query that connects after that goes out directly.

Noticed while modelling, without a run of their own: the relay's rotation index
(egress_relay.py:72) hands out unproven upstreams on port 53 while proven ones, sorted first, are
available; candidates that share an address share a streak (above); two overlapping requests for
different modes can both be answered "applied" and leave a mode file that says what haproxy
does not run (tg-balance-api.py:63); the probes of a failed cycle and those of the
next are together more than `VALIDATION_CONCURRENCY` (validator.py:77, :108); runtime files that are edited and put back before tg_update.py:302 or
:331 leave a candidate or containers made from files that nobody validated, and no comparison
shows it; `MAX_UNKNOWN_ASN_RATIO` is a share of `POOL_SIZE`,
not of the pool that results (ranking.py:98).

## Abstractions

* In `Validation` a version stands for a content. `get` and `tls_context` of an https candidate are
  one step without an await. Once connected, the negotiation and the request through a proxy are one step, and
  credentials count as offered when it begins, at any moment until the timeout. Cancelling a probe and
  leaving its slot are one step. A probe left by a failed cycle may step between the look at the database and its
  opening, though the code has no await there: one order more than there is. The event loop is never late
  for a timeout. Left out: which of two
  connectors' metadata a candidate keeps, the second parsing of candidates, the lab's own
  echo target, and the number of an ASN. The three publications of the ranker are one step there, and
  `PoolPipeline` has them apart.
* In `BalanceApi` a configuration is its mode, haproxy reads the file at one moment of the reload, and
  a second reload during a first is not merged into it (systemd runs it again). GET only reads. A death of the API process, which may leave a temporary
  file, is not modelled.
* A snapshot in the relay is an index into the sequence of published contents; in
  the pipeline it is its lineage and its set of entries. Scores, latencies and
  metadata are left out, and the ranking is any choice within the sizes.
* `SET` of a private temporary key and `RENAME` are one step, as only the second is
  visible. `completed_at` and `generated_at` are read in one breath and are one field.
* Redis loses nothing in the model; with the append-only file synced every second,
  a crash of the Redis host may lose the last second of keys.
* The gate's tolerance of five seconds for clocks that disagree is left out: the model
  has one clock. Exit addresses and the order of entries are not modelled, so the
  comparison with the relay's key is one of sets and sizes, and the request through the relay
  is a step that succeeds or ends the check.
* `connect_upstream` is one step with an outcome. Exceptions of the clean-up in
  `choose`'s finally clause (`aclose`) are not modelled.
* A git checkout that fails leaves the tree as it was; one that is killed may leave
  half of it and `index.lock`. A killed updater's orphaned Compose child is not
  modelled. `prepare-service` and the fingerprint of volumes are part of the `stop` and
  `verify` steps; the runtime files are copied for a candidate in one step, and how it is built
  is part of it. A restart of the service takes the runtime files as they are.
* The gateway has one `CLIENT_CIDR` and one default resolver, and an empty chain is no chain. A
  `CLIENT_CIDR` changed after a kill, whose old rules nothing would remove, is left out. That
  `ip rule` prints the mask and refuses a second copy of a rule is how current iproute2 and
  kernels behave, not something the repository says. The pool of threads behind
  `asyncio.to_thread`, which may be smaller than the semaphore, is not modelled. Nor is a command of
  `cleanup` that fails with its rule in place: its `|| true` is for a rule that is not there, and
  `StoppedIsClean` assumes that a rule that is there can be removed.
* In the lab, the checks of host, network, Compose file and fixture are part of steps that
  may fail. The service starts the images that exist (deploy/README.md:175), so that
  `ReadyIsPinned` says of the containers only that they run what was built last. The last check of the
  containers (service.py:116) and READY (service.py:119) are one step: a container that stops between them is
  noticed at the next poll. All images are of
  one commit, and renames survive a crash. `systemctl stop`
  by an operator and restarts of the Docker daemon are not modelled.
* `MaxNow`, `MaxCycles`, `MaxCrashes`, `MaxFaults`, `MaxJobs` and `MaxReleases` bound clocks and counters for
  TLC, and so does the constraint `OneThingAtATime`;
  the theorems hold for every value of them.

## The plan

Done: the relay, the pipeline with its readiness gate, the validation cycle with its files, the
ranking, the gateway container, the updater, the lab's deployment and the balance API.
Next:

1. An abstract pool (*the relay sees some recent validation*) implemented by
   `PoolPipeline`.
2. The remaining commands of `tgctl` (`configure`, `status`, the installation of the unit).

Theorems worth proving next: the refinement of that abstract pool; that a CONNECT which
ends in a refusal has put every upstream it tried in a cooldown, unless a hang-up ended it; the converse
of `SettledIsWhole` (a journal that is open is one from which `--recover` gets back), as far as
it is safety.

Not modelled, and not planned: the bytes of the proxy and TLS protocols (input parsing around
sockets), the parsing of feeds and of `connectors.json`, host provisioning and the acceptance
scripts (linear scripts around external tools, without state of the program's own).

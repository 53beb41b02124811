---------------------------- MODULE EgressRelay ----------------------------
(***************************************************************************)
(* The CONNECT relay of gateway/egress_relay.py: one asyncio process whose *)
(* client handlers share one Pool.  A step is the code between two awaits. *)
(* Handlers meet at the pool's lock, at the entries and cooldowns the Pool *)
(* keeps between requests, and at the Redis key the ranker overwrites.     *)
(*                                                                         *)
(* A snapshot is named by its place in Snapshots, the contents the ranker  *)
(* publishes one after the other; 0 stands for an absent key.  An upstream *)
(* is its address, the key under which the Pool remembers it.              *)
(***************************************************************************)
EXTENDS Integers, Sequences, FiniteSets

CONSTANTS
  Clients,        \* accepted connections, each served by one handler
  Addresses,      \* Pool.key of the upstreams
  Ports,          \* target ports clients ask for
  Snapshots,      \* contents of the gateway key, in the order published
  CapableKey,     \* what DNS_TCP_CAPABLE_KEY holds; {} when it is absent
  PoolSize,       \* POOL_SIZE
  Attempts,       \* UPSTREAM_CONNECT_ATTEMPTS
  RefreshEvery,   \* seconds between two reads of Redis
  Cooldown,       \* UPSTREAM_FAILURE_COOLDOWN_SECONDS
  MaxNow,         \* bound on the clock
  NoClient,       \* the lock is free
  NoUpstream      \* the handler has not chosen a candidate yet

DnsPort == 53

ASSUME ConstantsAssumption ==
  /\ Snapshots \in Seq(Seq(Addresses))
  /\ CapableKey \subseteq Addresses
  /\ PoolSize \in Nat \ {0} /\ Attempts \in Nat \ {0}
  /\ RefreshEvery \in Nat \ {0} /\ Cooldown \in Nat /\ MaxNow \in Nat
  /\ RefreshEvery <= MaxNow
  /\ NoClient \notin Clients /\ NoUpstream \notin Addresses

VARIABLES
  now,          \* time.monotonic()
  store,        \* the snapshot Redis holds
  pool,         \* the snapshot self.entries was cut from
  index,        \* self.index
  lastRefresh,  \* self.last_refresh
  lock,         \* holder of self.lock across an await
  failures,     \* self.failures: when a cooldown ends, 0 for no entry
  capable,      \* self.dns_tcp_capable
  pc,           \* where each handler stands
  port,         \* target[1], the port each client is going to ask for
  fetched,      \* the snapshot Redis returned to a refreshing handler
  cand,         \* candidate
  tried,        \* tried
  attempts,     \* iterations of the attempt loop begun
  answers,      \* status lines written to the client
  proven        \* history: upstreams that answered a DNS-over-TCP probe

poolVars == <<index, lastRefresh, failures, capable>>
choiceVars == <<cand, tried, attempts>>
handlerVars == <<pc, port, fetched, choiceVars, answers, proven>>
vars == <<now, store, pool, poolVars, lock, handlerVars>>

Stages == {"idle", "header", "choose", "refresh", "apply", "probe", "connect",
           "failed", "opened", "reply", "tunnel", "closed"}

Versions == 0 .. Len(Snapshots)

----------------------------------------------------------------------------
(* Pool.choose: the candidate list and the rotation over it. *)

\* self.entries = parsed[:self.size]
EntryCount(v) ==
  IF v = 0 THEN 0
  ELSE IF Len(Snapshots[v]) < PoolSize THEN Len(Snapshots[v]) ELSE PoolSize

Entry(v, i) == Snapshots[v][i]

\* An expired cooldown (or none) on the requested port.
Available(a, p) == failures[<<a, p>>] <= now

\* Positions of the entries that survive the filter.
Eligible(c, v) ==
  {i \in 1 .. EntryCount(v) :
     Entry(v, i) \notin tried[c] /\ Available(Entry(v, i), port[c])}

\* For port 53 the list is sorted, stably, with the capable entries first.
Before(c, v, cap, i, j) ==
  LET Second(k) == port[c] = DnsPort /\ Entry(v, k) \notin cap
  IN  \/ ~Second(i) /\ Second(j)
      \/ (Second(i) <=> Second(j)) /\ i < j

\* Position i is candidates[self.index % len(candidates)].
ItsTurn(c, v, cap, i) ==
  Cardinality({j \in Eligible(c, v) : Before(c, v, cap, j, i)})
     = index % Cardinality(Eligible(c, v))

Goto(c, stage) == pc' = [pc EXCEPT ![c] = stage]

\* The 502 of the handler's except clause, after which the writer is closed.
Answer502(c) ==
  /\ answers' = [answers EXCEPT ![c] = @ \cup {502}]
  /\ Goto(c, "closed")

\* Steps of one handler outside the Pool: it goes on, or it refuses its client.
Move(c, stage) ==
  /\ Goto(c, stage)
  /\ UNCHANGED <<now, store, pool, poolVars, lock, port, fetched, choiceVars,
                 answers, proven>>

Refuse(c) ==
  /\ Answer502(c)
  /\ UNCHANGED <<now, store, pool, poolVars, lock, port, fetched, choiceVars, proven>>

\* choose returns an entry, and the handler starts to negotiate with it.
SelectEntry(c, v, cap) ==
  \E i \in Eligible(c, v) :
    /\ ItsTurn(c, v, cap, i)
    /\ index' = index + 1
    /\ cand' = [cand EXCEPT ![c] = Entry(v, i)]
    /\ tried' = [tried EXCEPT ![c] = @ \cup {Entry(v, i)}]
    /\ attempts' = [attempts EXCEPT ![c] = @ + 1]
    /\ Goto(c, IF port[c] = DnsPort THEN "probe" ELSE "connect")
    /\ UNCHANGED answers

\* choose returns None: the loop breaks and the handler raises OSError.
SelectNone(c, v) ==
  /\ Eligible(c, v) = {}
  /\ Answer502(c)
  /\ UNCHANGED <<index, choiceVars>>

Select(c, v, cap) == SelectEntry(c, v, cap) \/ SelectNone(c, v)

----------------------------------------------------------------------------
Init ==
  /\ now = RefreshEvery        \* the host has been up for longer than that
  /\ store = 0 /\ pool = 0
  /\ index = 0 /\ lastRefresh = 0 /\ lock = NoClient
  /\ failures = [u \in Addresses \X Ports |-> 0]
  /\ capable = {}
  /\ pc = [c \in Clients |-> "idle"]
  /\ port \in [Clients -> Ports]
  /\ fetched = [c \in Clients |-> 0]
  /\ cand = [c \in Clients |-> NoUpstream]
  /\ tried = [c \in Clients |-> {}]
  /\ attempts = [c \in Clients |-> 0]
  /\ answers = [c \in Clients |-> {}]
  /\ proven = {}

----------------------------------------------------------------------------
(* The handler up to its first candidate. *)

Accept(c) == pc[c] = "idle" /\ Move(c, "header")

\* A CONNECT arrives and the attempt loop begins.
HeaderParsed(c) == pc[c] = "header" /\ Move(c, "choose")

\* Ten seconds pass, the client hangs up, or the request is not a CONNECT.
HeaderRefused(c) == pc[c] = "header" /\ Refuse(c)

\* No end of headers within the stream's limit: LimitOverrunError is not among
\* the exceptions the handler expects, and the connection is dropped unanswered.
HeaderOverrun(c) == pc[c] = "header" /\ Move(c, "closed")

----------------------------------------------------------------------------
(* Pool.choose *)

RefreshDue == now - lastRefresh >= RefreshEvery

\* raw is a local of choose.
Forget(c) == fetched' = [fetched EXCEPT ![c] = 0]

\* choose returns by the entries it had.
ChooseFromOld(c) ==
  /\ Select(c, pool, capable) /\ Forget(c)
  /\ UNCHANGED <<now, store, pool, lastRefresh, failures, capable, port, proven>>

\* The lock is free and the entries are recent: no await until the choice.
ChooseCached(c) ==
  /\ pc[c] = "choose" /\ lock = NoClient /\ ~RefreshDue
  /\ ChooseFromOld(c)
  /\ UNCHANGED lock

ReadRedis(c, noted) ==
  /\ pc[c] = "choose" /\ RefreshDue
  /\ lock' = c /\ lastRefresh' = noted
  /\ Goto(c, "refresh")
  /\ UNCHANGED <<now, store, pool, index, failures, capable, port, fetched,
                 choiceVars, answers, proven>>

\* Mutant: the pool is refreshed outside the lock.
RefreshUnlocked(c) == ReadRedis(c, now)

\* Mutant: the time noted is that of the next refresh.
RefreshNotesDue(c) == lock = NoClient /\ ReadRedis(c, now + RefreshEvery)

\* The refresh time is noted before the answer, or its absence, is known.
RefreshStart(c) == lock = NoClient /\ ReadRedis(c, now)

\* Redis serves the GET; its reply is on the way.
RedisAnswers(c) ==
  /\ pc[c] = "refresh"
  /\ fetched' = [fetched EXCEPT ![c] = store]
  /\ Goto(c, "apply")
  /\ UNCHANGED <<now, store, pool, poolVars, lock, port, choiceVars, answers, proven>>

\* The reply is applied, the choice made and the lock released without an await.
\* An absent key leaves what it would replace, and so does the key of the capable
\* upstreams when it does not parse, by which time the entries are in use.
RefreshApply(c) ==
  /\ pc[c] = "apply"
  /\ pool' = IF fetched[c] = 0 THEN pool ELSE fetched[c]
  /\ capable' \in {capable, IF CapableKey = {} THEN capable ELSE CapableKey}
  /\ Select(c, pool', capable') /\ Forget(c)
  /\ lock' = NoClient
  /\ UNCHANGED <<now, store, lastRefresh, failures, port, proven>>

\* Mutant: an error of Redis leaves choose without the release of the lock.
RefreshFailsLocked(c) ==
  pc[c] \in {"refresh", "apply"} /\ ChooseFromOld(c) /\ UNCHANGED lock

\* Any exception of the client: the previous entries stay in use.
RefreshFails(c) ==
  pc[c] \in {"refresh", "apply"} /\ ChooseFromOld(c) /\ lock' = NoClient

----------------------------------------------------------------------------
(* probe_dns_tcp and connect_upstream, as handle calls them. *)

Negotiating(c) == pc[c] \in {"probe", "connect"}

ProbeOK(c) ==
  /\ pc[c] = "probe"
  /\ proven' = proven \cup {cand[c]}
  /\ Goto(c, "connect")
  /\ UNCHANGED <<now, store, pool, poolVars, lock, port, fetched, choiceVars, answers>>

ConnectOK(c) == pc[c] = "connect" /\ Move(c, "opened")

\* Mutant: a failed probe is ignored.
ProbeIgnored(c) ==
  Negotiating(c) /\ Move(c, IF pc[c] = "probe" THEN "connect" ELSE "failed")

\* TimeoutError, OSError or ValueError: the attempt loop catches it.
UpstreamFails(c) == Negotiating(c) /\ Move(c, "failed")

\* The upstream closes the connection before its reply is complete.
\* IncompleteReadError passes the attempt loop and ends in the outer except.
UpstreamHangsUp(c) == Negotiating(c) /\ Refuse(c)

\* A reply without an end within the reader's limit passes both.
UpstreamOverrun(c) == Negotiating(c) /\ Move(c, "closed")

----------------------------------------------------------------------------
(* Pool.record_result, and what handle does with its outcome. *)

NextAttempt(c) == attempts[c] < Attempts /\ Goto(c, "choose") /\ UNCHANGED answers

\* Mutant: the loop makes one attempt too few.
BudgetSpentEarly(c) == attempts[c] + 1 >= Attempts /\ Answer502(c)

BudgetSpent(c) == attempts[c] = Attempts /\ Answer502(c)

RecordFailure(c) ==
  /\ pc[c] = "failed" /\ lock = NoClient
  /\ failures' = [failures EXCEPT ![<<cand[c], port[c]>>] = now + Cooldown]
  /\ NextAttempt(c) \/ BudgetSpent(c)
  /\ UNCHANGED <<now, store, pool, index, lastRefresh, capable, lock, port, fetched,
                 choiceVars, proven>>

Succeed(c) ==
  /\ pc[c] = "opened" /\ lock = NoClient
  /\ capable' = IF port[c] = DnsPort THEN capable \cup {cand[c]} ELSE capable
  /\ answers' = [answers EXCEPT ![c] = @ \cup {200}]
  /\ Goto(c, "reply")
  /\ UNCHANGED <<now, store, pool, index, lastRefresh, lock, port, fetched,
                 choiceVars, proven>>

\* Mutant: a success ends the upstream's cooldowns on every port.
SuccessClearsAllPorts(c) ==
  /\ Succeed(c)
  /\ failures' = [u \in DOMAIN failures |-> IF u[1] = cand[c] THEN 0 ELSE failures[u]]

RecordSuccess(c) ==
  /\ Succeed(c)
  /\ failures' = [failures EXCEPT ![<<cand[c], port[c]>>] = 0]

\* The drain after the 200 returns.
TunnelOpens(c) == pc[c] = "reply" /\ Move(c, "tunnel")

\* Both pipes saw the end of their stream.
TunnelEnds(c) == pc[c] = "tunnel" /\ Move(c, "closed")

\* A connection is reset: the except clause writes its 502 after the 200.
TunnelBreaks(c) == pc[c] \in {"reply", "tunnel"} /\ Refuse(c)

----------------------------------------------------------------------------
(* The environment: the ranker publishes, time passes. *)

Publish ==
  /\ store < Len(Snapshots)
  /\ store' = store + 1
  /\ UNCHANGED <<now, pool, poolVars, lock, handlerVars>>

Tick ==
  /\ now < MaxNow
  /\ now' = now + 1
  /\ UNCHANGED <<store, pool, poolVars, lock, handlerVars>>

----------------------------------------------------------------------------
Request(c) ==
  HeaderParsed(c) \/ HeaderRefused(c) \/ HeaderOverrun(c)

Choose(c) == ChooseCached(c) \/ RefreshStart(c)

Refresh(c) == RedisAnswers(c) \/ RefreshApply(c) \/ RefreshFails(c)

Negotiate(c) ==
  ProbeOK(c) \/ ConnectOK(c) \/ UpstreamFails(c) \/ UpstreamHangsUp(c)
  \/ UpstreamOverrun(c)

Record(c) == RecordFailure(c) \/ RecordSuccess(c)

Reply(c) == TunnelOpens(c) \/ TunnelBreaks(c)

Next ==
  \/ Publish \/ Tick
  \/ \E c \in Clients :
       Accept(c) \/ Request(c) \/ Choose(c) \/ Refresh(c) \/ Negotiate(c)
       \/ Record(c) \/ Reply(c) \/ TunnelEnds(c)

Spec == Init /\ [][Next]_vars

(* Timeouts end the wait for the header (10 s) and each negotiation (15 s).  *)
(* asyncio.Lock wakes its waiters in order, so a handler that keeps finding  *)
(* the lock free in turn gets it: strong fairness.  Redis is assumed to      *)
(* answer or to fail: the relay sets no timeout of its own on that read.     *)
Fairness ==
  \A c \in Clients :
    /\ WF_vars(Request(c))
    /\ SF_vars(Choose(c))
    /\ WF_vars(Refresh(c))
    /\ WF_vars(Negotiate(c))
    /\ SF_vars(Record(c))

FairSpec == Spec /\ Fairness

----------------------------------------------------------------------------
(* Correctness. *)

\* Every variable stays in its range; the counters stay within the bounds that
\* the attempt loop and the clock give them.
TypeOK ==
  /\ now \in 0 .. MaxNow
  /\ store \in Versions /\ pool \in Versions
  /\ index \in Nat /\ lastRefresh \in 0 .. MaxNow
  /\ lock \in Clients \cup {NoClient}
  /\ failures \in [Addresses \X Ports -> Nat]
  /\ capable \subseteq Addresses
  /\ pc \in [Clients -> Stages]
  /\ port \in [Clients -> Ports]
  /\ fetched \in [Clients -> Versions]
  /\ cand \in [Clients -> Addresses \cup {NoUpstream}]
  /\ tried \in [Clients -> SUBSET Addresses]
  /\ attempts \in [Clients -> 0 .. Attempts]
  /\ answers \in [Clients -> SUBSET {200, 502}]
  /\ proven \subseteq Addresses

\* The pool lock is held across an await exactly while its holder waits for
\* Redis: no path out of choose (an error, an empty list) keeps it.
LockHeldByRefresh ==
  \A c \in Clients : lock = c <=> pc[c] \in {"refresh", "apply"}

\* Within one CONNECT every attempt goes to an upstream that was not tried
\* before, whatever refreshes, rotations and duplicate entries come between,
\* so that the attempt budget is never spent twice on one address.
AttemptsAreDistinct ==
  \A c \in Clients : Cardinality(tried[c]) = attempts[c]

\* What the relay believes capable of DNS over TCP has passed a probe of its
\* own or is named by the key in Redis.
CapableWasProven == capable \subseteq proven \cup CapableKey

\* A client that was told 200 on port 53 is connected to an upstream that
\* answered the DNS-over-TCP probe.
DnsTunnelIsProven ==
  \A c \in Clients :
    200 \in answers[c] /\ port[c] = DnsPort => cand[c] \in proven

\* The entries in use never go back to an older snapshot, although replies of
\* Redis are applied after an await and the ranker publishes meanwhile.
PoolNeverGoesBack == [][pool' >= pool]_vars

\* A cooldown starts only by a failure of that upstream on that port, and goes
\* away early only by a success of that upstream on that port: no refresh, no
\* other port and no other upstream touches it.
CooldownOwnedByAttempts ==
  [][\A a \in Addresses, p \in Ports :
       failures'[<<a, p>>] # failures[<<a, p>>] =>
         \E c \in Clients :
           /\ cand[c] = a /\ port[c] = p
           /\ \/ pc[c] = "failed" /\ failures'[<<a, p>>] = now + Cooldown
              \/ pc[c] = "opened" /\ failures'[<<a, p>>] = 0 /\ 200 \in answers'[c]]_vars

\* While it chooses, a handler gives up only when its budget is spent or when
\* every entry in use was tried by it or is cooling down on its port.
RefusedOnlyWhenExhausted ==
  [][\A c \in Clients :
       /\ pc[c] \in {"choose", "refresh", "apply", "failed"}
       /\ pc'[c] = "closed"
       => \/ attempts[c] = Attempts
          \/ \A i \in 1 .. EntryCount(pool') :
               \/ Entry(pool', i) \in tried[c]
               \/ failures[<<Entry(pool', i), port[c]>>] > now]_vars

\* Every accepted connection is answered or dropped: none waits for ever for
\* the lock, for Redis or for an upstream.
EveryConnectionEnds ==
  \A c \in Clients : pc[c] = "header" ~> pc[c] \in {"reply", "tunnel", "closed"}

\* README.md:161, "Failed candidates enter a cooldown": the connection is given
\* up during a negotiation only with the candidate in cooldown.
FailedCandidatesCoolDown ==
  [][\A c \in Clients :
       pc[c] \in {"probe", "connect"} /\ pc'[c] = "closed"
         => failures'[<<cand[c], port[c]>>] > now]_vars

=============================================================================

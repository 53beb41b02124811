------------------------------ MODULE Gateway ------------------------------
(***************************************************************************)
(* The gateway container: entrypoint.sh installs the interception rules in *)
(* the host's network namespace, starts the daemons and removes the rules  *)
(* when it ends; doh_dns.py and udp2tcp_dns.py answer the DNS queries the  *)
(* rules bring to them.  Rules outlive a container that is killed, so the  *)
(* next start runs over whatever is left.                                  *)
(*                                                                         *)
(* A query goes to the gateway itself, to one of DNS_DEFAULT_RESOLVER_IPS  *)
(* or to any other server.  What iptables, ip and the kernel do with the   *)
(* rules is external; the order of the rules is the script's.              *)
(***************************************************************************)
EXTENDS Naturals, Sequences, FiniteSets

CONSTANTS
  Queries,  \* UDP datagrams to port 53 that clients may send
  DestOf,   \* the kind of server each is sent to
  Limit     \* DNS_MAX_CONCURRENCY

Kinds == {"local", "default", "other"}

ASSUME GatewayAssumption ==
  /\ IsFiniteSet(Queries)
  /\ DestOf \in [Queries -> Kinds]
  /\ Limit \in Nat \ {0}

VARIABLES
  hooks,  \* single rules in place: jumps to the chains, guard, mark, policy rule, route
  chain,  \* the TG_* chains: what their rules match, in order
  stage,  \* what entrypoint.sh is doing
  at,     \* the next command of the setup or of the cleanup
  alive,  \* its daemons
  task,   \* where each query is
  relay,  \* the relay that received it
  held,   \* queries whose task is inside the semaphore of its relay
  via     \* history: how the relay's connection for the query left the host

ruleVars == <<hooks, chain>>
scriptVars == <<stage, at, alive>>
queryVars == <<task, relay, held, via>>
vars == <<ruleVars, scriptVars, queryVars>>

Chains == {"tcp", "doh", "tproxy"}
Daemons == {"doh", "redsocks", "udp2tcp", "egress"}
Hooks == Chains \cup {"guard", "mark", "policy", "route"}

Empty == [c \in Chains |-> <<>>]

----------------------------------------------------------------------------
(* The commands of the script.  A chain that is empty and one that does not  *)
(* exist are the same here.                                                  *)

Hook(h) == [do |-> "hook", what |-> h, match |-> "none"]
Add(h) == [do |-> "add", what |-> h, match |-> "none"]
Flush(c) == [do |-> "flush", what |-> c, match |-> "none"]
Entry(c, m) == [do |-> "append", what |-> c, match |-> m]
Unhook(h) == [do |-> "unhook", what |-> h, match |-> "none"]

\* Mutant: the rule for all servers comes before the exceptions.
SetupCatchAllFirst ==
  << Hook("guard"), Flush("tcp"), Flush("doh"), Flush("tproxy"),
     Hook("tcp"), Entry("tcp", "any"), Hook("doh"), Hook("tproxy"),
     Entry("doh", "local"), Entry("tproxy", "any"), Entry("tproxy", "local"),
     Entry("doh", "default"), Entry("tproxy", "default"),
     Hook("mark"), Add("policy"), Hook("route") >>

\* Mutant: chains of an earlier run are not flushed.
SetupUnflushed ==
  << Hook("guard"), Hook("tcp"), Entry("tcp", "any"), Hook("doh"), Hook("tproxy"),
     Entry("doh", "local"), Entry("tproxy", "local"),
     Entry("doh", "default"), Entry("tproxy", "default"), Entry("tproxy", "any"),
     Hook("mark"), Add("policy"), Hook("route") >>

Setup ==
  << Hook("guard"), Flush("tcp"), Flush("doh"), Flush("tproxy"),
     Hook("tcp"), Entry("tcp", "any"), Hook("doh"), Hook("tproxy"),
     Entry("doh", "local"), Entry("tproxy", "local"),
     Entry("doh", "default"), Entry("tproxy", "default"), Entry("tproxy", "any"),
     Hook("mark"), Add("policy"), Hook("route") >>

\* Mutant: the rule for marked sockets is forgotten.
CleanupWithoutMark ==
  << Unhook("tcp"), Unhook("doh"), Unhook("tproxy"),
     Flush("tcp"), Flush("doh"), Flush("tproxy"), Unhook("policy"), Unhook("route") >>

\* The guard stays.
Cleanup ==
  << Unhook("tcp"), Unhook("doh"), Unhook("mark"), Unhook("tproxy"),
     Flush("tcp"), Flush("doh"), Flush("tproxy"), Unhook("policy"), Unhook("route") >>

\* -C || -A, and ip route replace, leave one copy.  The test before ip rule add
\* looks for "fwmark 0x1 lookup 100" in what ip prints as "fwmark 0x1/0xff
\* lookup 100": it never finds it, and the kernel refuses a second copy.
Refused(command) == command.do = "add" /\ command.what \in hooks

Execute(command) ==
  /\ ~Refused(command)
  /\ hooks' = CASE command.do \in {"hook", "add"} -> hooks \cup {command.what}
                [] command.do = "unhook" -> hooks \ {command.what}
                [] OTHER -> hooks
  /\ chain' = CASE command.do = "flush" -> [chain EXCEPT ![command.what] = <<>>]
                [] command.do = "append" ->
                     [chain EXCEPT ![command.what] = Append(@, command.match)]
                [] OTHER -> chain

----------------------------------------------------------------------------
(* What the kernel does with a client's query.  The mangle table comes first. *)

\* The rules of a chain that match, of which the first decides.
Matching(c, dest) == {i \in DOMAIN chain[c] : chain[c][i] \in {dest, "any"}}

\* The last rule of TG_DNS_TPROXY diverts, those before it return.
Diverted(dest) ==
  /\ "tproxy" \in hooks
  /\ \E i \in Matching("tproxy", dest) :
       /\ chain["tproxy"][i] = "any"
       /\ \A j \in Matching("tproxy", dest) : i <= j

Redirected(dest) == "doh" \in hooks /\ Matching("doh", dest) # {}

\* The guard drops whatever would be forwarded.
Unserved(dest) == IF dest = "local" \/ "guard" \in hooks THEN "dropped" ELSE "forwarded"

Route(dest) ==
  IF Diverted(dest)
  THEN IF {"policy", "route"} \subseteq hooks THEN "udp2tcp" ELSE Unserved(dest)
  ELSE IF Redirected(dest) THEN "doh" ELSE Unserved(dest)

----------------------------------------------------------------------------
Pending == {"waiting", "connecting", "exchanging"}

Init ==
  /\ hooks = {} /\ chain = Empty
  /\ stage = "off" /\ at = 1 /\ alive = {}
  /\ task = [q \in Queries |-> "unsent"]
  /\ relay = [q \in Queries |-> "none"]
  /\ held = {}
  /\ via = [q \in Queries |-> "none"]

----------------------------------------------------------------------------
(* entrypoint.sh *)

\* The daemons outside survivors are gone, with their tasks.
Survive(survivors) ==
  /\ alive' = survivors
  /\ task' = [q \in Queries |->
                IF task[q] \in Pending /\ relay[q] \notin survivors THEN "lost" ELSE task[q]]
  /\ held' = {q \in held : relay[q] \in survivors}
  /\ UNCHANGED <<relay, via>>

\* compose up.
Begin ==
  /\ stage = "off"
  /\ stage' = "setup" /\ at' = 1
  /\ UNCHANGED <<ruleVars, alive, queryVars>>

SetupStep ==
  /\ stage = "setup" /\ at <= Len(Setup)
  /\ Execute(Setup[at])
  /\ at' = at + 1
  /\ UNCHANGED <<stage, alive, queryVars>>

\* set -e after a command that fails, and the trap on TERM and INT.  The traps
\* are set after the first command.
Abort ==
  /\ stage = "setup"
  /\ stage' = IF at = 1 THEN "off" ELSE "cleanup"
  /\ at' = 1
  /\ UNCHANGED <<ruleVars, alive, queryVars>>

StartDaemons ==
  /\ stage = "setup" /\ at = Len(Setup) + 1
  /\ stage' = "serving" /\ at' = 1 /\ alive' = Daemons
  /\ UNCHANGED <<ruleVars, queryVars>>

\* wait returns: the egress relay, started last, is dead, or TERM has come.  The
\* daemons go on while the rules are removed.
EndServing ==
  /\ stage = "serving"
  /\ stage' = "cleanup"
  /\ UNCHANGED <<ruleVars, at, alive, queryVars>>

\* Each command may find nothing to remove.
CleanupStep ==
  /\ stage = "cleanup"
  /\ Execute(Cleanup[at])
  /\ IF at < Len(Cleanup) THEN at' = at + 1 /\ UNCHANGED stage
                          ELSE at' = 1 /\ stage' = "ending"
  /\ UNCHANGED <<alive, queryVars>>

\* The shell ends, tini with it, and with tini the daemons.
Exit ==
  /\ stage = "ending"
  /\ stage' = "off" /\ Survive({})
  /\ UNCHANGED <<ruleVars, at>>

Kill ==
  /\ stage # "off"
  /\ stage' = "off" /\ at' = 1 /\ Survive({})
  /\ UNCHANGED ruleVars

HostReboot ==
  /\ hooks' = {} /\ chain' = Empty
  /\ stage' = "off" /\ at' = 1 /\ Survive({})

DaemonDies(d) ==
  /\ d \in alive
  /\ Survive(alive \ {d})
  /\ UNCHANGED <<ruleVars, stage, at>>

----------------------------------------------------------------------------
(* The DNS relays.  Each datagram gets a task of its own. *)

Move(q, place) == task' = [task EXCEPT ![q] = place]

Receive(q, by) ==
  /\ task[q] = "unsent" /\ Route(DestOf[q]) = by /\ by \in alive
  /\ Move(q, "waiting")
  /\ relay' = [relay EXCEPT ![q] = by]
  /\ UNCHANGED <<ruleVars, scriptVars, held, via>>

DohReceive(q) == Receive(q, "doh")

\* A packet without its original destination is left out.
TproxyReceive(q) == Receive(q, "udp2tcp")

\* No rule, no relay, or no original destination.
Miss(q) ==
  /\ task[q] = "unsent"
  /\ Route(DestOf[q]) \notin alive \/ Route(DestOf[q]) = "udp2tcp"
  /\ Move(q, "lost")
  /\ UNCHANGED <<ruleVars, scriptVars, relay, held, via>>

\* Mutant: a task that finds the slots taken is let in all the same.
AcquireOneMore(q, by) ==
  /\ task[q] = "waiting" /\ relay[q] = by
  /\ Cardinality({x \in held : relay[x] = by}) <= Limit
  /\ held' = held \cup {q}
  /\ Move(q, "connecting")
  /\ UNCHANGED <<ruleVars, scriptVars, relay, via>>

\* async with limit
Acquire(q, by) ==
  /\ task[q] = "waiting" /\ relay[q] = by
  /\ Cardinality({x \in held : relay[x] = by}) < Limit
  /\ held' = held \cup {q}
  /\ Move(q, "connecting")
  /\ UNCHANGED <<ruleVars, scriptVars, relay, via>>

DohAcquire(q) == Acquire(q, "doh")

TcpAcquire(q) == Acquire(q, "udp2tcp")

\* A marked socket: the rule in OUTPUT takes it to redsocks and the egress relay.
Connect(q, by) ==
  LET way == IF "mark" \in hooks THEN "proxy" ELSE "direct" IN
  /\ task[q] = "connecting" /\ relay[q] = by
  /\ way = "proxy" => {"redsocks", "egress"} \subseteq alive
  /\ via' = [via EXCEPT ![q] = way]
  /\ Move(q, "exchanging")
  /\ UNCHANGED <<ruleVars, scriptVars, relay, held>>

DohConnect(q) == Connect(q, "doh")

TcpConnect(q) == Connect(q, "udp2tcp")

\* Mutant: a failure does not give the slot back.
EndKeepingSlot(q, by) ==
  /\ task[q] \in {"connecting", "exchanging"} /\ relay[q] = by
  /\ \/ task[q] = "exchanging" /\ Move(q, "answered") /\ held' = held \ {q}
     \/ Move(q, "lost") /\ UNCHANGED held
  /\ UNCHANGED <<ruleVars, scriptVars, relay, via>>

\* The reply is sent; or a timeout, an error the task catches, or one that ends it.
End(q, by) ==
  /\ task[q] \in {"connecting", "exchanging"} /\ relay[q] = by
  /\ \/ task[q] = "exchanging" /\ Move(q, "answered")
     \/ Move(q, "lost")
  /\ held' = held \ {q}
  /\ UNCHANGED <<ruleVars, scriptVars, relay, via>>

DohEnd(q) == End(q, "doh")

TcpEnd(q) == End(q, "udp2tcp")

----------------------------------------------------------------------------
Enter(q) == DohAcquire(q) \/ TcpAcquire(q)

Finish(q) == DohEnd(q) \/ TcpEnd(q)

Next ==
  \/ Begin \/ SetupStep \/ Abort \/ StartDaemons \/ EndServing \/ CleanupStep \/ Exit
  \/ Kill \/ HostReboot
  \/ \E d \in Daemons : DaemonDies(d)
  \/ \E q \in Queries :
       \/ DohReceive(q) \/ TproxyReceive(q) \/ Miss(q)
       \/ Enter(q) \/ DohConnect(q) \/ TcpConnect(q) \/ Finish(q)

\* Every connection, write and read of the relays has a timeout, and a released
\* semaphore wakes the first task that waits.
Fairness == \A q \in Queries : WF_vars(Enter(q)) /\ WF_vars(Finish(q))

Spec == Init /\ [][Next]_vars

FairSpec == Spec /\ Fairness

----------------------------------------------------------------------------
(* Correctness. *)

TypeOK ==
  /\ hooks \subseteq Hooks
  /\ chain \in [Chains -> Seq(Kinds \cup {"any"})] /\ \A c \in Chains : Len(chain[c]) <= 3
  /\ stage \in {"off", "setup", "serving", "cleanup", "ending"}
  /\ at \in 1 .. Len(Setup) + 1
  /\ alive \subseteq Daemons
  /\ task \in [Queries -> Pending \cup {"unsent", "answered", "lost"}]
  /\ relay \in [Queries -> {"none", "doh", "udp2tcp"}]
  /\ held \subseteq Queries
  /\ via \in [Queries -> {"none", "proxy", "direct"}]

RelayFor(dest) == IF dest = "other" THEN "udp2tcp" ELSE "doh"

\* From the first command of the first start after a boot, a query reaches the relay that is
\* meant for it or none, and is never forwarded: through setups and cleanups cut
\* anywhere, starts over what they left, and stops (README.md:622-624 and the comment
\* at entrypoint.sh:14).
RoutedRight ==
  stage \in {"serving", "cleanup", "ending"} \/ at > 1 \/ "guard" \in hooks =>
    \A dest \in Kinds : Route(dest) \in {RelayFor(dest), "dropped"}

\* Whatever earlier runs left, the rules under which the daemons serve are those a
\* first start makes: each once and in order.
ServingIsFresh ==
  stage = "serving" =>
    /\ hooks = Hooks
    /\ chain = [tcp |-> <<"any">>, doh |-> <<"local", "default">>,
                tproxy |-> <<"local", "default", "any">>]

\* README.md:631-632, "On graceful shutdown, the entrypoint removes its jumps, chains,
\* policy rule, and table-100 route", those of killed runs included; the guard stays.
StoppedIsClean == stage = "ending" => hooks = {"guard"} /\ chain = Empty

\* The slots of a relay are those of the tasks inside its semaphore, which are never
\* more than DNS_MAX_CONCURRENCY: a task that ends in an error or with its daemon keeps
\* none (udp2tcp_dns.py:95, doh_dns.py:57).
SlotsAreOwned ==
  /\ \A q \in Queries : q \in held <=> task[q] \in {"connecting", "exchanging"}
  /\ \A by \in {"doh", "udp2tcp"} : Cardinality({q \in held : relay[q] = by}) <= Limit

\* Every query that a relay has received ends, and so its slot comes free.
EveryQueryEnds == \A q \in Queries : task[q] \in Pending ~> task[q] \notin Pending

\* README.md:151-152, "Its TCP socket is marked 0x53, so the HTTPS connection also
\* passes through the upstream proxy".
RelaysStayProxied == \A q \in Queries : via[q] # "direct"

=============================================================================

------------------------- MODULE UpdateTransaction -------------------------
(***************************************************************************)
(* scripts/tg_update.py: an update of an installation from one commit to   *)
(* another, with rollback on failure and explicit recovery from a journal. *)
(* What survives the updater is the checkout, the two files it replaces    *)
(* atomically (images.json, transaction.json) and what Docker and systemd  *)
(* keep.  The updater may fail at every command, and may be killed, alone  *)
(* or with the host, between any two; systemd and the operator bring the   *)
(* containers up and down meanwhile, without the updater's lock.           *)
(*                                                                         *)
(* update and restore run the same commands towards different releases, so *)
(* they are one sequence here: stop, checkout, pin, up, start, health,     *)
(* verify, close.  Release r stands for a commit and for the images built  *)
(* from it.  Git leaves the checkout as it was when a checkout fails, and    *)
(* half done and locked when a checkout is killed.                         *)
(***************************************************************************)
EXTENDS Integers

CONSTANTS
  Updaters,    \* invocations of tgctl.py update
  Releases,    \* commits, and the image sets built from them
  NoUpdater,   \* the flock is free
  NoPins,      \* there is no images.json
  Torn,        \* an interrupted compose up: services of different releases
  Contents,    \* what .env, inventory and credentials may hold, with owner and mode
  MaxFaults    \* bound on failures, kills, crashes, stops and edits

ASSUME UpdateAssumption ==
  /\ NoUpdater \notin Updaters
  /\ NoPins \notin Releases /\ Torn \notin Releases /\ NoPins # Torn
  /\ MaxFaults \in Nat

VARIABLES
  head,      \* the commit checked out
  dirty,     \* a git checkout was killed: half of its files, and its index.lock
  pins,      \* images.json: the images Compose is told to use
  journal,   \* transaction.json
  deployed,  \* what the containers were created from
  running,   \* the containers run
  runtime,   \* contents, owner and mode of .env, inventory and credentials
  copied,    \* what the last candidate was given of them
  putBack,   \* history: they were edited back to what the update had found
  lock,      \* holder of runtime/update/lock
  pc,        \* the command each updater is about to run
  way,       \* forward, rollback (update's except clause) or recover
  plan,      \* update's locals: the journal record and the fingerprint
  advice,    \* the last updater ended with "run update --recover"
  undone,    \* history: a completed update is, or was until killed, rolled back
  faults     \* faults so far

diskVars == <<head, dirty, pins, journal>>
dockerVars == <<deployed, running>>
runtimeVars == <<runtime, copied, putBack>>
updaterVars == <<lock, pc, way, plan>>
historyVars == <<advice, undone>>
vars == <<diskVars, dockerVars, runtimeVars, updaterVars, historyVars, faults>>

Images == Releases \cup {Torn}
Commands == {"stop", "checkout", "pin", "up", "start", "health", "verify", "close"}
Ways == {"forward", "rollback", "recover"}
Phases == {"none", "switching", "complete", "rolled_back"}

Plan == [previous : Releases, images : Images, target : Releases, baseline : Contents]
Deployment == [code : Releases, images : Images, runtime : Contents]

Interrupted == journal.phase = "switching"

----------------------------------------------------------------------------
Init ==
  /\ \E r \in Releases, f \in Contents :
       LET p == [previous |-> r, images |-> r, target |-> r, baseline |-> f]
       IN  /\ head = r
           /\ journal = [phase |-> "none", plan |-> p]
           /\ deployed = [code |-> r, images |-> r, runtime |-> f]
           /\ runtime = f /\ copied = f
           /\ plan = [u \in Updaters |-> p]
  /\ dirty = FALSE /\ pins = NoPins /\ running = TRUE /\ putBack = FALSE
  /\ lock = NoUpdater
  /\ pc = [u \in Updaters |-> "idle"]
  /\ way = [u \in Updaters |-> "forward"]
  /\ advice = FALSE /\ undone = FALSE /\ faults = 0

----------------------------------------------------------------------------
(* Control. *)

Fault == faults < MaxFaults /\ faults' = faults + 1

Goto(u, command) == pc' = [pc EXCEPT ![u] = command]

\* A command succeeds and the next one is due.
Advance(u, command) ==
  Goto(u, command) /\ UNCHANGED <<runtimeVars, lock, way, plan, historyVars, faults>>

\* Mutant: the lock is a file that only a finished update removes.
ExitLocked(u) == Goto(u, "idle") /\ UNCHANGED lock

\* The finally clause: the lock is closed.
Exit(u) == Goto(u, "idle") /\ lock' = NoUpdater

\* The except clause.  An update that has switched is rolled back; a rollback
\* that fails ends with the advice to recover; a recovery just ends.
Failed(u) ==
  \/ /\ way[u] = "forward" /\ pc[u] \in Commands
     /\ way' = [way EXCEPT ![u] = "rollback"]
     /\ Goto(u, "stop")
     /\ UNCHANGED <<lock, advice>>
  \/ /\ way[u] # "forward" \/ pc[u] \notin Commands
     /\ Exit(u)
     /\ advice' = (way[u] = "rollback")
     /\ UNCHANGED way

\* The release an updater is steering to: its commit and its images.
GoalCode(u) == IF way[u] = "forward" THEN plan[u].target ELSE plan[u].previous

\* Mutant: a rollback leaves the pins of the target.
GoalImagesOfTarget(u) == plan[u].target

GoalImages(u) == IF way[u] = "forward" THEN plan[u].target ELSE plan[u].images

\* compose up: the checkout's services on the pinned images.  Without pins the
\* images are those of the last build, or built now if an operator runs tgctl up.
Recreated ==
  [code : IF dirty THEN Releases ELSE {head}, runtime : {runtime},
   images : IF pins = NoPins THEN {head, deployed.images} ELSE {pins}]

----------------------------------------------------------------------------
(* update, up to the journal. *)

NewPlan(target, images) ==
  [previous |-> head, images |-> images, target |-> target, baseline |-> runtime]

\* The lock is taken in a clean checkout.
Begin(u, direction, stage, record) ==
  /\ lock = NoUpdater /\ pc[u] = "idle" /\ ~dirty
  /\ lock' = u /\ Goto(u, stage)
  /\ way' = [way EXCEPT ![u] = direction]
  /\ plan' = [plan EXCEPT ![u] = record]
  /\ putBack' = FALSE
  /\ UNCHANGED <<diskVars, dockerVars, runtime, copied, historyVars, faults>>

\* Mutant: the images to go back to are taken from images.json.
BeginFromPins(u) ==
  /\ ~Interrupted /\ running
  /\ \E target \in Releases \ {head} :
       Begin(u, "forward", "prepare", NewPlan(target, pins))

\* Mutant: the journal of an interrupted update is not looked at.
BeginRegardless(u) ==
  /\ running
  /\ \E target \in Releases \ {head} :
       Begin(u, "forward", "prepare", NewPlan(target, deployed.images))

\* The checks pass, the installation is healthy and the fetched commit is not
\* the one installed.
BeginUpdate(u) ==
  /\ ~Interrupted /\ running
  /\ \E target \in Releases \ {head} :
       Begin(u, "forward", "prepare", NewPlan(target, deployed.images))

\* The worktree of the candidate is given the runtime files; it is checked and
\* its images are built.
CopyRuntime(u) ==
  /\ pc[u] = "prepare"
  /\ copied' = runtime /\ Goto(u, "compare")
  /\ UNCHANGED <<diskVars, dockerVars, runtime, putBack, lock, way, plan, historyVars, faults>>

PreparedFor(u, command) ==
  /\ pc[u] = "compare" /\ runtime = plan[u].baseline
  /\ Advance(u, command)
  /\ UNCHANGED <<diskVars, dockerVars>>

\* Mutant: the switch begins without a journal.
PreparedUnjournalled(u) == PreparedFor(u, "stop")

\* The runtime files, and the candidate with the installation, are compared.
Prepared(u) == pc[u] = "compare" /\ PreparedFor(u, "journal")

Opened(u) ==
  /\ journal' = [phase |-> "switching", plan |-> plan[u]]
  /\ UNCHANGED <<head, dirty, pins, dockerVars>>

OpenJournal(u) == pc[u] = "journal" /\ Opened(u) /\ Advance(u, "stop")

\* An error or an interrupt after the file is in place and before switched is set.
OpenJournalThenFail(u) ==
  /\ pc[u] = "journal" /\ Fault
  /\ Opened(u) /\ Failed(u)
  /\ UNCHANGED <<runtimeVars, plan, undone>>

\* update --recover: the journal of the interrupted update is the plan.  A
\* checkout with changed files is refused before the journal is looked at.
BeginRecovery(u) == Interrupted /\ Begin(u, "recover", "stop", journal.plan)

----------------------------------------------------------------------------
(* The commands of update after its journal, and of restore. *)

\* systemctl stop, in restore after a compose stop.
StopService(u) ==
  /\ pc[u] = "stop"
  /\ running' = FALSE
  /\ Advance(u, "checkout") /\ UNCHANGED <<diskVars, deployed>>

Checkout(u) ==
  /\ pc[u] = "checkout" /\ ~dirty
  /\ head' = GoalCode(u)
  /\ Advance(u, "pin") /\ UNCHANGED <<dirty, pins, journal, dockerVars>>

PinImages(u) ==
  /\ pc[u] = "pin"
  /\ pins' = GoalImages(u)
  /\ Advance(u, "up") /\ UNCHANGED <<head, dirty, journal, dockerVars>>

\* compose up, then systemctl start, whose ExecStart runs compose up again.
StartRelease(u) ==
  /\ pc[u] \in {"up", "start"}
  /\ deployed' \in Recreated /\ running' = TRUE
  /\ Advance(u, IF pc[u] = "up" THEN "start" ELSE "health")
  /\ UNCHANGED diskVars

Healthy(u) ==
  /\ pc[u] = "health" /\ running
  /\ Advance(u, "verify") /\ UNCHANGED <<diskVars, dockerVars>>

Verified(u) ==
  /\ pc[u] = "verify"
  /\ Advance(u, "close") /\ UNCHANGED <<diskVars, dockerVars>>

\* Mutant: the runtime files are not compared again.
VerifyVolumesOnly(u) == Verified(u)

\* The mounted volumes and, in update only, the runtime files are compared.
Verify(u) == Verified(u) /\ (way[u] = "forward" => runtime = plan[u].baseline)

Closed(u) ==
  journal' = [phase |-> IF way[u] = "forward" THEN "complete" ELSE "rolled_back",
              plan |-> plan[u]]

CloseJournal(u) ==
  /\ pc[u] = "close"
  /\ Closed(u)
  /\ Exit(u)
  /\ advice' = FALSE
  /\ undone' = (undone /\ GoalImages(u) # GoalCode(u))
  /\ UNCHANGED <<head, dirty, pins, dockerVars, runtimeVars, way, plan, faults>>

\* An error or an interrupt after the closed journal is in place: the sync of
\* the directory, the last message.  A completed update is rolled back.
CloseJournalThenFail(u) ==
  /\ pc[u] = "close" /\ Fault
  /\ Closed(u)
  /\ Failed(u)
  /\ undone' = (way[u] = "forward" \/ (undone /\ GoalImages(u) # GoalCode(u)))
  /\ UNCHANGED <<head, dirty, pins, dockerVars, runtimeVars, plan>>

----------------------------------------------------------------------------
(* Failures. *)

\* What the commands of the updaters us may leave when they end too early: a
\* compose up that replaced some of the containers, a checkout half done.
Unfinished(us) ==
  /\ deployed' \in IF \E u \in us : pc[u] \in {"up", "start"}
                   THEN {deployed, [deployed EXCEPT !.images = Torn]} ELSE {deployed}
  /\ dirty' \in IF \E u \in us : pc[u] = "checkout" THEN {dirty, TRUE} ELSE {dirty}
  /\ UNCHANGED <<head, pins, journal>>

\* A command returns an error, or its timeout kills it.
CommandFails(u) ==
  /\ pc[u] # "idle" /\ Fault
  /\ Unfinished({u})
  /\ Failed(u)
  /\ UNCHANGED <<running, runtimeVars, plan, undone>>

\* The runtime files were edited, readiness is not reached, Git finds its lock.
CheckFails(u) ==
  /\ \/ /\ pc[u] \in {"compare", "verify"} /\ way[u] = "forward"
        /\ runtime # plan[u].baseline
     \/ pc[u] = "health" /\ ~running
     \/ pc[u] = "checkout" /\ dirty
  /\ Failed(u)
  /\ UNCHANGED <<diskVars, dockerVars, runtimeVars, plan, undone, faults>>

\* The updater is killed; the kernel releases its lock.
Kill(u) ==
  /\ pc[u] # "idle" /\ Fault
  /\ Unfinished({u})
  /\ Exit(u)
  /\ UNCHANGED <<running, runtimeVars, way, plan, historyVars>>

HostCrash ==
  /\ Fault
  /\ running' = FALSE
  /\ Unfinished(Updaters)
  /\ pc' = [u \in Updaters |-> "idle"] /\ lock' = NoUpdater
  /\ UNCHANGED <<runtimeVars, way, plan, historyVars>>

----------------------------------------------------------------------------
(* systemd and the operator. *)

\* ExecStart after a boot, or tgctl up at any time.
ServiceUp ==
  /\ deployed' \in Recreated /\ running' = TRUE
  /\ UNCHANGED <<diskVars, runtimeVars, updaterVars, historyVars, faults>>

\* tgctl down.
ServiceDown ==
  /\ running /\ Fault
  /\ running' = FALSE
  /\ UNCHANGED <<diskVars, deployed, runtimeVars, updaterVars, historyVars>>

\* Asked to save the changes in the checkout, the operator cleans it.
CleanCheckout ==
  /\ dirty
  /\ dirty' = FALSE
  /\ UNCHANGED <<head, pins, journal, dockerVars, runtimeVars, updaterVars, historyVars, faults>>

\* An editor or tgctl changes the runtime files, or puts them back.
EditRuntime ==
  /\ Fault
  /\ runtime' \in Contents \ {runtime}
  /\ putBack' = (putBack \/ \E u \in Updaters : pc[u] # "idle" /\ runtime' = plan[u].baseline)
  /\ UNCHANGED <<diskVars, dockerVars, copied, updaterVars, historyVars>>

----------------------------------------------------------------------------
Progress(u) ==
  \/ CopyRuntime(u) \/ Prepared(u) \/ OpenJournal(u)
  \/ StopService(u) \/ Checkout(u) \/ PinImages(u)
  \/ StartRelease(u) \/ Healthy(u) \/ Verify(u) \/ CloseJournal(u) \/ CheckFails(u)

Next ==
  \/ \E u \in Updaters :
       \/ BeginUpdate(u) \/ BeginRecovery(u) \/ Progress(u)
       \/ OpenJournalThenFail(u) \/ CloseJournalThenFail(u)
       \/ CommandFails(u) \/ Kill(u)
  \/ HostCrash \/ ServiceUp \/ ServiceDown \/ CleanCheckout \/ EditRuntime

Spec == Init /\ [][Next]_vars

(* Every command of an updater has a timeout.  Recovery is explicit: someone *)
(* runs it while the journal asks for it, and cleans the checkout when told.  *)
FairSpec ==
  /\ Spec
  /\ \A u \in Updaters : WF_vars(Progress(u))
  /\ WF_vars(\E u \in Updaters : BeginRecovery(u)) /\ WF_vars(CleanCheckout)

----------------------------------------------------------------------------
(* Correctness. *)

TypeOK ==
  /\ head \in Releases /\ dirty \in BOOLEAN /\ pins \in Images \cup {NoPins}
  /\ journal \in [phase : Phases, plan : Plan]
  /\ deployed \in Deployment /\ running \in BOOLEAN
  /\ runtime \in Contents /\ copied \in Contents /\ putBack \in BOOLEAN
  /\ lock \in Updaters \cup {NoUpdater}
  /\ pc \in [Updaters -> Commands \cup {"idle", "prepare", "compare", "journal"}]
  /\ way \in [Updaters -> Ways]
  /\ plan \in [Updaters -> Plan]
  /\ advice \in BOOLEAN /\ undone \in BOOLEAN /\ faults \in 0 .. MaxFaults

\* The checkout, the pins and the containers are of one release.
Whole ==
  /\ deployed.code = head /\ deployed.images = head
  /\ pins \in {head, NoPins}

\* Outside an interrupted update (and the undoing of a completed one) the
\* checkout, the pinned images and the containers belong to one release, through
\* crashes, boots in the middle of a switch and commands of the operator.
SettledIsWhole == ~Interrupted /\ ~undone => Whole

\* A journal that says rolled_back is true: the previous commit and the images
\* retained for it are installed, after however many failed attempts.
RolledBackIsPrevious ==
  journal.phase = "rolled_back" =>
    /\ head = journal.plan.previous /\ pins = journal.plan.images
    /\ deployed.code = head /\ deployed.images = pins

\* An update passes its last check only with containers of the target, created
\* from the runtime files the candidate was validated with: whatever was edited,
\* and however often, is noticed before the journal or after the switch.  Only
\* files put back as the update had found them hide it from both comparisons.
PassedAsValidated ==
  [][\A u \in Updaters :
       way[u] = "forward" /\ pc[u] = "verify" /\ pc'[u] = "close" =>
         /\ deployed.code = plan[u].target /\ deployed.images = plan[u].target
         /\ ~putBack => deployed.runtime = copied]_vars

\* The updater changes the checkout or the pins only while the journal on disk
\* tells how to go back (or to undo what that journal had completed).
ChangesAreJournalled ==
  [][head' # head \/ pins' # pins =>
       \E u \in Updaters :
         /\ lock = u /\ journal.plan = plan[u]
         /\ Interrupted \/ undone]_vars

\* The installation as Installation.tla promises it.
Promise ==
  INSTANCE Installation WITH
    release <- IF Interrupted THEN journal.plan.previous ELSE head,
    before <- journal.plan.previous,
    replacing <- Interrupted

InstallationPromise == Promise!Spec

\* An interrupted update is resolved when --recover is tried again and again and
\* the checkout is cleaned when it asks for that.
InterruptionIsResolved == Interrupted ~> ~Interrupted

\* scripts/tg_update.py:341-342, "automatic recovery failed; run update --recover":
\* an operator who is told so finds a journal that --recover accepts.
AdviceIsUsable == advice => Interrupted

=============================================================================

--------------------------- MODULE LabDeployment ---------------------------
(***************************************************************************)
(* The lab's gateway host: secret-transfer.py delivers runtime files,      *)
(* deploy.py installs a commit with them, install-service.py pins the      *)
(* commit for systemd, and service.py starts the pinned release and        *)
(* supervises its containers.  All of it is run by operators, or by        *)
(* systemd, on one host, at any time.  Delivery, deployment and the start  *)
(* of the service take deployment.lock, without waiting for it; installing *)
(* the service and stopping the containers do not.                         *)
(*                                                                         *)
(* A file is known by the delivered set its content is from.  Compose      *)
(* files, the fixture, the addresses of the host and the image cache are   *)
(* behind the choices of the steps that use them.                          *)
(***************************************************************************)
EXTENDS Naturals, Sequences

CONSTANTS
  Operators,   \* invocations of the three tools
  Commits,     \* commits, and the images built from them
  Sets,        \* runtime sets operators may deliver
  FileOrder,   \* FILES, and the optional CA last
  Provides,    \* the files of each set
  Consistent,  \* the contents of the files that validate accepts
  Absent,      \* no file, no commit, nothing
  Torn,        \* an interrupted compose up: services of different releases
  Down,        \* not all services run
  NoOne,       \* nobody has the flock
  Service,     \* service.py has it
  StartLimit,  \* StartLimitBurst
  MaxJobs      \* bound on invocations

Files == {FileOrder[i] : i \in 1 .. Len(FileOrder)}
Content == [Files -> Sets \cup {Absent}]

ASSUME LabAssumption ==
  /\ FileOrder \in Seq(Files) /\ FileOrder # <<>>
  /\ Provides \in [Sets -> SUBSET Files]
  /\ Consistent \subseteq Content
  /\ Absent \notin Commits \cup Sets
  /\ Torn \notin Commits /\ Down \notin Commits /\ Torn # Down
  /\ NoOne \notin Operators /\ Service \notin Operators /\ NoOne # Service
  /\ StartLimit \in Nat \ {0} /\ MaxJobs \in Nat

VARIABLES
  canonical,  \* /etc/transparent-gateway/runtime
  target,     \* the runtime files in the checkout, which the containers mount
  head,       \* the commit checked out in /opt/transparent-gateway
  clean,      \* no git checkout was cut short
  images,     \* the commit the application images were built from last
  running,    \* the commit all six services run, or Torn, or Down
  record,     \* the commit in deployment.json
  pin,        \* the commit in service.json
  enabled,    \* systemd starts the unit at boot
  lock,       \* the holder of deployment.lock
  pc,         \* what each operator's tool is about to do
  job,        \* its locals
  unit,       \* what systemd and service.py are about to do
  loaded,     \* the pin service.py serve has read
  starts,     \* starts of the unit within StartLimitIntervalSec
  jobs,       \* invocations so far
  delivered,  \* history: the set whose delivery passed last
  cut         \* history: a delivery was cut short, and none has passed since

fileVars == <<canonical, target>>
releaseVars == <<head, clean, images>>
recordVars == <<record, pin, enabled>>
operatorVars == <<pc, job, jobs>>
unitVars == <<unit, loaded, starts>>
deliveryVars == <<delivered, cut>>
vars == <<fileVars, releaseVars, running, recordVars, lock, operatorVars, unitVars,
          deliveryVars>>

Whole(set) == [f \in Files |-> IF f \in Provides[set] THEN set ELSE Absent]
Nothing == [f \in Files |-> Absent]

\* validated is history: what the tool validated.
NoJob == [commit |-> Absent, set |-> Absent, at |-> 1, changed |-> FALSE,
          validated |-> Nothing]

\* The unit has a process of service.py.
Running == {"check", "lock", "up", "ready", "active"}

Preflight(commit) == head = commit /\ clean /\ target \in Consistent

----------------------------------------------------------------------------
Init ==
  /\ canonical = Nothing /\ target = Nothing
  /\ head = Absent /\ clean = TRUE /\ images = Absent /\ running = Down
  /\ record = Absent /\ pin = Absent /\ enabled = FALSE
  /\ lock = NoOne
  /\ pc = [o \in Operators |-> "idle"] /\ job = [o \in Operators |-> NoJob] /\ jobs = 0
  /\ unit = "off" /\ loaded = Absent /\ starts = 0
  /\ delivered = Absent /\ cut = FALSE

----------------------------------------------------------------------------
(* Control. *)

\* Operator o begins: every tool is one process.
Invoke(o, first, locals) ==
  /\ pc[o] = "idle" /\ jobs < MaxJobs
  /\ pc' = [pc EXCEPT ![o] = first]
  /\ job' = [job EXCEPT ![o] = locals]
  /\ jobs' = jobs + 1

Goto(o, next) ==
  /\ pc' = [pc EXCEPT ![o] = next]
  /\ UNCHANGED <<job, jobs>>

\* The process ends, and the kernel frees what it locked.
Quit(o) ==
  /\ pc' = [pc EXCEPT ![o] = "idle"]
  /\ job' = [job EXCEPT ![o] = NoJob]
  /\ lock' = IF lock = o THEN NoOne ELSE lock
  /\ UNCHANGED jobs

\* Mutant: one file too many.
NextFileBeyond(o, next) ==
  LET at == job[o].at IN
  IF at <= Len(FileOrder)
  THEN job' = [job EXCEPT ![o].at = at + 1] /\ UNCHANGED <<pc, jobs, lock>>
  ELSE IF next = "idle" THEN Quit(o) ELSE Goto(o, next) /\ UNCHANGED lock

\* Both copy loops: after the last file comes next.
NextFile(o, next) ==
  LET at == job[o].at IN
  IF at < Len(FileOrder)
  THEN job' = [job EXCEPT ![o].at = at + 1] /\ UNCHANGED <<pc, jobs, lock>>
  ELSE IF next = "idle" THEN Quit(o) ELSE Goto(o, next) /\ UNCHANGED lock

\* LOCK_EX | LOCK_NB: a tool that finds the lock taken fails at once.
TakeLock(holder) == lock = NoOne /\ lock' = holder

----------------------------------------------------------------------------
(* secret-transfer.py receive, and enable-public-upstream.py. *)

\* Mutant: the lock is not taken.
DeliverUnlocked(o, set) ==
  /\ Whole(set) \in Consistent
  /\ Invoke(o, "replace", [NoJob EXCEPT !.set = set])
  /\ UNCHANGED <<lock, fileVars, releaseVars, running, recordVars, unitVars, deliveryVars>>

\* The set is staged and validated under the lock, before any file is replaced.
Deliver(o, set) ==
  /\ TakeLock(o) /\ Whole(set) \in Consistent
  /\ Invoke(o, "replace", [NoJob EXCEPT !.set = set])
  /\ UNCHANGED <<fileVars, releaseVars, running, recordVars, unitVars, deliveryVars>>

\* A file the set does not have stays.
ReplaceFile(o) ==
  LET f == FileOrder[job[o].at] IN
  /\ pc[o] = "replace"
  /\ canonical' = IF f \in Provides[job[o].set]
                  THEN [canonical EXCEPT ![f] = job[o].set] ELSE canonical
  /\ NextFile(o, "idle")
  /\ IF pc'[o] = "idle" THEN delivered' = job[o].set /\ cut' = FALSE
     ELSE UNCHANGED deliveryVars
  /\ UNCHANGED <<target, releaseVars, running, recordVars, unitVars>>

----------------------------------------------------------------------------
(* deploy.py *)

Deploy(o, commit) ==
  /\ TakeLock(o)
  /\ Invoke(o, "validate", [NoJob EXCEPT !.commit = commit])
  /\ UNCHANGED <<fileVars, releaseVars, running, recordVars, unitVars, deliveryVars>>

Validate(o) ==
  /\ pc[o] = "validate" /\ canonical \in Consistent
  /\ pc' = [pc EXCEPT ![o] = "checkout"]
  /\ job' = [job EXCEPT ![o].validated = canonical]
  /\ UNCHANGED <<fileVars, releaseVars, running, recordVars, lock, jobs, unitVars, deliveryVars>>

Checkout(o) ==
  /\ pc[o] = "checkout" /\ clean
  /\ head' = job[o].commit
  /\ Goto(o, "copy")
  /\ UNCHANGED <<fileVars, clean, images, running, recordVars, lock, unitVars, deliveryVars>>

\* A CA that is no longer in the canonical directory stays in the checkout.
CopyFile(o) ==
  LET f == FileOrder[job[o].at] IN
  /\ pc[o] = "copy"
  /\ target' = IF canonical[f] = Absent THEN target
               ELSE [target EXCEPT ![f] = canonical[f]]
  /\ NextFile(o, "build")
  /\ UNCHANGED <<canonical, releaseVars, running, recordVars, unitVars, deliveryVars>>

\* Mutant: compose up without the build.
BuildSkipped(o) ==
  /\ pc[o] = "build"
  /\ Goto(o, "up")
  /\ UNCHANGED <<fileVars, releaseVars, running, recordVars, lock, unitVars, deliveryVars>>

Build(o) ==
  /\ pc[o] = "build"
  /\ images' = job[o].commit
  /\ Goto(o, "up")
  /\ UNCHANGED <<fileVars, head, clean, running, recordVars, lock, unitVars, deliveryVars>>

\* compose up --wait creates anew every service whose image changed.
Up(o) ==
  /\ pc[o] = "up" /\ images # Absent
  /\ running' = images
  /\ Goto(o, "ready")
  /\ UNCHANGED <<fileVars, releaseVars, recordVars, lock, unitVars, deliveryVars>>

ReadyToRecord(o) ==
  /\ pc[o] = "ready" /\ running \in Commits
  /\ Goto(o, "record")
  /\ UNCHANGED <<fileVars, releaseVars, running, recordVars, lock, unitVars, deliveryVars>>

Record(o) ==
  /\ pc[o] = "record"
  /\ record' = job[o].commit
  /\ Quit(o)
  /\ UNCHANGED <<fileVars, releaseVars, running, pin, enabled, unitVars, deliveryVars>>

----------------------------------------------------------------------------
(* install-service.py, which takes no lock. *)

Install(o, commit) ==
  /\ head = commit /\ record = commit
  /\ Invoke(o, "pin", [NoJob EXCEPT !.commit = commit])
  /\ UNCHANGED <<fileVars, releaseVars, running, recordVars, lock, unitVars, deliveryVars>>

WritePin(o) ==
  /\ pc[o] = "pin"
  /\ pin' = job[o].commit
  /\ pc' = [pc EXCEPT ![o] = "enable"]
  /\ job' = [job EXCEPT ![o].changed = pin # job[o].commit]
  /\ UNCHANGED <<fileVars, releaseVars, running, record, enabled, lock, jobs, unitVars,
                 deliveryVars>>

\* service.py check, then systemctl enable.
Enable(o) ==
  /\ pc[o] = "enable" /\ Preflight(pin)
  /\ enabled' = TRUE
  /\ Goto(o, "restart")
  /\ UNCHANGED <<fileVars, releaseVars, running, record, pin, lock, unitVars, deliveryVars>>

\* systemd refuses a start beyond the limit.
Start ==
  IF starts < StartLimit THEN unit' = "check" /\ starts' = starts + 1
                         ELSE unit' = "failed" /\ UNCHANGED starts

\* systemctl restart when the pin is new, else systemctl start.
RestartUnit(o) ==
  /\ pc[o] = "restart"
  /\ pc' = [pc EXCEPT ![o] = "idle"] /\ job' = [job EXCEPT ![o] = NoJob]
  /\ CASE unit \in {"off", "wait", "failed"} -> Start /\ UNCHANGED lock
       [] unit \in Running /\ job[o].changed ->
            /\ unit' = "restop" /\ lock' = IF lock = Service THEN NoOne ELSE lock
            /\ UNCHANGED starts
       [] OTHER -> UNCHANGED <<unit, starts, lock>>
  /\ running' \in IF unit' = "restop" /\ unit = "up" THEN {running, Torn, Down} ELSE {running}
  /\ UNCHANGED <<fileVars, releaseVars, recordVars, jobs, loaded, deliveryVars>>

----------------------------------------------------------------------------
(* service.py under systemd. *)

\* ExecStartPre, without the lock; then serve starts and reads its settings.
Check ==
  /\ unit = "check" /\ Preflight(pin)
  /\ unit' = "lock" /\ loaded' = pin
  /\ UNCHANGED <<fileVars, releaseVars, running, recordVars, lock, operatorVars, starts,
                 deliveryVars>>

\* Mutant: what ExecStartPre has found is not looked at again under the lock.
ServeUnchecked ==
  /\ unit = "lock" /\ TakeLock(Service)
  /\ unit' = "up"
  /\ UNCHANGED <<fileVars, releaseVars, running, recordVars, operatorVars, loaded, starts,
                 deliveryVars>>

ServeLock ==
  /\ unit = "lock" /\ TakeLock(Service) /\ Preflight(loaded)
  /\ unit' = "up"
  /\ UNCHANGED <<fileVars, releaseVars, running, recordVars, operatorVars, loaded, starts,
                 deliveryVars>>

\* compose up --no-build --pull never: the images that are there.
ServeUp ==
  /\ unit = "up" /\ images # Absent
  /\ running' = images
  /\ unit' = "ready"
  /\ UNCHANGED <<fileVars, releaseVars, recordVars, lock, operatorVars, loaded, starts,
                 deliveryVars>>

\* Mutant: the lock is held until the service ends.
NotifyLocked ==
  /\ unit = "ready" /\ running \in Commits
  /\ unit' = "active"
  /\ UNCHANGED <<fileVars, releaseVars, running, recordVars, lock, operatorVars, loaded,
                 starts, deliveryVars>>

\* Local readiness and six containers, then READY=1.
Notify ==
  /\ unit = "ready" /\ running \in Commits
  /\ unit' = "active" /\ lock' = NoOne
  /\ UNCHANGED <<fileVars, releaseVars, running, recordVars, operatorVars, loaded, starts,
                 deliveryVars>>

\* Every 15 seconds, unless the lock is taken: a container is missing or stopped.
Supervise ==
  /\ unit = "active" /\ lock = NoOne /\ running \in {Torn, Down}
  /\ unit' = "stop"
  /\ UNCHANGED <<fileVars, releaseVars, running, recordVars, lock, operatorVars, loaded,
                 starts, deliveryVars>>

\* A check, a command or the process fails, or the lock is taken.
ServiceFails ==
  /\ unit \in Running
  /\ unit' = "stop" /\ lock' = IF lock = Service THEN NoOne ELSE lock
  /\ running' \in IF unit = "up" THEN {running, Torn, Down} ELSE {running}
  /\ UNCHANGED <<fileVars, releaseVars, recordVars, operatorVars, loaded, starts, deliveryVars>>

\* ExecStopPost, without the lock; docker stop may fail.
Stop ==
  /\ unit \in {"stop", "restop"}
  /\ running' \in {running, Down}
  /\ IF unit = "restop" THEN Start ELSE unit' = "wait" /\ UNCHANGED starts
  /\ UNCHANGED <<fileVars, releaseVars, recordVars, lock, operatorVars, loaded, deliveryVars>>

\* Restart=on-failure, after RestartSec.
AutoRestart ==
  /\ unit = "wait" /\ Start
  /\ UNCHANGED <<fileVars, releaseVars, running, recordVars, lock, operatorVars, loaded,
                 deliveryVars>>

----------------------------------------------------------------------------
(* Failures. *)

\* A tool's command or check fails, or the tool is killed.
ToolFails(o) ==
  /\ pc[o] # "idle" /\ Quit(o)
  /\ clean' \in IF pc[o] = "checkout" THEN {clean, FALSE} ELSE {clean}
  /\ images' \in IF pc[o] = "build" THEN {images, job[o].commit} ELSE {images}
  /\ running' \in IF pc[o] = "up" THEN {running, Torn, Down} ELSE {running}
  /\ cut' = (cut \/ pc[o] = "replace")
  /\ UNCHANGED <<fileVars, head, recordVars, unitVars, delivered>>

\* Compose does not restart a container that dies.
ContainerDies ==
  /\ running # Down /\ running' = Down
  /\ UNCHANGED <<fileVars, releaseVars, recordVars, lock, operatorVars, unitVars, deliveryVars>>

\* The host stops; when it is back, systemd starts the unit.
HostCrash ==
  /\ pc' = [o \in Operators |-> "idle"] /\ job' = [o \in Operators |-> NoJob]
  /\ lock' = NoOne /\ running' = Down
  /\ clean' \in IF \E o \in Operators : pc[o] = "checkout" THEN {clean, FALSE} ELSE {clean}
  /\ images' \in {images} \cup {job[o].commit : o \in {x \in Operators : pc[x] = "build"}}
  /\ cut' = (cut \/ \E o \in Operators : pc[o] = "replace")
  /\ IF enabled THEN unit' = "check" /\ starts' = 1 ELSE unit' = "off" /\ starts' = 0
  /\ UNCHANGED <<fileVars, head, recordVars, jobs, loaded, delivered>>

\* StartLimitIntervalSec goes by.
WindowPasses ==
  /\ starts # 0 /\ starts' = 0
  /\ UNCHANGED <<fileVars, releaseVars, running, recordVars, lock, operatorVars, unit, loaded,
                 deliveryVars>>

\* The operator cleans a checkout that was cut short.
CleanCheckout ==
  /\ ~clean /\ clean' = TRUE
  /\ UNCHANGED <<fileVars, head, images, running, recordVars, lock, operatorVars, unitVars,
                 deliveryVars>>

----------------------------------------------------------------------------
ToolStep(o) ==
  \/ ReplaceFile(o)
  \/ Validate(o) \/ Checkout(o) \/ CopyFile(o) \/ Build(o) \/ Up(o)
  \/ ReadyToRecord(o) \/ Record(o)
  \/ WritePin(o) \/ Enable(o) \/ RestartUnit(o)
  \/ ToolFails(o)

StartStep == Check \/ ServeLock \/ ServeUp \/ Notify \/ ServiceFails

Next ==
  \/ \E o \in Operators :
       \/ \E set \in Sets : Deliver(o, set)
       \/ \E commit \in Commits : Deploy(o, commit) \/ Install(o, commit)
       \/ ToolStep(o)
  \/ StartStep \/ Supervise \/ Stop \/ AutoRestart
  \/ ContainerDies \/ HostCrash \/ WindowPasses \/ CleanCheckout

\* Every command has a timeout, systemd's start and stop have one, and the
\* supervisor comes back every 15 seconds.
Fairness ==
  /\ \A o \in Operators : WF_vars(ToolStep(o))
  /\ WF_vars(unit # "active" /\ StartStep) /\ WF_vars(Stop) /\ SF_vars(Supervise)

Spec == Init /\ [][Next]_vars

FairSpec == Spec /\ Fairness

----------------------------------------------------------------------------
(* Correctness. *)

Stages == {"idle", "replace", "validate", "checkout", "copy", "build", "up", "ready",
           "record", "pin", "enable", "restart"}

TypeOK ==
  /\ canonical \in Content /\ target \in Content
  /\ head \in Commits \cup {Absent} /\ clean \in BOOLEAN
  /\ images \in Commits \cup {Absent} /\ running \in Commits \cup {Torn, Down}
  /\ record \in Commits \cup {Absent} /\ pin \in Commits \cup {Absent}
  /\ enabled \in BOOLEAN
  /\ lock \in Operators \cup {NoOne, Service}
  /\ pc \in [Operators -> Stages] /\ jobs \in 0 .. MaxJobs
  /\ job \in [Operators -> [commit : Commits \cup {Absent}, set : Sets \cup {Absent},
                            at : 1 .. Len(FileOrder), changed : BOOLEAN, validated : Content]]
  /\ unit \in Running \cup {"off", "stop", "restop", "wait", "failed"}
  /\ loaded \in Commits \cup {Absent} /\ starts \in 0 .. StartLimit
  /\ delivered \in Sets \cup {Absent} /\ cut \in BOOLEAN

\* When no delivery is going on and none was cut short since, the canonical files
\* are those of the last one that passed (deploy/README.md:111-115).
DeliveredIsCanonical ==
  delivered # Absent /\ ~cut /\ (\A o \in Operators : pc[o] # "replace") =>
    \A f \in Provides[delivered] : canonical[f] = delivered

Recording(o) == pc[o] = "record" /\ pc'[o] = "idle" /\ record' = job[o].commit

\* A deployment that is recorded installed the very files it validated, whatever
\* was delivered meanwhile (the comment at deploy/secret-transfer.py:61).
InstalledIsValidated ==
  [][\A o \in Operators : Recording(o) =>
       \A f \in Files : job[o].validated[f] # Absent => target[f] = job[o].validated[f]]_vars

\* A deployment that is recorded left its own release in the checkout and in the
\* images, and no service runs another one, although the unit is stopped and
\* started without regard to deployments.
RecordedIsInstalled ==
  [][\A o \in Operators : Recording(o) =>
       head = record' /\ images = record' /\ running \in {record', Down}]_vars

Notifying == unit = "ready" /\ unit' = "active"

\* When the service reports READY, the checkout is the pinned one, its files were
\* validated as they are, and all services run, however the tools interleave.
ReadyIsPinned ==
  [][Notifying => head = loaded /\ clean /\ target \in Consistent /\ running = images]_vars

\* No tool and no service keeps the deployment lock for ever.
LockComesFree == []<>(lock = NoOne)

=============================================================================

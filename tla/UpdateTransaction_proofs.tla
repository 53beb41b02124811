---------------------- MODULE UpdateTransaction_proofs ----------------------
(***************************************************************************)
(* Theorems about UpdateTransaction: for any number of updaters, releases, *)
(* faults and edits, and with every interleaving of systemd's starts.      *)
(***************************************************************************)
EXTENDS UpdateTransaction, TLAPS

\* The commands that are due once the checkout, the pins, the containers are
\* those of the goal.
AfterUp == {"start", "health", "verify", "close"}
AfterPin == {"up"} \cup AfterUp
AfterCheckout == {"pin"} \cup AfterPin

\* Whoever works has the lock.
LockIsHeld == \A u \in Updaters : pc[u] # "idle" => lock = u

\* Before the journal nothing has been touched.
NothingTouched ==
  \A u \in Updaters : pc[u] \in {"prepare", "compare", "journal"} =>
    way[u] = "forward" /\ ~Interrupted /\ plan[u].previous = head

\* Whatever switches releases does it by the journal on disk, which is open,
\* unless a completed update is being rolled back.
WorksByJournal ==
  \A u \in Updaters : pc[u] \in Commands =>
    /\ journal.plan = plan[u]
    /\ Interrupted \/ (undone /\ journal.phase = "complete" /\ way[u] = "rollback")

\* What a command has established still stands when the later ones run.
Steered ==
  \A u \in Updaters :
    /\ pc[u] \in AfterCheckout => head = GoalCode(u) /\ ~dirty
    /\ pc[u] \in AfterPin => pins = GoalImages(u)
    /\ pc[u] \in AfterUp => deployed.code = head /\ deployed.images = pins

\* Unless a completed update is being undone, the images to go back to are
\* those of the commit to go back to.
Retained ==
  /\ Interrupted /\ ~undone => journal.plan.images = journal.plan.previous
  /\ \A u \in Updaters : pc[u] # "idle" =>
       /\ ~undone => plan[u].images = plan[u].previous
       /\ way[u] = "forward" => plan[u].target # plan[u].previous

\* Unless they were put back, runtime files that are as an update found them
\* have never been otherwise since: the candidate was given them, and so were the
\* containers.
EditsShow ==
  \A u \in Updaters :
    way[u] = "forward" /\ ~putBack /\ runtime = plan[u].baseline =>
      /\ pc[u] \in {"compare", "journal"} \cup Commands => copied = runtime
      /\ pc[u] \in AfterUp => deployed.runtime = runtime

\* SettledIsWhole and RolledBackIsPrevious, in a checkout that is not half done.
Settled ==
  /\ ~Interrupted /\ ~undone => Whole /\ ~dirty
  /\ journal.phase = "rolled_back" => ~dirty

IndInv ==
  /\ TypeOK /\ LockIsHeld /\ NothingTouched /\ WorksByJournal /\ Steered
  /\ Retained /\ EditsShow /\ Settled /\ RolledBackIsPrevious

USE UpdateAssumption
    DEF diskVars, dockerVars, runtimeVars, updaterVars, historyVars, Images, Commands, Ways, Phases,
        Plan, Deployment, Interrupted, Fault, Goto, Advance, Exit, Failed, Begin, Opened,
        Closed, GoalCode, GoalImages, Whole, NewPlan, PreparedFor, Verified, Unfinished,
        Recreated, AfterUp, AfterPin, AfterCheckout
----------------------------------------------------------------------------
\* An installation begins whole, with no journal and nobody at work.
LEMMA InitInv == Init => IndInv
<1> SUFFICES ASSUME Init PROVE IndInv
  OBVIOUS
<1>1. PICK r \in Releases, f \in Contents :
        LET p == [previous |-> r, images |-> r, target |-> r, baseline |-> f]
        IN  /\ head = r
            /\ journal = [phase |-> "none", plan |-> p]
            /\ deployed = [code |-> r, images |-> r, runtime |-> f]
            /\ runtime = f /\ copied = f
            /\ plan = [u \in Updaters |-> p]
  BY DEF Init
<1>2. journal \in [phase : Phases, plan : Plan] /\ deployed \in Deployment
  BY <1>1
<1>3. plan \in [Updaters -> Plan]
  BY <1>1
<1>4. /\ pc \in [Updaters -> Commands \cup {"idle", "prepare", "compare", "journal"}]
      /\ way \in [Updaters -> Ways]
  BY DEF Init
<1>5. runtime \in Contents /\ copied \in Contents /\ faults \in 0 .. MaxFaults
  BY <1>1 DEF Init
<1>6. TypeOK
  BY <1>1, <1>2, <1>3, <1>4, <1>5 DEF Init, TypeOK
<1> QED
  BY <1>1, <1>6 DEF Init, IndInv, LockIsHeld, NothingTouched, WorksByJournal, Steered, Retained,
     EditsShow, Settled, RolledBackIsPrevious

\* A new update has the checkout it found as the release to go back to, and the
\* images too, since what is installed is whole.
LEMMA BeginUpdateStep ==
  ASSUME IndInv, NEW u \in Updaters, BeginUpdate(u)
  PROVE  IndInv'
<1> USE DEF IndInv, BeginUpdate
<1>1. TypeOK'
  <2>1. PICK target \in Releases \ {head} :
          Begin(u, "forward", "prepare", NewPlan(target, deployed.images))
    OBVIOUS
  <2>2. NewPlan(target, deployed.images) \in Plan
    BY DEF TypeOK
  <2> QED
    BY <2>1, <2>2 DEF TypeOK
<1>2. NothingTouched'
  BY DEF TypeOK, NothingTouched
<1>3. Retained'
  BY DEF TypeOK, Retained, Settled
<1>4. EditsShow'
  BY DEF TypeOK, LockIsHeld, EditsShow
<1>5. LockIsHeld' /\ WorksByJournal' /\ Steered' /\ Settled' /\ RolledBackIsPrevious'
  BY DEF LockIsHeld, WorksByJournal, Steered, Settled, RolledBackIsPrevious
<1> QED
  BY <1>1, <1>2, <1>3, <1>4, <1>5

\* A recovery works by the journal it found, which stayed open.
LEMMA BeginRecoveryStep ==
  ASSUME IndInv, NEW u \in Updaters, BeginRecovery(u)
  PROVE  IndInv'
<1> USE DEF IndInv, BeginRecovery
<1>1. TypeOK'
  BY DEF TypeOK
<1>2. WorksByJournal'
  BY DEF TypeOK, WorksByJournal
<1>3. Retained'
  BY DEF TypeOK, Retained
<1>4. EditsShow'
  BY DEF TypeOK, LockIsHeld, EditsShow
<1>5. LockIsHeld' /\ NothingTouched' /\ Steered' /\ Settled' /\ RolledBackIsPrevious'
  BY DEF LockIsHeld, NothingTouched, Steered, Settled, RolledBackIsPrevious
<1> QED
  BY <1>1, <1>2, <1>3, <1>4, <1>5

\* The candidate is given the runtime files as they are.
LEMMA CopyRuntimeStep ==
  ASSUME IndInv, NEW u \in Updaters, CopyRuntime(u)
  PROVE  IndInv'
<1> USE DEF IndInv, CopyRuntime
<1>1. TypeOK'
  BY DEF TypeOK
<1>2. EditsShow'
  BY DEF TypeOK, LockIsHeld, EditsShow
<1>3. LockIsHeld' /\ NothingTouched' /\ WorksByJournal' /\ Steered' /\ Retained' /\
      Settled' /\ RolledBackIsPrevious'
  BY DEF LockIsHeld, NothingTouched, WorksByJournal, Steered, Retained, Settled,
     RolledBackIsPrevious
<1> QED
  BY <1>1, <1>2, <1>3

\* The candidate is built beside the installation.
LEMMA PreparedStep ==
  ASSUME IndInv, NEW u \in Updaters, Prepared(u)
  PROVE  IndInv'
<1> USE DEF IndInv, Prepared
<1>1. TypeOK'
  BY DEF TypeOK
<1>2. LockIsHeld' /\ NothingTouched' /\ WorksByJournal' /\ Steered' /\ Retained' /\ EditsShow' /\
      Settled' /\ RolledBackIsPrevious'
  BY DEF LockIsHeld, NothingTouched, WorksByJournal, Steered, Retained, EditsShow, Settled,
     RolledBackIsPrevious
<1> QED
  BY <1>1, <1>2

\* The journal takes the plan while nothing has been touched.
LEMMA OpenJournalStep ==
  ASSUME IndInv, NEW u \in Updaters, OpenJournal(u)
  PROVE  IndInv'
<1> USE DEF IndInv, OpenJournal
<1>1. TypeOK'
  BY DEF TypeOK
<1>2. NothingTouched'
  BY DEF TypeOK, NothingTouched, LockIsHeld
<1>3. WorksByJournal'
  BY DEF WorksByJournal, LockIsHeld
<1>4. LockIsHeld' /\ Steered' /\ Retained' /\ EditsShow' /\ Settled' /\ RolledBackIsPrevious'
  BY DEF LockIsHeld, Steered, Retained, EditsShow, Settled, RolledBackIsPrevious
<1> QED
  BY <1>1, <1>2, <1>3, <1>4

\* Nothing the later commands rely on is established yet.
LEMMA StopServiceStep ==
  ASSUME IndInv, NEW u \in Updaters, StopService(u)
  PROVE  IndInv'
<1> USE DEF IndInv, StopService
<1>1. TypeOK'
  BY DEF TypeOK
<1>2. LockIsHeld' /\ NothingTouched' /\ WorksByJournal' /\ Steered' /\ Retained' /\ EditsShow' /\
      Settled' /\ RolledBackIsPrevious'
  BY DEF LockIsHeld, NothingTouched, WorksByJournal, Steered, Retained, EditsShow, Settled,
     RolledBackIsPrevious
<1> QED
  BY <1>1, <1>2

\* Only the holder of the lock, with the journal open, changes the checkout.
LEMMA CheckoutStep ==
  ASSUME IndInv, NEW u \in Updaters, Checkout(u)
  PROVE  IndInv'
<1> USE DEF IndInv, Checkout
<1>1. TypeOK'
  BY DEF TypeOK
<1>2. NothingTouched'
  BY DEF NothingTouched, LockIsHeld
<1>3. Steered'
  BY DEF Steered, LockIsHeld
<1>4. Settled'
  BY DEF Settled, WorksByJournal
<1>5. RolledBackIsPrevious'
  BY DEF RolledBackIsPrevious, WorksByJournal
<1>6. LockIsHeld' /\ WorksByJournal' /\ Retained' /\ EditsShow'
  BY DEF LockIsHeld, WorksByJournal, Retained, EditsShow
<1> QED
  BY <1>1, <1>2, <1>3, <1>4, <1>5, <1>6

\* Only the holder of the lock, with the journal open, changes the pins.
LEMMA PinImagesStep ==
  ASSUME IndInv, NEW u \in Updaters, PinImages(u)
  PROVE  IndInv'
<1> USE DEF IndInv, PinImages
<1>1. TypeOK'
  BY DEF TypeOK
<1>2. Steered'
  BY DEF Steered, LockIsHeld
<1>3. Settled'
  BY DEF Settled, WorksByJournal
<1>4. RolledBackIsPrevious'
  BY DEF RolledBackIsPrevious, WorksByJournal
<1>5. LockIsHeld' /\ NothingTouched' /\ WorksByJournal' /\ Retained' /\ EditsShow'
  BY DEF LockIsHeld, NothingTouched, WorksByJournal, Retained, EditsShow
<1> QED
  BY <1>1, <1>2, <1>3, <1>4, <1>5

\* The containers are created from the checkout and the pins the commands before
\* have set, and from the runtime files as they are.
LEMMA StartReleaseStep ==
  ASSUME IndInv, NEW u \in Updaters, StartRelease(u)
  PROVE  IndInv'
<1> USE DEF IndInv, StartRelease
<1>1. TypeOK'
  BY DEF TypeOK
<1>2. Steered'
  BY DEF TypeOK, Steered, EditsShow
<1>3. EditsShow'
  BY DEF TypeOK, EditsShow
<1>4. RolledBackIsPrevious'
  BY DEF RolledBackIsPrevious, WorksByJournal
<1>5. LockIsHeld' /\ NothingTouched' /\ WorksByJournal' /\ Retained' /\ Settled'
  BY DEF LockIsHeld, NothingTouched, WorksByJournal, Retained, Settled
<1> QED
  BY <1>1, <1>2, <1>3, <1>4, <1>5

\* Readiness changes nothing.
LEMMA HealthyStep ==
  ASSUME IndInv, NEW u \in Updaters, Healthy(u)
  PROVE  IndInv'
<1> USE DEF IndInv, Healthy
<1>1. TypeOK'
  BY DEF TypeOK
<1>2. LockIsHeld' /\ NothingTouched' /\ WorksByJournal' /\ Steered' /\ Retained' /\ EditsShow' /\
      Settled' /\ RolledBackIsPrevious'
  BY DEF LockIsHeld, NothingTouched, WorksByJournal, Steered, Retained, EditsShow, Settled,
     RolledBackIsPrevious
<1> QED
  BY <1>1, <1>2

\* Nor does the verification.
LEMMA VerifyStep ==
  ASSUME IndInv, NEW u \in Updaters, Verify(u)
  PROVE  IndInv'
<1> USE DEF IndInv, Verify
<1>1. TypeOK'
  BY DEF TypeOK
<1>2. LockIsHeld' /\ NothingTouched' /\ WorksByJournal' /\ Steered' /\ Retained' /\ EditsShow' /\
      Settled' /\ RolledBackIsPrevious'
  BY DEF LockIsHeld, NothingTouched, WorksByJournal, Steered, Retained, EditsShow, Settled,
     RolledBackIsPrevious
<1> QED
  BY <1>1, <1>2

\* The journal is closed by an updater whose goal is installed.
LEMMA CloseJournalStep ==
  ASSUME IndInv, NEW u \in Updaters, CloseJournal(u)
  PROVE  IndInv'
<1> USE DEF IndInv, CloseJournal
<1>1. TypeOK'
  BY DEF TypeOK
<1>2. LockIsHeld'
  BY DEF TypeOK, LockIsHeld
<1>3. WorksByJournal'
  BY DEF TypeOK, WorksByJournal, LockIsHeld
<1>4. Retained'
  BY DEF TypeOK, Retained, LockIsHeld
<1>5. Settled'
  BY DEF Settled, Steered, Retained
<1>6. RolledBackIsPrevious'
  BY DEF RolledBackIsPrevious, Steered
<1>7. NothingTouched' /\ Steered' /\ EditsShow'
  BY DEF NothingTouched, Steered, EditsShow
<1> QED
  BY <1>1, <1>2, <1>3, <1>4, <1>5, <1>6, <1>7

\* A failed check turns the updater round, before the journal or after it.
LEMMA CheckFailsStep ==
  ASSUME IndInv, NEW u \in Updaters, CheckFails(u)
  PROVE  IndInv'
<1> USE DEF IndInv, CheckFails
<1>1. TypeOK'
  BY DEF TypeOK
<1>2. LockIsHeld'
  BY DEF TypeOK, LockIsHeld
<1>3. NothingTouched'
  BY DEF TypeOK, NothingTouched
<1>4. WorksByJournal'
  BY DEF TypeOK, WorksByJournal
<1>5. Steered'
  BY DEF TypeOK, Steered
<1>6. Retained'
  BY DEF TypeOK, Retained
<1>7. EditsShow'
  BY DEF TypeOK, EditsShow
<1>8. Settled' /\ RolledBackIsPrevious'
  BY DEF Settled, RolledBackIsPrevious
<1> QED
  BY <1>1, <1>2, <1>3, <1>4, <1>5, <1>6, <1>7, <1>8

\* The journal is in place, and the rollback begins with nothing touched.
LEMMA OpenJournalThenFailStep ==
  ASSUME IndInv, NEW u \in Updaters, OpenJournalThenFail(u)
  PROVE  IndInv'
<1> USE DEF IndInv, OpenJournalThenFail
<1>1. TypeOK'
  BY DEF TypeOK
<1>2. LockIsHeld'
  BY DEF TypeOK, LockIsHeld
<1>3. NothingTouched'
  BY DEF TypeOK, NothingTouched, LockIsHeld
<1>4. WorksByJournal'
  BY DEF TypeOK, WorksByJournal, LockIsHeld
<1>5. Steered'
  BY DEF TypeOK, Steered
<1>6. Retained'
  BY DEF TypeOK, Retained
<1>7. EditsShow'
  BY DEF TypeOK, EditsShow
<1>8. Settled' /\ RolledBackIsPrevious'
  BY DEF Settled, RolledBackIsPrevious
<1> QED
  BY <1>1, <1>2, <1>3, <1>4, <1>5, <1>6, <1>7, <1>8

\* The journal is closed, but the updater undoes what it completed.
LEMMA CloseJournalThenFailStep ==
  ASSUME IndInv, NEW u \in Updaters, CloseJournalThenFail(u)
  PROVE  IndInv'
<1> USE DEF IndInv, CloseJournalThenFail
<1>1. TypeOK'
  <2>1. journal' \in [phase : Phases, plan : Plan]
    BY DEF TypeOK
  <2>2. advice' \in BOOLEAN /\ undone' \in BOOLEAN
    BY DEF TypeOK
  <2>3. /\ pc' \in [Updaters -> Commands \cup {"idle", "prepare", "compare", "journal"}]
        /\ way' \in [Updaters -> Ways]
    BY DEF TypeOK
  <2>4. faults' \in 0 .. MaxFaults
    BY DEF TypeOK
  <2> QED
    BY <2>1, <2>2, <2>3, <2>4 DEF TypeOK
<1>2. LockIsHeld'
  BY DEF TypeOK, LockIsHeld
<1>3. NothingTouched'
  BY DEF TypeOK, NothingTouched
<1>4. WorksByJournal'
  <2>1. CASE way[u] = "forward" /\ pc'[u] = "stop" /\ way'[u] = "rollback"
    <3>1. undone' = TRUE
      BY <2>1
    <3>2. journal'.plan = plan'[u] /\ journal'.phase = "complete"
      BY <2>1
    <3> QED
      BY <2>1, <3>1, <3>2 DEF TypeOK, LockIsHeld, WorksByJournal
  <2>2. CASE pc'[u] = "idle"
    BY <2>2 DEF TypeOK, LockIsHeld, WorksByJournal
  <2> QED
    BY <2>1, <2>2 DEF TypeOK
<1>5. Steered'
  BY DEF TypeOK, Steered
<1>6. Retained'
  BY DEF TypeOK, Retained, LockIsHeld
<1>7. EditsShow'
  BY DEF TypeOK, EditsShow
<1>8. Settled'
  BY DEF Settled, Steered, Retained
<1>9. RolledBackIsPrevious'
  BY DEF RolledBackIsPrevious, Steered
<1> QED
  BY <1>1, <1>2, <1>3, <1>4, <1>5, <1>6, <1>7, <1>8, <1>9

\* A command that ends too early leaves containers or a checkout half done.
LEMMA CommandFailsStep ==
  ASSUME IndInv, NEW u \in Updaters, CommandFails(u)
  PROVE  IndInv'
<1> USE DEF IndInv, CommandFails
<1>1. TypeOK'
  <2>1. deployed' \in Deployment /\ dirty' \in BOOLEAN
    BY DEF TypeOK
  <2>2. advice' \in BOOLEAN /\ undone' \in BOOLEAN
    BY DEF TypeOK
  <2>3. /\ pc' \in [Updaters -> Commands \cup {"idle", "prepare", "compare", "journal"}]
        /\ way' \in [Updaters -> Ways]
    BY DEF TypeOK
  <2>4. faults' \in 0 .. MaxFaults
    BY DEF TypeOK
  <2> QED
    BY <2>1, <2>2, <2>3, <2>4 DEF TypeOK
<1>2. LockIsHeld'
  BY DEF TypeOK, LockIsHeld
<1>3. NothingTouched'
  BY DEF TypeOK, NothingTouched
<1>4. WorksByJournal'
  BY DEF TypeOK, WorksByJournal
<1>5. Steered'
  BY DEF TypeOK, Steered, LockIsHeld
<1>6. Retained'
  BY DEF TypeOK, Retained
<1>7. EditsShow'
  BY DEF TypeOK, EditsShow
<1>8. Settled'
  BY DEF Settled, WorksByJournal
<1>9. RolledBackIsPrevious'
  BY DEF RolledBackIsPrevious, WorksByJournal
<1> QED
  BY <1>1, <1>2, <1>3, <1>4, <1>5, <1>6, <1>7, <1>8, <1>9

\* A killed updater leaves the journal as it was and frees the lock.
LEMMA KillStep ==
  ASSUME IndInv, NEW u \in Updaters, Kill(u)
  PROVE  IndInv'
<1> USE DEF IndInv, Kill
<1>1. TypeOK'
  <2>1. deployed' \in Deployment /\ dirty' \in BOOLEAN
    BY DEF TypeOK
  <2>2. advice' \in BOOLEAN /\ undone' \in BOOLEAN
    BY DEF TypeOK
  <2>3. /\ pc' \in [Updaters -> Commands \cup {"idle", "prepare", "compare", "journal"}]
        /\ way' \in [Updaters -> Ways]
    BY DEF TypeOK
  <2>4. faults' \in 0 .. MaxFaults
    BY DEF TypeOK
  <2> QED
    BY <2>1, <2>2, <2>3, <2>4 DEF TypeOK
<1>2. LockIsHeld'
  BY DEF TypeOK, LockIsHeld
<1>3. Steered'
  BY DEF TypeOK, Steered, LockIsHeld
<1>4. EditsShow'
  BY DEF TypeOK, EditsShow
<1>5. Settled'
  BY DEF Settled, WorksByJournal
<1>6. RolledBackIsPrevious'
  BY DEF RolledBackIsPrevious, WorksByJournal
<1>7. NothingTouched' /\ WorksByJournal' /\ Retained'
  BY DEF NothingTouched, WorksByJournal, Retained
<1> QED
  BY <1>1, <1>2, <1>3, <1>4, <1>5, <1>6, <1>7

\* So does a crash of the host.
LEMMA HostCrashStep ==
  ASSUME IndInv, HostCrash
  PROVE  IndInv'
<1> USE DEF IndInv, HostCrash
<1>1. TypeOK'
  <2>1. deployed' \in Deployment /\ dirty' \in BOOLEAN
    BY DEF TypeOK
  <2>2. advice' \in BOOLEAN /\ undone' \in BOOLEAN
    BY DEF TypeOK
  <2>3. /\ pc' \in [Updaters -> Commands \cup {"idle", "prepare", "compare", "journal"}]
        /\ way' \in [Updaters -> Ways]
    BY DEF TypeOK
  <2>4. faults' \in 0 .. MaxFaults
    BY DEF TypeOK
  <2> QED
    BY <2>1, <2>2, <2>3, <2>4 DEF TypeOK
<1>2. EditsShow'
  BY DEF TypeOK, EditsShow
<1>3. Settled'
  BY DEF Settled, WorksByJournal
<1>4. RolledBackIsPrevious'
  BY DEF RolledBackIsPrevious, WorksByJournal
<1>5. LockIsHeld' /\ NothingTouched' /\ WorksByJournal' /\ Steered' /\ Retained'
  BY DEF LockIsHeld, NothingTouched, WorksByJournal, Steered, Retained
<1> QED
  BY <1>1, <1>2, <1>3, <1>4, <1>5

\* systemd's start, at any time, creates the containers from what is there.
LEMMA ServiceUpStep ==
  ASSUME IndInv, ServiceUp
  PROVE  IndInv'
<1> USE DEF IndInv, ServiceUp
<1>1. TypeOK'
  BY DEF TypeOK
<1>2. Steered'
  BY DEF TypeOK, Steered, EditsShow
<1>3. EditsShow'
  BY DEF TypeOK, EditsShow
<1>4. RolledBackIsPrevious'
  BY DEF TypeOK, RolledBackIsPrevious, Settled
<1>5. LockIsHeld' /\ NothingTouched' /\ WorksByJournal' /\ Retained' /\ Settled'
  BY DEF LockIsHeld, NothingTouched, WorksByJournal, Retained, Settled
<1> QED
  BY <1>1, <1>2, <1>3, <1>4, <1>5

\* A stop keeps the containers' release.
LEMMA ServiceDownStep ==
  ASSUME IndInv, ServiceDown
  PROVE  IndInv'
<1> USE DEF IndInv, ServiceDown
<1>1. TypeOK'
  <2>1. faults' \in 0 .. MaxFaults
    BY DEF TypeOK
  <2> QED
    BY <2>1 DEF TypeOK
<1>2. EditsShow'
  BY DEF TypeOK, EditsShow
<1>3. LockIsHeld' /\ NothingTouched' /\ WorksByJournal' /\ Steered' /\ Retained' /\ Settled' /\
      RolledBackIsPrevious'
  BY DEF LockIsHeld, NothingTouched, WorksByJournal, Steered, Retained, Settled,
     RolledBackIsPrevious
<1> QED
  BY <1>1, <1>2, <1>3

\* The operator's cleaning does not move the checkout.
LEMMA CleanCheckoutStep ==
  ASSUME IndInv, CleanCheckout
  PROVE  IndInv'
<1> USE DEF IndInv, CleanCheckout
<1>1. TypeOK'
  BY DEF TypeOK
<1>2. LockIsHeld' /\ NothingTouched' /\ WorksByJournal' /\ Steered' /\ Retained' /\ EditsShow' /\
      Settled' /\ RolledBackIsPrevious'
  BY DEF LockIsHeld, NothingTouched, WorksByJournal, Steered, Retained, EditsShow, Settled,
     RolledBackIsPrevious
<1> QED
  BY <1>1, <1>2

\* Edited runtime files are not what the update found, or were put back.
LEMMA EditRuntimeStep ==
  ASSUME IndInv, EditRuntime
  PROVE  IndInv'
<1> USE DEF IndInv, EditRuntime
<1>1. TypeOK'
  BY DEF TypeOK
<1>2. EditsShow'
  BY DEF TypeOK, EditsShow
<1>3. LockIsHeld' /\ NothingTouched' /\ WorksByJournal' /\ Steered' /\ Retained' /\ Settled' /\
      RolledBackIsPrevious'
  BY DEF LockIsHeld, NothingTouched, WorksByJournal, Steered, Retained, Settled,
     RolledBackIsPrevious
<1> QED
  BY <1>1, <1>2, <1>3

----------------------------------------------------------------------------
\* Every action keeps the invariant, and nothing else happens.
LEMMA StepInv == IndInv /\ [Next]_vars => IndInv'
<1> SUFFICES ASSUME IndInv, [Next]_vars PROVE IndInv'
  OBVIOUS
<1>1. CASE UNCHANGED vars
  BY <1>1 DEF vars, IndInv, TypeOK, LockIsHeld, NothingTouched, WorksByJournal, Steered,
              Retained, EditsShow, Settled, RolledBackIsPrevious
<1>2. CASE Next
  BY <1>2,
     BeginUpdateStep, BeginRecoveryStep, CopyRuntimeStep, PreparedStep, OpenJournalStep,
     StopServiceStep,
     CheckoutStep, PinImagesStep, StartReleaseStep, HealthyStep, VerifyStep, CloseJournalStep,
     CheckFailsStep, OpenJournalThenFailStep, CloseJournalThenFailStep, CommandFailsStep,
     KillStep, HostCrashStep, ServiceUpStep, ServiceDownStep, CleanCheckoutStep, EditRuntimeStep
     DEF Next, Progress
<1> QED
  BY <1>1, <1>2

\* The conjuncts hold together in every reachable state.
LEMMA Invariance == Spec => []IndInv
  BY InitInv, StepInv, PTL DEF Spec

----------------------------------------------------------------------------
\* Type correctness for any number of updaters, releases and faults.
THEOREM UpdateTypeOK == Spec => []TypeOK
<1>1. IndInv => TypeOK
  BY DEF IndInv
<1> QED
  BY Invariance, <1>1, PTL

\* Whatever was interrupted, restarted or stopped, and however often: outside an
\* interrupted update the checkout, the pins and the containers are one release.
THEOREM UpdateSettled == Spec => []SettledIsWhole
<1>1. IndInv => SettledIsWhole
  BY DEF IndInv, Settled, SettledIsWhole
<1> QED
  BY Invariance, <1>1, PTL

\* A journal that says rolled_back tells what is installed, after any number of
\* failed attempts and starts of the service.
THEOREM UpdateRolledBack == Spec => []RolledBackIsPrevious
<1>1. IndInv => RolledBackIsPrevious
  BY DEF IndInv
<1> QED
  BY Invariance, <1>1, PTL

\* An update passes its last check only with the containers it meant to start,
\* created from the runtime files its candidate was validated with, unless those
\* were edited and put back meanwhile.
THEOREM UpdatePassed == Spec => PassedAsValidated
<1> DEFINE Passed == \A u \in Updaters :
               way[u] = "forward" /\ pc[u] = "verify" /\ pc'[u] = "close" =>
                 /\ deployed.code = plan[u].target /\ deployed.images = plan[u].target
                 /\ ~putBack => deployed.runtime = copied
<1>1. IndInv /\ [Next]_vars => [Passed]_vars
  <2> SUFFICES ASSUME IndInv, Next, NEW u \in Updaters,
                      way[u] = "forward", pc[u] = "verify", pc'[u] = "close"
               PROVE  /\ deployed.code = plan[u].target /\ deployed.images = plan[u].target
                      /\ ~putBack => deployed.runtime = copied
    OBVIOUS
  <2>1. Verify(u)
    BY DEF IndInv, TypeOK, LockIsHeld, Next, Progress, BeginUpdate, BeginRecovery, CopyRuntime,
       Prepared, OpenJournal, StopService, Checkout, PinImages, StartRelease, Healthy, Verify,
       CloseJournal, CheckFails, OpenJournalThenFail, CloseJournalThenFail, CommandFails, Kill,
       HostCrash, ServiceUp, ServiceDown, CleanCheckout, EditRuntime
  <2>2. deployed.code = plan[u].target /\ deployed.images = plan[u].target
    BY DEF IndInv, Steered
  <2>3. ~putBack => deployed.runtime = copied
    BY <2>1 DEF IndInv, EditsShow, Verify
  <2> QED
    BY <2>2, <2>3
<1> QED
  BY Invariance, <1>1, PTL DEF Spec, PassedAsValidated

\* Nobody changes the checkout or the pins but the holder of the lock, by the
\* journal on disk.
THEOREM UpdateJournalled == Spec => ChangesAreJournalled
<1> DEFINE Journalled == head' # head \/ pins' # pins =>
               \E u \in Updaters :
                 /\ lock = u /\ journal.plan = plan[u]
                 /\ Interrupted \/ undone
<1>1. IndInv /\ [Next]_vars => [Journalled]_vars
  <2> SUFFICES ASSUME IndInv, Next, head' # head \/ pins' # pins
               PROVE  \E u \in Updaters :
                        lock = u /\ journal.plan = plan[u] /\ (Interrupted \/ undone)
    OBVIOUS
  <2>1. PICK u \in Updaters : Checkout(u) \/ PinImages(u)
    BY DEF Next, Progress, BeginUpdate, BeginRecovery, CopyRuntime, Prepared, OpenJournal, StopService,
       Checkout, PinImages, StartRelease, Healthy, Verify, CloseJournal, CheckFails,
       OpenJournalThenFail, CloseJournalThenFail, CommandFails, Kill, HostCrash, ServiceUp,
       ServiceDown, CleanCheckout, EditRuntime
  <2>2. pc[u] \in {"checkout", "pin"}
    BY <2>1 DEF Checkout, PinImages
  <2> QED
    BY <2>2 DEF IndInv, LockIsHeld, WorksByJournal
<1> QED
  BY Invariance, <1>1, PTL DEF Spec, ChangesAreJournalled

----------------------------------------------------------------------------
(* The updater keeps the promise of Installation: every step of it replaces,    *)
(* rolls back or undoes a release in a single step, or changes nothing.         *)

\* An installation begins whole.
LEMMA PromisedInit == Init => Promise!Init
<1> SUFFICES ASSUME Init PROVE Promise!Init
  OBVIOUS
<1>1. PICK r \in Releases : head = r /\ journal.phase = "none" /\ journal.plan.previous = r
  BY DEF Init
<1> QED
  BY <1>1 DEF Promise!Init

\* The abstract installation looks only at the journal and at the checkout.
LEMMA PromiseOfDisk == UNCHANGED <<journal, head>> => UNCHANGED Promise!installationVars
  BY DEF Promise!installationVars

\* A journal that is opened begins a replacement.
LEMMA OpenedBegins ==
  ASSUME IndInv, NEW u \in Updaters, pc[u] = "journal", Opened(u)
  PROVE  Promise!Begin
  BY DEF IndInv, TypeOK, NothingTouched, Promise!Begin

\* One that is closed commits it or rolls it back, or ends the undoing of one.
LEMMA ClosedEnds ==
  ASSUME IndInv, NEW u \in Updaters, pc[u] = "close", Closed(u), head' = head
  PROVE  Promise!Commit \/ Promise!RollBack \/ UNCHANGED Promise!installationVars
<1>1. /\ journal.plan = plan[u] /\ head = GoalCode(u) /\ head \in Releases
      /\ Interrupted \/ way[u] = "rollback"
  BY DEF IndInv, TypeOK, WorksByJournal, Steered
<1>2. CASE way[u] = "forward"
  BY <1>1, <1>2 DEF IndInv, TypeOK, Retained, Promise!Commit
<1>3. CASE way[u] # "forward"
  BY <1>1, <1>3 DEF Promise!RollBack, Promise!installationVars
<1> QED
  BY <1>2, <1>3

\* A checkout is not seen while the journal is open, and then undoes a replacement.
LEMMA CheckoutIsPromised ==
  ASSUME IndInv, NEW u \in Updaters, Checkout(u)
  PROVE  Promise!Undo \/ UNCHANGED Promise!installationVars
  BY DEF IndInv, TypeOK, WorksByJournal, Checkout, Promise!Undo, Promise!installationVars

\* Every step is one of the abstract installation, or is not seen there.
LEMMA PromisedStep == IndInv /\ [Next]_vars => [Promise!Next]_(Promise!installationVars)
<1> SUFFICES ASSUME IndInv, Next
             PROVE  Promise!Next \/ UNCHANGED Promise!installationVars
  BY PromiseOfDisk DEF vars
<1> USE DEF Promise!Next
<1>1. CASE UNCHANGED <<journal, head>>
  BY <1>1, PromiseOfDisk
<1>2. CASE \E u \in Updaters : OpenJournal(u) \/ OpenJournalThenFail(u)
  BY <1>2, OpenedBegins DEF OpenJournal, OpenJournalThenFail
<1>3. CASE \E u \in Updaters : CloseJournal(u) \/ CloseJournalThenFail(u)
  BY <1>3, ClosedEnds DEF CloseJournal, CloseJournalThenFail
<1>4. CASE \E u \in Updaters : Checkout(u)
  BY <1>4, CheckoutIsPromised
<1> QED
  BY <1>1, <1>2, <1>3, <1>4 DEF Next, Progress, BeginUpdate, BeginRecovery, CopyRuntime, Prepared,
     StopService, PinImages, StartRelease, Healthy, Verify, CheckFails, CommandFails, Kill,
     HostCrash, ServiceUp, ServiceDown, CleanCheckout, EditRuntime

\* Spec implements Installation, with the open journal as the replacement.
THEOREM UpdatePromise == Spec => InstallationPromise
  BY PromisedInit, PromisedStep, Invariance, PTL DEF Spec, InstallationPromise, Promise!Spec

=============================================================================

------------------------ MODULE LabDeployment_proofs ------------------------
(***************************************************************************)
(* Theorems about LabDeployment: for any number of operators, commits and  *)
(* runtime files, and with the tools, systemd and crashes in any order.    *)
(***************************************************************************)
EXTENDS LabDeployment, TLAPS

\* The stages of a tool that changes files, images or containers, and those that
\* come after the checkout, the copies, the build and compose up.
Started == {"ready", "record"}
Built == {"up"} \cup Started
Copied == {"build"} \cup Built
CheckedOut == {"copy"} \cup Copied
Validated == {"checkout"} \cup CheckedOut
Locked == {"replace", "validate"} \cup Validated

\* They hold the lock, and so does the service until it is ready.
LockIsHeld ==
  /\ \A o \in Operators : pc[o] \in Locked => lock = o
  /\ unit \in {"up", "ready"} => lock = Service

\* Both copy loops begin with the first file.
FromTheFirst == \A o \in Operators : pc[o] \in {"validate", "checkout"} => job[o].at = 1

\* What a delivery has replaced so far is from its set.
Delivering ==
  \A o \in Operators : pc[o] = "replace" =>
    /\ job[o].set \in Sets
    /\ \A i \in 1 .. job[o].at - 1 :
         FileOrder[i] \in Provides[job[o].set] => canonical[FileOrder[i]] = job[o].set

\* The canonical files are still those a deployment has validated, and what it has
\* copied so far are they.
Copying ==
  \A o \in Operators :
    /\ pc[o] \in Validated => job[o].validated = canonical
    /\ pc[o] = "copy" => \A i \in 1 .. job[o].at - 1 :
         canonical[FileOrder[i]] # Absent => target[FileOrder[i]] = canonical[FileOrder[i]]
    /\ pc[o] \in Copied => \A f \in Files :
         canonical[f] # Absent => target[f] = canonical[f]

\* The release a deployment has installed so far stands.
Deploying ==
  \A o \in Operators :
    /\ pc[o] \in CheckedOut => head = job[o].commit
    /\ pc[o] \in Built => images = job[o].commit
    /\ pc[o] \in Started => running \in {job[o].commit, Down}

\* What the service has checked under the lock still holds when it is ready.
Serving ==
  /\ unit \in {"up", "ready"} => Preflight(loaded)
  /\ unit = "ready" => running \in {images, Down}

Job ==
  [commit : Commits \cup {Absent}, set : Sets \cup {Absent}, at : 1 .. Len(FileOrder),
   changed : BOOLEAN, validated : Content]

IndInv ==
  /\ TypeOK /\ LockIsHeld /\ FromTheFirst /\ Delivering /\ DeliveredIsCanonical
  /\ Copying /\ Deploying /\ Serving

USE LabAssumption
    DEF fileVars, releaseVars, recordVars, operatorVars, unitVars, deliveryVars, Invoke, Goto,
        Quit, NextFile, TakeLock, Running, Start, Stages, Started, Built, Copied, CheckedOut,
        Validated, Locked, NoJob
----------------------------------------------------------------------------
\* There is a first file.
LEMMA FilesBegin == Len(FileOrder) \in Nat \ {0}
  OBVIOUS

\* An empty directory.
LEMMA NothingThere == Nothing \in Content
  BY DEF Nothing, Content

\* The locals of a tool.
LEMMA NoJobTyped == NoJob \in Job
  BY NothingThere, FilesBegin DEF Job

\* Each place in the order has a file.
LEMMA FileAt == ASSUME NEW i \in 1 .. Len(FileOrder) PROVE FileOrder[i] \in Files
  BY DEF Files

\* The files, by their place in the order.
LEMMA FileIsAt == ASSUME NEW f \in Files PROVE \E i \in 1 .. Len(FileOrder) : f = FileOrder[i]
  BY DEF Files

\* A tool's locals after one more file.
LEMMA NextJob ==
  ASSUME TypeOK, NEW o \in Operators, job[o].at < Len(FileOrder)
  PROVE  [job EXCEPT ![o].at = job[o].at + 1] \in [Operators -> Job]
<1>1. job \in [Operators -> Job]
  BY DEF TypeOK, Job
<1>2. job[o] \in Job /\ job[o].at + 1 \in 1 .. Len(FileOrder)
  BY <1>1, FilesBegin DEF Job
<1>3. [job[o] EXCEPT !.at = job[o].at + 1] \in Job
  BY <1>2 DEF Job
<1> QED
  BY <1>1, <1>3

\* A new host.
LEMMA InitInv == Init => IndInv
<1> SUFFICES ASSUME Init PROVE IndInv
  OBVIOUS
<1>1. job \in [Operators -> Job] /\ pc \in [Operators -> Stages]
  BY NoJobTyped DEF Init
<1>2. jobs \in 0 .. MaxJobs /\ starts \in 0 .. StartLimit
  BY DEF Init
<1>3. TypeOK
  BY <1>1, <1>2, NothingThere DEF Init, TypeOK, Job
<1> QED
  BY <1>3 DEF Init, IndInv, LockIsHeld, FromTheFirst, Delivering, DeliveredIsCanonical, Copying,
     Deploying, Serving

\* A delivery takes the free lock, so that no other tool is at work on the files.
LEMMA DeliverStep ==
  ASSUME IndInv, NEW o \in Operators, NEW set \in Sets, Deliver(o, set)
  PROVE  IndInv'
<1> USE FilesBegin DEF IndInv, Deliver
<1>1. TypeOK'
  <2>1. [NoJob EXCEPT !.set = set] \in Job
    BY NoJobTyped DEF Job
  <2>2. job' \in [Operators -> Job]
    BY <2>1 DEF TypeOK, Job
  <2> QED
    BY <2>2 DEF TypeOK, Job
<1>2. Delivering'
  BY DEF TypeOK, Delivering
<1>3. Serving'
  BY DEF Serving, LockIsHeld
<1>4. LockIsHeld' /\ FromTheFirst' /\ DeliveredIsCanonical' /\ Copying' /\ Deploying'
  BY DEF LockIsHeld, FromTheFirst, DeliveredIsCanonical, Copying, Deploying
<1> QED
  BY <1>1, <1>2, <1>3, <1>4

\* The canonical files become those of the set one after the other, and after the
\* last one they are the set.
LEMMA ReplaceFileStep ==
  ASSUME IndInv, NEW o \in Operators, ReplaceFile(o)
  PROVE  IndInv'
<1> USE FilesBegin DEF IndInv, ReplaceFile
<1>1. TypeOK'
  <2>1. job[o].at \in 1 .. Len(FileOrder) /\ FileOrder[job[o].at] \in Files
    BY DEF TypeOK
  <2>2. /\ job \in [Operators -> Job] /\ pc \in [Operators -> Stages]
        /\ lock \in Operators \cup {NoOne, Service}
    BY DEF TypeOK, Job
  <2>3. /\ job' \in [Operators -> Job] /\ pc' \in [Operators -> Stages]
        /\ lock' \in Operators \cup {NoOne, Service}
    <3>1. CASE job[o].at < Len(FileOrder)
      <4>1. job' = [job EXCEPT ![o].at = job[o].at + 1] /\ pc' = pc /\ lock' = lock
        BY <3>1
      <4> QED
        BY <2>2, <3>1, <4>1, NextJob
    <3>2. CASE ~(job[o].at < Len(FileOrder))
      <4>1. /\ pc' = [pc EXCEPT ![o] = "idle"] /\ job' = [job EXCEPT ![o] = NoJob]
            /\ lock' \in {lock, NoOne}
        BY <3>2
      <4>2. {"idle", "build"} \subseteq Stages
        OBVIOUS
      <4> QED
        BY <2>2, <4>1, <4>2, NoJobTyped
    <3> QED
      BY <3>1, <3>2
  <2>4. canonical' \in Content
    BY <2>1 DEF TypeOK, Content
  <2>5. delivered' \in Sets \cup {Absent} /\ cut' \in BOOLEAN
    BY DEF TypeOK, Delivering
  <2>6. jobs' = jobs
    OBVIOUS
  <2> QED
    BY <2>3, <2>4, <2>5, <2>6 DEF TypeOK, Job
<1>2. LockIsHeld'
  BY DEF TypeOK, LockIsHeld
<1>3. FromTheFirst'
  BY DEF TypeOK, FromTheFirst
<1>4. Delivering'
  <2>1. ASSUME NEW x \in Operators, pc'[x] = "replace"
        PROVE  /\ job'[x].set \in Sets
               /\ \A i \in 1 .. job'[x].at - 1 :
                    FileOrder[i] \in Provides[job'[x].set] => canonical'[FileOrder[i]] = job'[x].set
    <3>1. x = o /\ job[o].at < Len(FileOrder)
      BY <2>1 DEF TypeOK, LockIsHeld
    <3>2. job' = [job EXCEPT ![o].at = job[o].at + 1]
      BY <3>1
    <3>3. job'[o].at = job[o].at + 1 /\ job'[o].set = job[o].set /\ job[o].at \in Nat
      BY <3>2 DEF TypeOK
    <3>4. \A i \in 1 .. job[o].at : FileOrder[i] \in Provides[job[o].set] =>
             canonical'[FileOrder[i]] = job[o].set
      BY FileAt DEF TypeOK, Delivering, Content
    <3> QED
      BY <3>1, <3>3, <3>4 DEF Delivering
  <2> QED
    BY <2>1 DEF Delivering
<1>5. DeliveredIsCanonical'
  <2>1. SUFFICES ASSUME \A x \in Operators : pc'[x] # "replace"
                 PROVE  delivered' = job[o].set /\ \A f \in Provides[job[o].set] : canonical'[f] = job[o].set
    BY DEF DeliveredIsCanonical
  <2>2. job[o].at = Len(FileOrder) /\ pc'[o] = "idle" /\ delivered' = job[o].set
    BY <2>1 DEF TypeOK
  <2>3. \A i \in 1 .. Len(FileOrder) : FileOrder[i] \in Provides[job[o].set] =>
           canonical'[FileOrder[i]] = job[o].set
    BY <2>2, FileAt DEF TypeOK, Delivering, Content
  <2>4. Provides[job[o].set] \subseteq Files /\ job[o].set \in Sets
    BY DEF Delivering
  <2>5. ASSUME NEW f \in Provides[job[o].set] PROVE canonical'[f] = job[o].set
    <3>1. PICK i \in 1 .. Len(FileOrder) : f = FileOrder[i]
      BY <2>4, FileIsAt
    <3> QED
      BY <2>3, <3>1
  <2> QED
    BY <2>2, <2>5
<1>6. Copying'
  BY DEF TypeOK, Copying, LockIsHeld, Delivering
<1>7. Deploying'
  BY DEF TypeOK, Deploying
<1>8. Serving'
  BY DEF Serving, LockIsHeld
<1> QED
  BY <1>1, <1>2, <1>3, <1>4, <1>5, <1>6, <1>7, <1>8

\* A deployment takes the free lock too.
LEMMA DeployStep ==
  ASSUME IndInv, NEW o \in Operators, NEW commit \in Commits, Deploy(o, commit)
  PROVE  IndInv'
<1> USE FilesBegin DEF IndInv, Deploy
<1>1. TypeOK'
  <2>1. [NoJob EXCEPT !.commit = commit] \in Job
    BY NoJobTyped DEF Job
  <2>2. job' \in [Operators -> Job]
    BY <2>1 DEF TypeOK, Job
  <2> QED
    BY <2>2 DEF TypeOK, Job
<1>2. FromTheFirst'
  BY DEF TypeOK, FromTheFirst
<1>3. Serving'
  BY DEF Serving, LockIsHeld
<1>4. LockIsHeld' /\ Delivering' /\ DeliveredIsCanonical' /\ Copying' /\ Deploying'
  BY DEF LockIsHeld, Delivering, DeliveredIsCanonical, Copying, Deploying
<1> QED
  BY <1>1, <1>2, <1>3, <1>4

\* What is validated are the canonical files.
LEMMA ValidateStep ==
  ASSUME IndInv, NEW o \in Operators, Validate(o)
  PROVE  IndInv'
<1> USE FilesBegin DEF IndInv, Validate
<1>1. TypeOK'
  <2>1. [job[o] EXCEPT !.validated = canonical] \in Job
    BY NoJobTyped DEF TypeOK, Job
  <2>2. job' \in [Operators -> Job]
    BY <2>1 DEF TypeOK, Job
  <2> QED
    BY <2>2 DEF TypeOK, Job
<1>2. Copying'
  BY DEF TypeOK, Copying
<1>3. Serving'
  BY DEF Serving, LockIsHeld
<1>4. LockIsHeld' /\ FromTheFirst' /\ Delivering' /\ DeliveredIsCanonical' /\ Deploying'
  BY DEF LockIsHeld, FromTheFirst, Delivering, DeliveredIsCanonical, Deploying
<1> QED
  BY <1>1, <1>2, <1>3, <1>4

\* The checkout is the deployment's, and it copies from the first file.
LEMMA CheckoutStep ==
  ASSUME IndInv, NEW o \in Operators, Checkout(o)
  PROVE  IndInv'
<1> USE FilesBegin DEF IndInv, Checkout
<1>1. TypeOK'
  BY DEF TypeOK, LockIsHeld
<1>2. Copying'
  BY DEF Copying, FromTheFirst
<1>3. Deploying'
  BY DEF Deploying, LockIsHeld
<1>4. Serving'
  BY DEF Serving, LockIsHeld
<1>5. LockIsHeld' /\ FromTheFirst' /\ Delivering' /\ DeliveredIsCanonical'
  BY DEF LockIsHeld, FromTheFirst, Delivering, DeliveredIsCanonical
<1> QED
  BY <1>1, <1>2, <1>3, <1>4, <1>5

\* After the last file, every file there was is copied.
LEMMA CopyFileStep ==
  ASSUME IndInv, NEW o \in Operators, CopyFile(o)
  PROVE  IndInv'
<1> USE FilesBegin DEF IndInv, CopyFile
<1>1. TypeOK'
  <2>1. job[o].at \in 1 .. Len(FileOrder) /\ FileOrder[job[o].at] \in Files
    BY DEF TypeOK
  <2>2. /\ job \in [Operators -> Job] /\ pc \in [Operators -> Stages]
        /\ lock \in Operators \cup {NoOne, Service}
    BY DEF TypeOK, Job
  <2>3. /\ job' \in [Operators -> Job] /\ pc' \in [Operators -> Stages]
        /\ lock' \in Operators \cup {NoOne, Service}
    <3>1. CASE job[o].at < Len(FileOrder)
      <4>1. job' = [job EXCEPT ![o].at = job[o].at + 1] /\ pc' = pc /\ lock' = lock
        BY <3>1
      <4> QED
        BY <2>2, <3>1, <4>1, NextJob
    <3>2. CASE ~(job[o].at < Len(FileOrder))
      <4>1. pc' = [pc EXCEPT ![o] = "build"] /\ job' = job /\ lock' = lock
        BY <3>2
      <4>2. {"idle", "build"} \subseteq Stages
        OBVIOUS
      <4> QED
        BY <2>2, <4>1, <4>2, NoJobTyped
    <3> QED
      BY <3>1, <3>2
  <2>4. target' \in Content
    BY <2>1 DEF TypeOK, Content
  <2>5. jobs' = jobs
    OBVIOUS
  <2> QED
    BY <2>3, <2>4, <2>5 DEF TypeOK, Job
<1>2. LockIsHeld'
  BY DEF TypeOK, LockIsHeld
<1>3. FromTheFirst'
  BY DEF TypeOK, FromTheFirst
<1>4. Delivering'
  BY DEF TypeOK, Delivering
<1>5. DeliveredIsCanonical'
  BY DEF TypeOK, DeliveredIsCanonical
<1>6. Copying'
  <2>1. /\ job[o].at \in 1 .. Len(FileOrder) /\ FileOrder[job[o].at] \in Files
        /\ \A x \in Operators \ {o} : pc'[x] = pc[x] /\ pc[x] \notin Validated
    BY DEF TypeOK, LockIsHeld
  <2>2. \A i \in 1 .. job[o].at : canonical[FileOrder[i]] # Absent =>
           target'[FileOrder[i]] = canonical[FileOrder[i]]
    BY <2>1 DEF TypeOK, Copying, Content
  <2>3. CASE job[o].at < Len(FileOrder)
    <3>1. job' = [job EXCEPT ![o].at = job[o].at + 1] /\ pc' = pc
      BY <2>3
    <3>2. job'[o].at = job[o].at + 1 /\ job'[o].validated = job[o].validated
      BY <3>1 DEF TypeOK
    <3> QED
      BY <2>1, <2>2, <3>1, <3>2 DEF Copying
  <2>4. CASE job[o].at = Len(FileOrder)
    <3>1. job' = job /\ pc' = [pc EXCEPT ![o] = "build"]
      BY <2>4
    <3>2. \A f \in Files : canonical[f] # Absent => target'[f] = canonical[f]
      BY <2>2, <2>4, FileIsAt
    <3> QED
      BY <2>1, <3>1, <3>2 DEF Copying
  <2> QED
    BY <2>1, <2>3, <2>4
<1>7. Deploying'
  BY DEF TypeOK, Deploying, LockIsHeld
<1>8. Serving'
  BY DEF Serving, LockIsHeld
<1> QED
  BY <1>1, <1>2, <1>3, <1>4, <1>5, <1>6, <1>7, <1>8

\* The images are the deployment's.
LEMMA BuildStep ==
  ASSUME IndInv, NEW o \in Operators, Build(o)
  PROVE  IndInv'
<1> USE FilesBegin DEF IndInv, Build
<1>1. TypeOK'
  BY DEF TypeOK, LockIsHeld
<1>2. Serving'
  BY DEF Serving, LockIsHeld
<1>3. /\ LockIsHeld' /\ FromTheFirst' /\ Delivering'
      /\ DeliveredIsCanonical' /\ Copying' /\ Deploying'
  BY DEF LockIsHeld, FromTheFirst, Delivering, DeliveredIsCanonical, Copying, Deploying
<1> QED
  BY <1>1, <1>2, <1>3

\* The services run those images.
LEMMA UpStep ==
  ASSUME IndInv, NEW o \in Operators, Up(o)
  PROVE  IndInv'
<1> USE FilesBegin DEF IndInv, Up
<1>1. TypeOK'
  BY DEF TypeOK, LockIsHeld
<1>2. Serving'
  BY DEF Serving, LockIsHeld
<1>3. /\ LockIsHeld' /\ FromTheFirst' /\ Delivering'
      /\ DeliveredIsCanonical' /\ Copying' /\ Deploying'
  BY DEF LockIsHeld, FromTheFirst, Delivering, DeliveredIsCanonical, Copying, Deploying
<1> QED
  BY <1>1, <1>2, <1>3

\* Readiness changes nothing.
LEMMA ReadyToRecordStep ==
  ASSUME IndInv, NEW o \in Operators, ReadyToRecord(o)
  PROVE  IndInv'
<1> USE FilesBegin DEF IndInv, ReadyToRecord
<1>1. TypeOK'
  BY DEF TypeOK, LockIsHeld
<1>2. Serving'
  BY DEF Serving, LockIsHeld
<1>3. /\ LockIsHeld' /\ FromTheFirst' /\ Delivering'
      /\ DeliveredIsCanonical' /\ Copying' /\ Deploying'
  BY DEF LockIsHeld, FromTheFirst, Delivering, DeliveredIsCanonical, Copying, Deploying
<1> QED
  BY <1>1, <1>2, <1>3

\* The record frees the lock.
LEMMA RecordStep ==
  ASSUME IndInv, NEW o \in Operators, Record(o)
  PROVE  IndInv'
<1> USE FilesBegin DEF IndInv, Record
<1>1. TypeOK'
  BY NothingThere DEF TypeOK, LockIsHeld
<1>2. LockIsHeld'
  BY DEF TypeOK, LockIsHeld
<1>3. Copying'
  BY DEF TypeOK, Copying
<1>4. Deploying'
  BY DEF TypeOK, Deploying
<1>5. Serving'
  BY DEF Serving, LockIsHeld
<1>6. FromTheFirst' /\ Delivering' /\ DeliveredIsCanonical'
  BY DEF FromTheFirst, Delivering, DeliveredIsCanonical
<1> QED
  BY <1>1, <1>2, <1>3, <1>4, <1>5, <1>6

\* The installation of the unit starts beside whoever has the lock.
LEMMA InstallStep ==
  ASSUME IndInv, NEW o \in Operators, NEW commit \in Commits, Install(o, commit)
  PROVE  IndInv'
<1> USE FilesBegin DEF IndInv, Install
<1>1. TypeOK'
  <2>1. [NoJob EXCEPT !.commit = commit] \in Job
    BY NoJobTyped DEF Job
  <2>2. job' \in [Operators -> Job]
    BY <2>1 DEF TypeOK, Job
  <2> QED
    BY <2>2 DEF TypeOK, Job
<1>2. Serving'
  BY DEF Serving, Preflight
<1>3. /\ LockIsHeld' /\ FromTheFirst' /\ Delivering'
      /\ DeliveredIsCanonical' /\ Copying' /\ Deploying'
  BY DEF LockIsHeld, FromTheFirst, Delivering, DeliveredIsCanonical, Copying, Deploying
<1> QED
  BY <1>1, <1>2, <1>3

\* The pin is not what a started service goes by.
LEMMA WritePinStep ==
  ASSUME IndInv, NEW o \in Operators, WritePin(o)
  PROVE  IndInv'
<1> USE FilesBegin DEF IndInv, WritePin
<1>1. TypeOK'
  <2>1. [job[o] EXCEPT !.changed = pin # job[o].commit] \in Job
    BY NoJobTyped DEF TypeOK, Job
  <2>2. job' \in [Operators -> Job]
    BY <2>1 DEF TypeOK, Job
  <2> QED
    BY <2>2 DEF TypeOK, Job
<1>2. Serving'
  BY DEF Serving, Preflight
<1>3. /\ LockIsHeld' /\ FromTheFirst' /\ Delivering'
      /\ DeliveredIsCanonical' /\ Copying' /\ Deploying'
  BY DEF LockIsHeld, FromTheFirst, Delivering, DeliveredIsCanonical, Copying, Deploying
<1> QED
  BY <1>1, <1>2, <1>3

\* The unit will start at boot.
LEMMA EnableStep ==
  ASSUME IndInv, NEW o \in Operators, Enable(o)
  PROVE  IndInv'
<1> USE FilesBegin DEF IndInv, Enable
<1>1. TypeOK'
  BY DEF TypeOK, LockIsHeld
<1>2. Serving'
  BY DEF Serving, Preflight
<1>3. /\ LockIsHeld' /\ FromTheFirst' /\ Delivering'
      /\ DeliveredIsCanonical' /\ Copying' /\ Deploying'
  BY DEF LockIsHeld, FromTheFirst, Delivering, DeliveredIsCanonical, Copying, Deploying
<1> QED
  BY <1>1, <1>2, <1>3

\* A restart stops a service wherever it is, and leaves a deployment its lock.
LEMMA RestartUnitStep ==
  ASSUME IndInv, NEW o \in Operators, RestartUnit(o)
  PROVE  IndInv'
<1> USE FilesBegin DEF IndInv, RestartUnit
<1>1. TypeOK'
  BY NothingThere DEF TypeOK, LockIsHeld
<1>2. Deploying'
  BY DEF Deploying, LockIsHeld
<1>3. Serving'
  BY DEF Serving, Preflight
<1>4. LockIsHeld' /\ FromTheFirst' /\ Delivering' /\ DeliveredIsCanonical' /\ Copying'
  BY DEF LockIsHeld, FromTheFirst, Delivering, DeliveredIsCanonical, Copying
<1> QED
  BY <1>1, <1>2, <1>3, <1>4

\* A tool that fails leaves what it did and frees its lock.
LEMMA ToolFailsStep ==
  ASSUME IndInv, NEW o \in Operators, ToolFails(o)
  PROVE  IndInv'
<1> USE FilesBegin DEF IndInv, ToolFails
<1>1. TypeOK'
  <2>1. NoJob \in Job
    BY NoJobTyped DEF Job
  <2>2. job' \in [Operators -> Job]
    BY <2>1 DEF TypeOK, Job
  <2>3. /\ clean' \in BOOLEAN /\ images' \in Commits \cup {Absent}
        /\ running' \in Commits \cup {Torn, Down} /\ cut' \in BOOLEAN
    BY DEF TypeOK
  <2> QED
    BY <2>2, <2>3 DEF TypeOK, Job
<1>2. LockIsHeld'
  BY DEF TypeOK, LockIsHeld
<1>3. FromTheFirst'
  BY DEF FromTheFirst
<1>4. Delivering'
  BY DEF TypeOK, Delivering
<1>5. DeliveredIsCanonical'
  BY DEF TypeOK, DeliveredIsCanonical
<1>6. Copying'
  BY DEF TypeOK, Copying
<1>7. Deploying'
  BY DEF TypeOK, Deploying, LockIsHeld
<1>8. Serving'
  BY DEF Serving, LockIsHeld, Preflight
<1> QED
  BY <1>1, <1>2, <1>3, <1>4, <1>5, <1>6, <1>7, <1>8

\* The service reads the pin without the lock.
LEMMA CheckStep ==
  ASSUME IndInv, Check
  PROVE  IndInv'
<1> USE FilesBegin DEF IndInv, Check
<1>1. TypeOK'
  BY DEF TypeOK, LockIsHeld
<1>2. /\ LockIsHeld' /\ FromTheFirst' /\ Delivering'
      /\ DeliveredIsCanonical' /\ Copying' /\ Deploying'
      /\ Serving'
  BY DEF LockIsHeld, FromTheFirst, Delivering, DeliveredIsCanonical, Copying, Deploying, Serving
<1> QED
  BY <1>1, <1>2

\* Under the lock, what preflight finds is what the service will run.
LEMMA ServeLockStep ==
  ASSUME IndInv, ServeLock
  PROVE  IndInv'
<1> USE FilesBegin DEF IndInv, ServeLock
<1>1. TypeOK'
  BY DEF TypeOK, LockIsHeld
<1>2. Serving'
  BY DEF Serving, Preflight
<1>3. /\ LockIsHeld' /\ FromTheFirst' /\ Delivering'
      /\ DeliveredIsCanonical' /\ Copying' /\ Deploying'
  BY DEF LockIsHeld, FromTheFirst, Delivering, DeliveredIsCanonical, Copying, Deploying
<1> QED
  BY <1>1, <1>2, <1>3

\* The service starts the images that are there.
LEMMA ServeUpStep ==
  ASSUME IndInv, ServeUp
  PROVE  IndInv'
<1> USE FilesBegin DEF IndInv, ServeUp
<1>1. TypeOK'
  BY DEF TypeOK, LockIsHeld
<1>2. Serving'
  BY DEF Serving, Preflight
<1>3. /\ LockIsHeld' /\ FromTheFirst' /\ Delivering'
      /\ DeliveredIsCanonical' /\ Copying' /\ Deploying'
  BY DEF LockIsHeld, FromTheFirst, Delivering, DeliveredIsCanonical, Copying, Deploying
<1> QED
  BY <1>1, <1>2, <1>3

\* The service gives the lock back when it is ready.
LEMMA NotifyStep ==
  ASSUME IndInv, Notify
  PROVE  IndInv'
<1> USE FilesBegin DEF IndInv, Notify
<1>1. TypeOK'
  BY DEF TypeOK, LockIsHeld
<1>2. /\ LockIsHeld' /\ FromTheFirst' /\ Delivering'
      /\ DeliveredIsCanonical' /\ Copying' /\ Deploying'
      /\ Serving'
  BY DEF LockIsHeld, FromTheFirst, Delivering, DeliveredIsCanonical, Copying, Deploying, Serving
<1> QED
  BY <1>1, <1>2

\* A service that fails frees the lock.
LEMMA ServiceFailsStep ==
  ASSUME IndInv, ServiceFails
  PROVE  IndInv'
<1> USE FilesBegin DEF IndInv, ServiceFails
<1>1. TypeOK'
  BY DEF TypeOK, LockIsHeld
<1>2. Deploying'
  BY DEF Deploying, LockIsHeld
<1>3. LockIsHeld' /\ FromTheFirst' /\ Delivering' /\ DeliveredIsCanonical' /\ Copying' /\ Serving'
  BY DEF LockIsHeld, FromTheFirst, Delivering, DeliveredIsCanonical, Copying, Serving
<1> QED
  BY <1>1, <1>2, <1>3

\* The supervisor only gives up.
LEMMA SuperviseStep ==
  ASSUME IndInv, Supervise
  PROVE  IndInv'
<1> USE FilesBegin DEF IndInv, Supervise
<1>1. TypeOK'
  BY DEF TypeOK, LockIsHeld
<1>2. /\ LockIsHeld' /\ FromTheFirst' /\ Delivering'
      /\ DeliveredIsCanonical' /\ Copying' /\ Deploying'
      /\ Serving'
  BY DEF LockIsHeld, FromTheFirst, Delivering, DeliveredIsCanonical, Copying, Deploying, Serving
<1> QED
  BY <1>1, <1>2

\* A stop can only take services down, the deployment's too.
LEMMA StopStep ==
  ASSUME IndInv, Stop
  PROVE  IndInv'
<1> USE FilesBegin DEF IndInv, Stop
<1>1. TypeOK'
  BY DEF TypeOK, LockIsHeld
<1>2. /\ LockIsHeld' /\ FromTheFirst' /\ Delivering'
      /\ DeliveredIsCanonical' /\ Copying' /\ Deploying'
      /\ Serving'
  BY DEF LockIsHeld, FromTheFirst, Delivering, DeliveredIsCanonical, Copying, Deploying, Serving
<1> QED
  BY <1>1, <1>2

\* systemd's restart begins without the lock.
LEMMA AutoRestartStep ==
  ASSUME IndInv, AutoRestart
  PROVE  IndInv'
<1> USE FilesBegin DEF IndInv, AutoRestart
<1>1. TypeOK'
  BY DEF TypeOK, LockIsHeld
<1>2. /\ LockIsHeld' /\ FromTheFirst' /\ Delivering'
      /\ DeliveredIsCanonical' /\ Copying' /\ Deploying'
      /\ Serving'
  BY DEF LockIsHeld, FromTheFirst, Delivering, DeliveredIsCanonical, Copying, Deploying, Serving
<1> QED
  BY <1>1, <1>2

\* A container that dies leaves no other release running.
LEMMA ContainerDiesStep ==
  ASSUME IndInv, ContainerDies
  PROVE  IndInv'
<1> USE FilesBegin DEF IndInv, ContainerDies
<1>1. TypeOK'
  BY DEF TypeOK, LockIsHeld
<1>2. Serving'
  BY DEF Serving, Preflight
<1>3. /\ LockIsHeld' /\ FromTheFirst' /\ Delivering'
      /\ DeliveredIsCanonical' /\ Copying' /\ Deploying'
  BY DEF LockIsHeld, FromTheFirst, Delivering, DeliveredIsCanonical, Copying, Deploying
<1> QED
  BY <1>1, <1>2, <1>3

\* After a crash nobody has the lock.
LEMMA HostCrashStep ==
  ASSUME IndInv, HostCrash
  PROVE  IndInv'
<1> USE FilesBegin DEF IndInv, HostCrash
<1>1. TypeOK'
  <2>1. job' \in [Operators -> Job]
    BY NoJobTyped DEF Job
  <2>2. clean' \in BOOLEAN /\ cut' \in BOOLEAN
    BY DEF TypeOK
  <2>3. images' \in Commits \cup {Absent}
    BY DEF TypeOK
  <2>4. /\ unit' \in Running \cup {"off", "stop", "restop", "wait", "failed"}
        /\ starts' \in 0 .. StartLimit
    OBVIOUS
  <2> QED
    BY <2>1, <2>2, <2>3, <2>4 DEF TypeOK, Job
<1>2. /\ LockIsHeld' /\ FromTheFirst' /\ Delivering'
      /\ DeliveredIsCanonical' /\ Copying' /\ Deploying'
      /\ Serving'
  BY DEF LockIsHeld, FromTheFirst, Delivering, DeliveredIsCanonical, Copying, Deploying, Serving
<1> QED
  BY <1>1, <1>2

\* Time passes.
LEMMA WindowPassesStep ==
  ASSUME IndInv, WindowPasses
  PROVE  IndInv'
<1> USE FilesBegin DEF IndInv, WindowPasses
<1>1. TypeOK'
  BY DEF TypeOK, LockIsHeld
<1>2. Serving'
  BY DEF Serving, Preflight
<1>3. /\ LockIsHeld' /\ FromTheFirst' /\ Delivering'
      /\ DeliveredIsCanonical' /\ Copying' /\ Deploying'
  BY DEF LockIsHeld, FromTheFirst, Delivering, DeliveredIsCanonical, Copying, Deploying
<1> QED
  BY <1>1, <1>2, <1>3

\* A checkout that is cleaned was not in the hands of a ready service.
LEMMA CleanCheckoutStep ==
  ASSUME IndInv, CleanCheckout
  PROVE  IndInv'
<1> USE FilesBegin DEF IndInv, CleanCheckout
<1>1. TypeOK'
  BY DEF TypeOK, LockIsHeld
<1>2. Serving'
  BY DEF Serving, Preflight
<1>3. /\ LockIsHeld' /\ FromTheFirst' /\ Delivering'
      /\ DeliveredIsCanonical' /\ Copying' /\ Deploying'
  BY DEF LockIsHeld, FromTheFirst, Delivering, DeliveredIsCanonical, Copying, Deploying
<1> QED
  BY <1>1, <1>2, <1>3

\* Every step keeps the invariant.
LEMMA StepInv == IndInv /\ [Next]_vars => IndInv'
<1> SUFFICES ASSUME IndInv, [Next]_vars PROVE IndInv'
  OBVIOUS
<1>1. CASE UNCHANGED vars
  BY <1>1 DEF vars, IndInv, TypeOK, LockIsHeld, FromTheFirst, Delivering, DeliveredIsCanonical,
     Copying, Deploying, Serving, Preflight
<1>2. ASSUME NEW o \in Operators, ToolStep(o) PROVE IndInv'
  BY <1>2, ReplaceFileStep, ValidateStep, CheckoutStep, CopyFileStep, BuildStep, UpStep,
     ReadyToRecordStep, RecordStep, WritePinStep, EnableStep, RestartUnitStep, ToolFailsStep DEF
     ToolStep
<1>3. ASSUME NEW o \in Operators, NEW set \in Sets, Deliver(o, set) PROVE IndInv'
  BY <1>3, DeliverStep
<1>4. ASSUME NEW o \in Operators, NEW commit \in Commits, Deploy(o, commit) \/ Install(o, commit)
      PROVE  IndInv'
  BY <1>4, DeployStep, InstallStep
<1>5. CASE StartStep
  BY <1>5, CheckStep, ServeLockStep, ServeUpStep, NotifyStep, ServiceFailsStep DEF StartStep
<1>6. CASE Supervise \/ Stop \/ AutoRestart \/ ContainerDies \/ HostCrash \/ WindowPasses \/ CleanCheckout
  BY <1>6, SuperviseStep, StopStep, AutoRestartStep, ContainerDiesStep, HostCrashStep,
     WindowPassesStep, CleanCheckoutStep
<1> QED
  BY <1>1, <1>2, <1>3, <1>4, <1>5, <1>6 DEF Next

\* The conjuncts hold together in every reachable state.
LEMMA Invariance == Spec => []IndInv
  BY InitInv, StepInv, PTL DEF Spec

----------------------------------------------------------------------------
\* Every variable keeps its type: the locks' holder, the tools and the unit are
\* always in a stage deploy.py, install-service.py and service.py have.
THEOREM LabTypeOK == Spec => []TypeOK
<1>1. IndInv => TypeOK
  BY DEF IndInv
<1> QED
  BY <1>1, Invariance, PTL

\* secret-transfer.py: between deliveries the canonical directory has the files of
\* the last delivery that passed, and no other tool changes them.
THEOREM LabDelivered == Spec => []DeliveredIsCanonical
<1>1. IndInv => DeliveredIsCanonical
  BY DEF IndInv
<1> QED
  BY <1>1, Invariance, PTL

\* deploy.py: a deployment records a release only when the runtime files in the
\* checkout are, one by one, those it validated.
THEOREM LabInstalled == Spec => InstalledIsValidated
<1>1. IndInv /\ [Next]_vars =>
        [\A o \in Operators : Recording(o) =>
           \A f \in Files : job[o].validated[f] # Absent => target[f] = job[o].validated[f]]_vars
  BY DEF IndInv, Copying, Recording
<1> QED
  BY <1>1, Invariance, PTL DEF Spec, InstalledIsValidated

\* deploy.py: a recorded release is the one checked out and built, and no service
\* runs another.
THEOREM LabRecorded == Spec => RecordedIsInstalled
<1>1. IndInv /\ [Next]_vars =>
        [\A o \in Operators : Recording(o) =>
           head = record' /\ images = record' /\ running \in {record', Down}]_vars
  BY DEF IndInv, Deploying, Recording
<1> QED
  BY <1>1, Invariance, PTL DEF Spec, RecordedIsInstalled

\* Only Notify reports READY.
LEMMA OnlyNotify == Next /\ Notifying => Notify
<1> SUFFICES ASSUME Next, unit = "ready", unit' = "active" PROVE Notify
  BY DEF Notifying
<1>1. ASSUME NEW o \in Operators, ToolStep(o) PROVE FALSE
  BY <1>1 DEF ToolStep, ReplaceFile, Validate, Checkout, CopyFile, Build, Up, ReadyToRecord,
     Record, WritePin, Enable, RestartUnit, ToolFails, vars
<1>2. ASSUME NEW o \in Operators, NEW set \in Sets, Deliver(o, set) PROVE FALSE
  BY <1>2 DEF Deliver
<1>3. ASSUME NEW o \in Operators, NEW commit \in Commits, Deploy(o, commit) \/ Install(o, commit)
      PROVE  FALSE
  BY <1>3 DEF Deploy, Install
<1> QED
  BY <1>1, <1>2, <1>3 DEF Next, StartStep, Check, ServeLock, ServeUp, ServiceFails, Supervise,
     Stop, AutoRestart, ContainerDies, HostCrash, WindowPasses, CleanCheckout

\* service.py: when the unit is ready, what preflight has checked under the lock
\* still holds, although ExecStopPost and install-service.py take no lock.
THEOREM LabReady == Spec => ReadyIsPinned
<1>1. IndInv /\ [Next]_vars =>
        [Notifying => head = loaded /\ clean /\ target \in Consistent /\ running = images]_vars
  <2>1. ASSUME IndInv, Next, Notifying
        PROVE  head = loaded /\ clean /\ target \in Consistent /\ running = images
    <3>1. running \in Commits /\ unit = "ready"
      BY <2>1, OnlyNotify DEF Notify
    <3> QED
      BY <2>1, <3>1 DEF IndInv, Serving, Preflight
  <2> QED
    BY <2>1
<1> QED
  BY <1>1, Invariance, PTL DEF Spec, ReadyIsPinned

=============================================================================

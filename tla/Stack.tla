------------------------------- MODULE Stack --------------------------------
(***************************************************************************)
(* Scale to zero: one activator process (cmd/activator) drives the         *)
(* application stack through hibernation, wake, operator restore and       *)
(* recovery (lifecycle.Coordinator, activator.Handler), over a durable     *)
(* lifecycle record, a snapshot store and an active volume.                *)
(*                                                                         *)
(* The process may crash between any two statements and be started again;  *)
(* the stack it manages keeps running meanwhile.  Every driver command may *)
(* fail, with or without having had its effect.  Data is abstracted to     *)
(* versions: each accepted write gives the volume a new version, a         *)
(* snapshot holds the version it was taken from.                           *)
(***************************************************************************)
EXTENDS LifecycleRecord

CONSTANTS WakeAttempts,    \* attempts one wake generation may spend
          Margin,          \* WakeSafetyMargin
          MaxGen,          \* bound on the fencing generation
          MaxVersion,      \* bound on accepted writes
          MaxCrashes,      \* bound on crashes and shutdowns
          MaxStoreErrors,  \* bound on failed writes of the control store
          MaxNow           \* bound on the clock

ASSUME StackAssumption ==
    /\ WakeAttempts \in Nat \ {0}
    /\ Margin \in Nat \ {0}
    /\ MaxGen \in Nat
    /\ MaxVersion \in Nat
    /\ MaxCrashes \in Nat
    /\ MaxStoreErrors \in Nat
    /\ MaxNow \in Nat

VARIABLES
    rec,        \* the durable lifecycle record; the one live process caches it
    up,         \* the activator process runs
    stopping,   \* its application context is cancelled (SIGTERM)
    drv,        \* the lifecycle operation the process is driving
    now,        \* wall clock
    published,  \* generations with a published, signed manifest
    content,    \* content[g]: the version the artifact of generation g holds
    cur,        \* generation named by current.json, 0 when there is none
    volOK,      \* the active volume holds a complete database
    volVer,     \* the version it holds
    run,        \* which parts of the stack run
    top,        \* newest version ever written
    latest,     \* history: newest write accepted since the stack last served
    consent,    \* history: an operator restore since then, "asked" for or
                \* "spent" on a volume declared complete; else "none"
    crashes, storeErrors

vars == <<rec, up, stopping, drv, now, published, content, cur, volOK, volVer,
          run, top, latest, consent, crashes, storeErrors>>

process   == <<up, stopping>>
snapshots == <<published, content, cur>>
volume    == <<volOK, volVer>>
history   == <<latest, consent>>
budget    == <<crashes, storeErrors>>

-----------------------------------------------------------------------------
Gens == 1..MaxGen

\* The stages of wakeAtManifest, in order, after the manifest was chosen.
WakeStages == {"choose", "inspect", "declare_snapshot", "restore", "restoring",
               "start_persistence", "declare_volume", "migrate",
               "start_workers", "start_servers", "activate"}

\* The stages of Hibernate, in order, after BeginHibernate.
HibernateStages == {"h_inspect", "drain_servers", "stop_workers",
                    "begin_snapshot", "stop_persistence", "create", "publish",
                    "begin_stop", "release", "complete"}

\* wake: startWake.  restore: POST /restore.  recover: Coordinator.Recover,
\* before the process serves.  hibernate: POST /hibernate.
Ops == {"none", "wake", "restore", "recover", "hibernate"}

Idle == [op |-> "none", pc |-> "idle", tries |-> 0, src |-> 0, cancelled |-> FALSE]

Drivers == [op : Ops, pc : {"idle", "error"} \cup WakeStages \cup HibernateStages,
            tries : Nat, src : Gens \cup {0}, cancelled : BOOLEAN]

Running(p, w, s) == [persistence |-> p, workers |-> w, servers |-> s]

RecordTyped    == rec \in StateRecords /\ rec.gen <= MaxGen
DriverTyped    == drv \in Drivers /\ drv.tries <= WakeAttempts
SnapshotsTyped == /\ published \subseteq Gens
                  /\ content \in [Gens -> Nat]
                  /\ cur \in Gens \cup {0}
StackTyped     == /\ volOK \in BOOLEAN /\ volVer \in Nat
                  /\ run \in [persistence : BOOLEAN, workers : BOOLEAN, servers : BOOLEAN]
                  /\ top \in Nat /\ latest \in Nat
                  /\ consent \in {"none", "asked", "spent"}
ProcessTyped   == /\ up \in BOOLEAN /\ stopping \in BOOLEAN
                  /\ now \in Nat /\ crashes \in Nat /\ storeErrors \in Nat

TypeOK == RecordTyped /\ DriverTyped /\ SnapshotsTyped /\ StackTyped /\ ProcessTyped

\* A deployment that has never run: nothing published, an empty volume.
Init ==
    /\ rec = Seed
    /\ up = FALSE /\ stopping = FALSE
    /\ drv = Idle
    /\ now = 0
    /\ published = {} /\ content = [g \in Gens |-> 0] /\ cur = 0
    /\ volOK = TRUE /\ volVer = 0
    /\ run = Running(FALSE, FALSE, FALSE)
    /\ top = 0 /\ latest = 0 /\ consent = "none"
    /\ crashes = 0 /\ storeErrors = 0

-----------------------------------------------------------------------------
(* The process: start with Recover, crash, graceful shutdown.              *)

Driving(op) == [Idle EXCEPT !.op = op, !.pc = "choose", !.tries = 1]

Hibernating == [Idle EXCEPT !.op = "hibernate", !.pc = "h_inspect"]

\* Mutant: Recover leaves an interrupted hibernation alone.
StartIgnoresHibernation ==
    /\ ~up
    /\ up' = TRUE /\ stopping' = FALSE
    /\ drv' = IF rec.state = "waking" THEN Driving("recover") ELSE drv
    /\ UNCHANGED <<rec, now, snapshots, volume, run, top, history, budget>>

\* NewPersistent and the head of Recover.  A settled record needs no work, an
\* interrupted hibernation re-enters WAKING under its own fence.
Start ==
    /\ ~up
    /\ up' = TRUE /\ stopping' = FALSE
    /\ \/ /\ rec.state \in {"active", "hibernated", "failed"}
          /\ UNCHANGED <<rec, drv>>
       \/ /\ rec.state = "waking"
          /\ drv' = Driving("recover")
          /\ UNCHANGED rec
       \/ /\ CanRecover(rec)
          /\ rec' = RecoveryBegun(rec)
          /\ drv' = Driving("recover")
    /\ UNCHANGED <<now, snapshots, volume, run, top, history, budget>>

\* The process dies; what it was driving is gone, what it started is not.
Exit ==
    /\ up' = FALSE /\ stopping' = FALSE /\ drv' = Idle

Crash ==
    /\ up /\ crashes < MaxCrashes
    /\ crashes' = crashes + 1
    /\ Exit
    /\ UNCHANGED <<rec, now, snapshots, volume, run, top, history, storeErrors>>

\* SIGTERM cancels the application context.
Shutdown ==
    /\ up /\ ~stopping /\ crashes < MaxCrashes
    /\ crashes' = crashes + 1
    /\ stopping' = TRUE
    /\ UNCHANGED <<rec, up, drv, now, snapshots, volume, run, top, history, storeErrors>>

\* A stopping process that serves returns from main after server.Shutdown,
\* whatever /restore or /hibernate goroutine is still running.
ShutdownComplete ==
    /\ up /\ stopping /\ drv.op # "recover"
    /\ Exit
    /\ UNCHANGED <<rec, now, snapshots, volume, run, top, history, budget>>

-----------------------------------------------------------------------------
(* The operations a serving process accepts.                               *)

Serving == up /\ ~stopping /\ drv.op # "recover"

\* ensureActive, activate and Wake: BeginWake won, startWake drives it.
BeginWake ==
    /\ Serving /\ CanWake(rec) /\ rec.gen < MaxGen
    /\ rec' = WakeBegun(rec)
    /\ drv' = Driving("wake")
    /\ UNCHANGED <<process, now, snapshots, volume, run, top, history, budget>>

RequestWake == BeginWake

\* Mutant: the wake loop reads the clock once, when the process starts.
WakeByFirstClock ==
    /\ rec.deadline # 0 /\ rec.deadline <= Margin
    /\ BeginWake

\* scheduledWakeLoop: the deadline is inside the margin, or past.
ScheduledWake == /\ rec.deadline # 0 /\ rec.deadline <= now + Margin
                 /\ BeginWake

\* recoverHandler: POST /recover.
AcknowledgeFailure ==
    /\ Serving /\ CanAcknowledge(rec) /\ rec.gen < MaxGen
    /\ rec' = FailureAcknowledged(rec)
    /\ UNCHANGED <<process, drv, now, snapshots, volume, run, top, history, budget>>

\* restoreHandler: POST /restore?generation=g.
OperatorRestore(g) ==
    /\ Serving /\ CanOperatorRestore(rec) /\ rec.gen < MaxGen
    /\ rec' = OperatorRestoreBegun(rec, g)
    /\ drv' = Driving("restore")
    /\ consent' = "asked"
    /\ UNCHANGED <<process, now, snapshots, volume, run, top, latest, budget>>

\* hibernateHandler and the head of Hibernate: refused while a deadline that is
\* still to come falls inside the margin.
BeginHibernate ==
    /\ Serving /\ rec.state = "active" /\ rec.gen < MaxGen
    /\ ~(rec.deadline > now /\ rec.deadline <= now + Margin)
    /\ rec' = HibernateBegun(rec)
    /\ drv' = Hibernating
    /\ UNCHANGED <<process, now, snapshots, volume, run, top, history, budget>>

\* wakeDeadlineHandler with the current fence; 0 clears the hint.
SetWakeDeadline(d) ==
    /\ Serving
    /\ rec' = DeadlineSet(rec, d)
    /\ UNCHANGED <<process, drv, now, snapshots, volume, run, top, history, budget>>

-----------------------------------------------------------------------------
(* Driver stages.                                                          *)

At(pc)    == up /\ drv.pc = pc
Goto(pc)  == drv' = [drv EXCEPT !.pc = pc]

\* A stage returns an error: its own, or the cancellation of the application
\* context.  /restore and /hibernate run under context.Background().
Erred ==
    \E c \in BOOLEAN :
       /\ c => stopping /\ drv.op \in {"wake", "recover"}
       /\ drv' = [drv EXCEPT !.pc = "error", !.cancelled = c]

\* WakeAt and RestoreAt: the copy to start from.  The volume when it has
\* authority, else current.json if it is not newer than the fence; exactly the
\* operator's generation when one is selected.  Reading a manifest may fail.
Choose ==
    /\ At("choose")
    /\ \/ /\ rec.rg = 0 /\ ~rec.sa
          /\ drv' = [drv EXCEPT !.pc = "inspect", !.src = 0]
       \/ /\ rec.rg = 0 /\ rec.sa /\ cur # 0 /\ cur <= rec.gen
          /\ drv' = [drv EXCEPT !.pc = "inspect", !.src = cur]
       \/ /\ rec.rg # 0 /\ rec.rg \in published
          /\ drv' = [drv EXCEPT !.pc = "inspect", !.src = rec.rg]
       \/ /\ rec.rg # 0 \/ rec.sa
          /\ Erred
    /\ UNCHANGED <<rec, process, now, snapshots, volume, run, top, history, budget>>

Inspect ==
    /\ At("inspect")
    /\ \/ Goto(IF drv.src = 0 THEN "start_persistence" ELSE "declare_snapshot")
       \/ Erred
    /\ UNCHANGED <<rec, process, now, snapshots, volume, run, top, history, budget>>

\* Mutant: the restore starts before the record says so.
RestoreUndeclared ==
    /\ At("declare_snapshot")
    /\ Goto("restore")
    /\ UNCHANGED <<rec, process, now, snapshots, volume, run, top, history, budget>>

\* DeclareSnapshotAuthoritative: from here the volume may be half written.
DeclareSnapshot ==
    /\ At("declare_snapshot")
    /\ rec' = SnapshotDeclared(rec)
    /\ Goto("restore")
    /\ UNCHANGED <<process, now, snapshots, volume, run, top, history, budget>>

\* Snapshots.Restore up to its first write: an incompatible backend or schema,
\* a failed verification or an unreachable store refuses with nothing written.
RestoreBegin ==
    /\ At("restore")
    /\ \/ Goto("restoring") /\ volOK' = FALSE
       \/ Erred /\ UNCHANGED volOK
    /\ UNCHANGED <<rec, process, now, snapshots, volVer, run, top, history, budget>>

\* ... and its end: the volume replaced, or left incomplete.
RestoreEnd ==
    /\ At("restoring")
    /\ \/ /\ Goto("start_persistence")
          /\ volOK' = TRUE /\ volVer' = content[drv.src]
       \/ Erred /\ UNCHANGED volume
    /\ UNCHANGED <<rec, process, now, snapshots, run, top, history, budget>>

StartPersistence ==
    /\ At("start_persistence")
    /\ \/ Goto("declare_volume") /\ run' = [run EXCEPT !.persistence = TRUE]
       \/ Erred /\ run' \in {run, [run EXCEPT !.persistence = TRUE]}
    /\ UNCHANGED <<rec, process, now, snapshots, volume, top, history, budget>>

\* DeclareVolumeAuthoritative: the volume is complete and about to be written.
DeclareVolume ==
    /\ At("declare_volume")
    /\ rec' = VolumeDeclared(rec)
    /\ Goto("migrate")
    /\ consent' = IF rec.rg # 0 THEN "spent" ELSE consent
    /\ UNCHANGED <<process, now, snapshots, volume, run, top, latest, budget>>

\* The next version of the data is written to the volume.
Written == /\ top < MaxVersion
           /\ top' = top + 1 /\ volVer' = top + 1 /\ latest' = top + 1
           /\ UNCHANGED <<volOK, consent>>

\* RunMigration: pending migrations, if any, write.
Migrate ==
    /\ At("migrate")
    /\ Goto("start_workers") \/ Erred
    /\ Written \/ UNCHANGED <<top, volume, history>>
    /\ UNCHANGED <<rec, process, now, snapshots, run, budget>>

StartWorkers ==
    /\ At("start_workers")
    /\ \/ Goto("start_servers") /\ run' = [run EXCEPT !.workers = TRUE]
       \/ Erred /\ run' \in {run, [run EXCEPT !.workers = TRUE]}
    /\ UNCHANGED <<rec, process, now, snapshots, volume, top, history, budget>>

StartServers ==
    /\ At("start_servers")
    /\ \/ Goto("activate") /\ run' = [run EXCEPT !.servers = TRUE]
       \/ Erred /\ run' \in {run, [run EXCEPT !.servers = TRUE]}
    /\ UNCHANGED <<rec, process, now, snapshots, volume, top, history, budget>>

\* The stack serves: what it serves is the newest data from here on.
Activate ==
    /\ At("activate")
    /\ rec' = Activated(rec, now)
    /\ drv' = Idle
    /\ latest' = volVer /\ consent' = "none"
    /\ UNCHANGED <<process, now, snapshots, volume, run, top, budget>>

-----------------------------------------------------------------------------
HibernateInspect ==
    /\ At("h_inspect")
    /\ Goto("drain_servers") \/ Erred
    /\ UNCHANGED <<rec, process, now, snapshots, volume, run, top, history, budget>>

DrainServers ==
    /\ At("drain_servers")
    /\ \/ Goto("stop_workers") /\ run' = [run EXCEPT !.servers = FALSE]
       \/ Erred /\ run' \in {run, [run EXCEPT !.servers = FALSE]}
    /\ UNCHANGED <<rec, process, now, snapshots, volume, top, history, budget>>

StopWorkers ==
    /\ At("stop_workers")
    /\ \/ Goto("begin_snapshot") /\ run' = [run EXCEPT !.workers = FALSE]
       \/ Erred /\ run' \in {run, [run EXCEPT !.workers = FALSE]}
    /\ UNCHANGED <<rec, process, now, snapshots, volume, top, history, budget>>

BeginSnapshot ==
    /\ At("begin_snapshot")
    /\ rec' = SnapshotBegun(rec)
    /\ Goto("stop_persistence")
    /\ UNCHANGED <<process, now, snapshots, volume, run, top, history, budget>>

StopPersistence ==
    /\ At("stop_persistence")
    /\ \/ Goto("create") /\ run' = [run EXCEPT !.persistence = FALSE]
       \/ Erred /\ run' \in {run, [run EXCEPT !.persistence = FALSE]}
    /\ UNCHANGED <<rec, process, now, snapshots, volume, top, history, budget>>

\* SnapshotManager.Create: archive the volume, verify the artifact, publish the
\* signed manifest of this generation.  A generation that is not newer than
\* current.json is refused.
CreateSnapshot ==
    /\ At("create")
    /\ \/ /\ cur < rec.gen
          /\ published' = published \cup {rec.gen}
          /\ content' = [content EXCEPT ![rec.gen] = volVer]
          /\ Goto("publish")
       \/ Erred /\ UNCHANGED <<published, content>>
    /\ UNCHANGED <<rec, process, now, cur, volume, run, top, history, budget>>

\* Mutant: the manifest is published and never selected as current.
PublishWithoutSelecting ==
    /\ At("publish")
    /\ Goto("begin_stop") \/ Erred
    /\ UNCHANGED <<rec, process, now, snapshots, volume, run, top, history, budget>>

\* The last write of publishManifest: current.json names the generation.  A
\* put that reports an error may have been applied.
PublishCurrent ==
    /\ At("publish")
    /\ \/ Goto("begin_stop") /\ cur' = rec.gen
       \/ Erred /\ cur' \in {cur, rec.gen}
    /\ UNCHANGED <<rec, process, now, published, content, volume, run, top, history, budget>>

BeginStop ==
    /\ At("begin_stop")
    /\ rec' = StopBegun(rec)
    /\ Goto("release")
    /\ UNCHANGED <<process, now, snapshots, volume, run, top, history, budget>>

\* ReleaseActiveStorage may delete the volume, completely or not.
ReleaseActiveStorage ==
    /\ At("release")
    /\ Goto("complete") \/ Erred
    /\ volOK' \in {volOK, FALSE}
    /\ UNCHANGED <<rec, process, now, snapshots, volVer, run, top, history, budget>>

CompleteHibernate ==
    /\ At("complete")
    /\ rec' = HibernateCompleted(rec)
    /\ drv' = Idle
    /\ UNCHANGED <<process, now, snapshots, volume, run, top, history, budget>>

-----------------------------------------------------------------------------
(* The ends of a failed operation.                                         *)

Retrying == [Driving("wake") EXCEPT !.tries = drv.tries + 1]

\* Mutants: an attempt too many, and no attempt budget at all.
RetryOnceMore ==
    /\ At("error") /\ drv.op = "wake" /\ ~stopping
    /\ drv.tries <= WakeAttempts
    /\ drv' = Retrying
    /\ UNCHANGED <<rec, process, now, snapshots, volume, run, top, history, budget>>

RetryForever ==
    /\ At("error") /\ drv.op = "wake" /\ ~stopping
    /\ drv' = Driving("wake")
    /\ UNCHANGED <<rec, process, now, snapshots, volume, run, top, history, budget>>

\* driveWake: another attempt under the same fence, while the budget lasts.
RetryWake ==
    /\ At("error") /\ drv.op = "wake" /\ ~stopping
    /\ drv.tries < WakeAttempts
    /\ drv' = Retrying
    /\ UNCHANGED <<rec, process, now, snapshots, volume, run, top, history, budget>>

\* startWake: a wake interrupted by shutdown is abandoned in WAKING.
AbandonWake ==
    /\ At("error") /\ drv.op = "wake" /\ stopping
    /\ drv' = Idle
    /\ UNCHANGED <<rec, process, now, snapshots, volume, run, top, history, budget>>

\* startWake, restoreHandler and Hibernate: Fail ends the attempt.
FailAttempt ==
    /\ At("error")
    /\ \/ drv.op = "wake" /\ ~stopping /\ drv.tries = WakeAttempts
       \/ drv.op \in {"restore", "hibernate"}
    /\ rec' = Failed(rec)
    /\ drv' = Idle
    /\ UNCHANGED <<process, now, snapshots, volume, run, top, history, budget>>

\* Recover: Fail, and main returns.
FailRecovery ==
    /\ At("error") /\ drv.op = "recover"
    /\ rec' = Failed(rec)
    /\ Exit
    /\ UNCHANGED <<now, snapshots, volume, run, top, history, budget>>

\* The control store refuses a write.  A refused Activate or Fail is only
\* returned to the caller: the record stays where it is, nobody drives it, and
\* only a process that was still recovering exits.
StoreWrites == {"declare_snapshot", "declare_volume", "begin_snapshot",
                "begin_stop", "complete", "activate", "error"}
StoreError ==
    /\ up /\ storeErrors < MaxStoreErrors
    /\ storeErrors' = storeErrors + 1
    /\ drv.pc \in StoreWrites
    /\ drv.pc \notin {"activate", "error"} => Erred /\ UNCHANGED process
    /\ drv.pc \in {"activate", "error"} =>
          /\ drv.pc = "error" /\ drv.op = "wake" =>
                ~stopping /\ drv.tries = WakeAttempts
          /\ IF drv.op = "recover" THEN Exit
             ELSE drv' = Idle /\ UNCHANGED process
    /\ UNCHANGED <<rec, now, snapshots, volume, run, top, history, crashes>>

-----------------------------------------------------------------------------
(* The running stack and the clock.                                        *)

Write ==
    /\ run.persistence /\ volOK
    /\ run.workers \/ run.servers
    /\ Written
    /\ UNCHANGED <<rec, process, drv, now, snapshots, run, budget>>

Tick ==
    /\ now < MaxNow
    /\ now' = now + 1
    /\ UNCHANGED <<rec, process, drv, snapshots, volume, run, top, history, budget>>

Drive ==
    \/ Choose \/ Inspect \/ DeclareSnapshot \/ RestoreBegin \/ RestoreEnd
    \/ StartPersistence \/ DeclareVolume \/ Migrate \/ StartWorkers
    \/ StartServers \/ Activate
    \/ HibernateInspect \/ DrainServers \/ StopWorkers \/ BeginSnapshot
    \/ StopPersistence \/ CreateSnapshot \/ PublishCurrent \/ BeginStop
    \/ ReleaseActiveStorage \/ CompleteHibernate
    \/ RetryWake \/ AbandonWake \/ FailAttempt \/ FailRecovery

Next ==
    \/ Start \/ Crash \/ Shutdown \/ ShutdownComplete
    \/ RequestWake \/ ScheduledWake \/ AcknowledgeFailure
    \/ \E g \in Gens : OperatorRestore(g)
    \/ BeginHibernate
    \/ \E d \in 0..MaxNow : SetWakeDeadline(d)
    \/ Drive \/ StoreError \/ Write \/ Tick

Spec == Init /\ [][Next]_vars

\* A driver goroutine runs whenever it can; the supervisor restarts a dead
\* activator; a stopping one exits; the wake loop ticks and so does the clock.
Fairness == /\ WF_vars(Drive) /\ WF_vars(Start) /\ WF_vars(ShutdownComplete)
            /\ WF_vars(ScheduledWake) /\ WF_vars(Tick)

FairSpec == Spec /\ Fairness

-----------------------------------------------------------------------------
(* Safety.                                                                 *)

Stopped == ~run.workers /\ ~run.servers

\* Unless an operator asked for a restore since the stack last served, the copy
\* the record calls authoritative holds every accepted write: a crash, a failed
\* command, a retry or an acknowledged failure at any point of Hibernate, WakeAt
\* and Recover loses nothing.
NothingLost ==
    consent = "none" =>
        IF rec.sa THEN cur \in published /\ content[cur] = latest
                  ELSE volVer = latest

\* While the record gives the volume authority, the volume is a complete
\* database: the wake path that restores nothing never starts persistence on a
\* released or half-written volume, not even after an operator restore.
VolumeAuthorityIsComplete == ~rec.sa => volOK

\* While the record gives the snapshot authority, no worker and no server runs,
\* so nothing is written that the next restore would destroy.
NoWriterUnderSnapshotAuthority == consent = "none" /\ rec.sa => Stopped

\* Traffic is routed only to ACTIVE, and ACTIVE is never a partly restored or
\* partly started stack.
ActiveIsWhole ==
    rec.state = "active" =>
        volOK /\ ~rec.sa /\ run.persistence /\ run.workers /\ run.servers

\* The data stay sound through every stage: the volume the record trusts is a
\* complete database, nothing writes to one about to be overwritten, and what the
\* record calls ACTIVE is a whole running stack.
CopiesAreSound ==
    VolumeAuthorityIsComplete /\ NoWriterUnderSnapshotAuthority /\ ActiveIsWhole

\* An operator's selection never outlives its attempt: no HIBERNATED or FAILED
\* record can turn the next request into a restore.
ConsentScoped == rec.rg # 0 => rec.state = "waking"

\* Published manifests are immutable and current.json never moves back, through
\* any crash between the two writes of publishManifest.
PublishedImmutable ==
    [][ /\ published \subseteq published'
        /\ \A g \in published : content'[g] = content[g]
        /\ cur <= cur' ]_vars

\* No transition of the record drops a wake deadline that is still to come.
DeadlineCarried ==
    [][rec'.state # rec.state /\ rec.deadline > now
          => rec'.deadline = rec.deadline]_vars

-----------------------------------------------------------------------------
(* Refinement: the copy that has authority is one durable copy of the data. *)

\* The version held by the copy the next wake starts from.
AuthoritativeVersion ==
    IF ~rec.sa THEN volVer ELSE IF cur = 0 THEN 0 ELSE content[cur]

Durable == INSTANCE DurableCopy WITH
    copy <- AuthoritativeVersion, newest <- top, override <- (consent # "none")

\* Hibernation, wake, retry, failure, acknowledgement, crash and recovery move
\* authority between volume and snapshot and never change the data it covers.
ImplementsDurableCopy == Durable!Spec

-----------------------------------------------------------------------------
(* Liveness.                                                               *)

\* A failed write of the control store leaves the record as it is until a
\* request or an operator moves it on: the properties below are about the rest.
StoreFailed == storeErrors > 0

\* Bounded attempts: every wake ends in ACTIVE or FAILED, across crashes.
WakeSettles ==
    rec.state = "waking" ~> rec.state \in {"active", "failed"} \/ StoreFailed

\* An interrupted hibernation does not linger in an intermediate state.
HibernationSettles ==
    CanRecover(rec) ~> rec.state \in {"hibernated", "failed", "active"} \/ StoreFailed

\* A published deadline wakes a hibernated stack with no request at all: when the
\* clock has brought it inside the margin, and also once it has passed.
DeadlineWakes ==
    \A d \in 1..MaxNow :
        rec.state = "hibernated" /\ rec.deadline = d
            ~> rec.state # "hibernated" \/ rec.deadline # d \/ rec.gen = MaxGen \/ StoreFailed

-----------------------------------------------------------------------------
(* The inductive invariant behind the safety properties.                   *)

\* Which record a driver stands on.
PhaseInv ==
    /\ rec.gen = 0 => rec.state = "hibernated"
    /\ drv.pc \in {"declare_snapshot", "restore", "restoring"} => drv.src # 0
    /\ drv.pc = "idle" <=> drv.op = "none"
    /\ ~up => drv.op = "none"
    /\ drv.op \in {"wake", "restore", "recover"} => rec.state = "waking"
    /\ drv.op = "hibernate" => CanRecover(rec)
    /\ drv.pc \in WakeStages => drv.op \in {"wake", "restore", "recover"}
    /\ drv.pc \in HibernateStages => drv.op = "hibernate"
    /\ drv.pc \in {"h_inspect", "drain_servers", "stop_workers", "begin_snapshot"}
         => rec.state = "quiescing"
    /\ drv.pc \in {"stop_persistence", "create", "publish", "begin_stop"}
         => rec.state = "snapshotting"
    /\ drv.pc \in {"release", "complete"} => rec.state = "stopping"

\* Snapshots never run ahead of the fence, and a hibernation has a fresh one.
SnapshotInv ==
    /\ cur # 0 => cur \in published
    /\ \A g \in published : g <= rec.gen
    /\ drv.pc \in {"h_inspect", "drain_servers", "stop_workers", "begin_snapshot",
                   "stop_persistence", "create"} => rec.gen \notin published

\* No copy holds a version that was never written.
VersionInv ==
    /\ volVer <= top
    /\ \A g \in Gens : content[g] <= top

\* What each state says about authority and consent.
AuthorityInv ==
    /\ rec.state \in {"active", "quiescing", "snapshotting"} => ~rec.sa
    /\ rec.state = "stopping" => rec.sa
    /\ rec.state \in {"active", "quiescing", "snapshotting", "stopping"} => consent = "none"
    /\ consent = "none" => rec.rg = 0

\* What each stage of a wake has established.
WakeInv ==
    /\ drv.pc \in {"inspect", "declare_snapshot", "restore", "restoring",
                   "start_persistence", "declare_volume"} =>
          IF drv.src = 0 THEN ~rec.sa
          ELSE drv.src \in published /\ (consent = "none" => rec.sa /\ drv.src = cur)
    /\ drv.pc \in {"restore", "restoring"} => rec.sa
    /\ drv.pc \in {"start_persistence", "declare_volume"} =>
          volOK /\ (consent = "none" => volVer = latest)
    /\ drv.pc \in {"migrate", "start_workers", "start_servers", "activate"} => ~rec.sa
    /\ drv.pc \in {"declare_volume", "migrate", "start_workers", "start_servers", "activate"}
          => run.persistence
    /\ drv.pc \in {"start_servers", "activate"} => run.workers
    /\ drv.pc = "activate" => run.servers

\* What each stage of a hibernation has established.
HibernateInv ==
    /\ drv.pc \in {"stop_workers", "begin_snapshot", "stop_persistence", "create",
                   "publish", "begin_stop"} => ~run.servers
    /\ drv.pc \in {"begin_snapshot", "stop_persistence", "create", "publish",
                   "begin_stop"} => ~run.workers
    /\ drv.pc \in {"publish", "begin_stop"} =>
          rec.gen \in published /\ content[rec.gen] = volVer
    /\ drv.pc = "begin_stop" => cur = rec.gen

\* The record and the driver.
ControlInv  == PhaseInv /\ AuthorityInv /\ ConsentScoped
\* The copies.
CopiesInv   == SnapshotInv /\ VersionInv
\* The stages.
ProgressInv == WakeInv /\ HibernateInv
\* The properties themselves.
SafetyInv   == /\ NothingLost /\ VolumeAuthorityIsComplete
               /\ NoWriterUnderSnapshotAuthority /\ ActiveIsWhole

Inv == TypeOK /\ ControlInv /\ CopiesInv /\ ProgressInv /\ SafetyInv

-----------------------------------------------------------------------------
(* What comments of the code say and the code does not do.                 *)

\* An ordinary wake never writes a snapshot over a complete, newer volume.
OrdinaryWakeKeepsNewerVolume ==
    drv.pc = "restore" /\ rec.rg = 0 /\ volOK => volVer <= content[drv.src]
=============================================================================

---------------------------- MODULE StackProofs -----------------------------
(***************************************************************************)
(* Proofs about Stack for every bound, every number of attempts and every  *)
(* margin: typing, the data-safety invariants, what publication keeps, the *)
(* wake deadline, and that Stack implements DurableCopy.                   *)
(***************************************************************************)
EXTENDS Stack, TLAPS

-----------------------------------------------------------------------------
(* The fields of every successor record: the facts used below in place of *)
(* the definitions of LifecycleRecord.                                     *)

\* SetWakeDeadline changes the deadline and nothing else.
LEMMA DeadlineSetFacts ==
    ASSUME NEW r \in StateRecords, NEW d \in Nat
    PROVE  /\ DeadlineSet(r, d) \in StateRecords
           /\ DeadlineSet(r, d).state = r.state
           /\ DeadlineSet(r, d).gen = r.gen
           /\ DeadlineSet(r, d).deadline = d
           /\ DeadlineSet(r, d).sa = r.sa
           /\ DeadlineSet(r, d).rg = r.rg
BY DEF StateRecords, States, DeadlineSet

\* BeginWake: a new fence with no consent; authority and deadline are carried.
LEMMA WakeBegunFacts ==
    ASSUME NEW r \in StateRecords
    PROVE  /\ WakeBegun(r) \in StateRecords
           /\ WakeBegun(r).state = "waking"
           /\ WakeBegun(r).gen = r.gen + 1
           /\ WakeBegun(r).deadline = r.deadline
           /\ WakeBegun(r).sa = r.sa
           /\ WakeBegun(r).rg = 0
<1> DEFINE next == r.gen + 1
<1>1. next \in Nat
  BY DEF StateRecords
<1> HIDE DEF next
<1> DEFINE s == [r EXCEPT !.state = "waking", !.gen = next, !.rg = 0]
<1>2. /\ s \in StateRecords
      /\ s.state = "waking"
      /\ s.gen = next
      /\ s.deadline = r.deadline
      /\ s.sa = r.sa
      /\ s.rg = 0
  BY <1>1 DEF StateRecords, States
<1> QED
  BY <1>2 DEF next, WakeBegun

\* AcknowledgeFailure: a new fence; authority and deadline are carried.
LEMMA FailureAcknowledgedFacts ==
    ASSUME NEW r \in StateRecords
    PROVE  /\ FailureAcknowledged(r) \in StateRecords
           /\ FailureAcknowledged(r).state = "hibernated"
           /\ FailureAcknowledged(r).gen = r.gen + 1
           /\ FailureAcknowledged(r).deadline = r.deadline
           /\ FailureAcknowledged(r).sa = r.sa
           /\ FailureAcknowledged(r).rg = 0
<1> DEFINE next == r.gen + 1
<1>1. next \in Nat
  BY DEF StateRecords
<1> HIDE DEF next
<1> DEFINE s == [r EXCEPT !.state = "hibernated", !.gen = next, !.rg = 0]
<1>2. /\ s \in StateRecords
      /\ s.state = "hibernated"
      /\ s.gen = next
      /\ s.deadline = r.deadline
      /\ s.sa = r.sa
      /\ s.rg = 0
  BY <1>1 DEF StateRecords, States
<1> QED
  BY <1>2 DEF next, FailureAcknowledged

\* BeginOperatorRestore: a new fence that names g; authority is carried.
LEMMA OperatorRestoreBegunFacts ==
    ASSUME NEW r \in StateRecords, NEW g \in Nat
    PROVE  /\ OperatorRestoreBegun(r, g) \in StateRecords
           /\ OperatorRestoreBegun(r, g).state = "waking"
           /\ OperatorRestoreBegun(r, g).gen = r.gen + 1
           /\ OperatorRestoreBegun(r, g).deadline = r.deadline
           /\ OperatorRestoreBegun(r, g).sa = r.sa
           /\ OperatorRestoreBegun(r, g).rg = g
<1> DEFINE next == r.gen + 1
<1>1. next \in Nat
  BY DEF StateRecords
<1> HIDE DEF next
<1> DEFINE s == [r EXCEPT !.state = "waking", !.gen = next, !.rg = g]
<1>2. /\ s \in StateRecords
      /\ s.state = "waking"
      /\ s.gen = next
      /\ s.deadline = r.deadline
      /\ s.sa = r.sa
      /\ s.rg = g
  BY <1>1 DEF StateRecords, States
<1> QED
  BY <1>2 DEF next, OperatorRestoreBegun

\* DeclareSnapshotAuthoritative changes authority and nothing else.
LEMMA SnapshotDeclaredFacts ==
    ASSUME NEW r \in StateRecords
    PROVE  /\ SnapshotDeclared(r) \in StateRecords
           /\ SnapshotDeclared(r).state = r.state
           /\ SnapshotDeclared(r).gen = r.gen
           /\ SnapshotDeclared(r).deadline = r.deadline
           /\ SnapshotDeclared(r).sa = TRUE
           /\ SnapshotDeclared(r).rg = r.rg
BY DEF StateRecords, States, SnapshotDeclared

\* DeclareVolumeAuthoritative changes authority and nothing else.
LEMMA VolumeDeclaredFacts ==
    ASSUME NEW r \in StateRecords
    PROVE  /\ VolumeDeclared(r) \in StateRecords
           /\ VolumeDeclared(r).state = r.state
           /\ VolumeDeclared(r).gen = r.gen
           /\ VolumeDeclared(r).deadline = r.deadline
           /\ VolumeDeclared(r).sa = FALSE
           /\ VolumeDeclared(r).rg = r.rg
BY DEF StateRecords, States, VolumeDeclared

\* BeginRecovery keeps fence, authority and consent.
LEMMA RecoveryBegunFacts ==
    ASSUME NEW r \in StateRecords
    PROVE  /\ RecoveryBegun(r) \in StateRecords
           /\ RecoveryBegun(r).state = "waking"
           /\ RecoveryBegun(r).gen = r.gen
           /\ RecoveryBegun(r).deadline = r.deadline
           /\ RecoveryBegun(r).sa = r.sa
           /\ RecoveryBegun(r).rg = r.rg
BY DEF StateRecords, States, RecoveryBegun

\* Activate settles authority and consent; the deadline is kept or met.
LEMMA ActivatedFacts ==
    ASSUME NEW r \in StateRecords, NEW t \in Nat
    PROVE  /\ Activated(r, t) \in StateRecords
           /\ Activated(r, t).state = "active"
           /\ Activated(r, t).gen = r.gen
           /\ Activated(r, t).deadline \in {0, r.deadline}
           /\ r.deadline > t => Activated(r, t).deadline = r.deadline
           /\ Activated(r, t).sa = FALSE
           /\ Activated(r, t).rg = 0
<1> DEFINE d == IF r.deadline # 0 /\ r.deadline <= t THEN 0 ELSE r.deadline
           s == [r EXCEPT !.state = "active", !.sa = FALSE, !.rg = 0, !.deadline = d]
<1>1. r.deadline \in Nat
  BY DEF StateRecords
<1>2. d \in Nat /\ d \in {0, r.deadline} /\ (r.deadline > t => d = r.deadline)
  BY <1>1
<1> HIDE DEF d
<1>3. /\ s \in StateRecords /\ s.state = "active" /\ s.gen = r.gen /\ s.deadline = d
      /\ s.sa = FALSE /\ s.rg = 0
  BY <1>2 DEF StateRecords, States
<1>4. Activated(r, t) = s
  BY DEF Activated, d
<1> HIDE DEF s
<1> QED
  BY <1>2, <1>3, <1>4

\* BeginHibernate: a new fence; everything else is carried.
LEMMA HibernateBegunFacts ==
    ASSUME NEW r \in StateRecords
    PROVE  /\ HibernateBegun(r) \in StateRecords
           /\ HibernateBegun(r).state = "quiescing"
           /\ HibernateBegun(r).gen = r.gen + 1
           /\ HibernateBegun(r).deadline = r.deadline
           /\ HibernateBegun(r).sa = r.sa
           /\ HibernateBegun(r).rg = r.rg
<1> DEFINE next == r.gen + 1
<1>1. next \in Nat
  BY DEF StateRecords
<1> HIDE DEF next
<1> DEFINE s == [r EXCEPT !.state = "quiescing", !.gen = next]
<1>2. /\ s \in StateRecords
      /\ s.state = "quiescing"
      /\ s.gen = next
      /\ s.deadline = r.deadline
      /\ s.sa = r.sa
      /\ s.rg = r.rg
  BY <1>1 DEF StateRecords, States
<1> QED
  BY <1>2 DEF next, HibernateBegun

\* BeginSnapshot changes the state and nothing else.
LEMMA SnapshotBegunFacts ==
    ASSUME NEW r \in StateRecords
    PROVE  /\ SnapshotBegun(r) \in StateRecords
           /\ SnapshotBegun(r).state = "snapshotting"
           /\ SnapshotBegun(r).gen = r.gen
           /\ SnapshotBegun(r).deadline = r.deadline
           /\ SnapshotBegun(r).sa = r.sa
           /\ SnapshotBegun(r).rg = r.rg
BY DEF StateRecords, States, SnapshotBegun

\* BeginStop grants snapshot authority.
LEMMA StopBegunFacts ==
    ASSUME NEW r \in StateRecords
    PROVE  /\ StopBegun(r) \in StateRecords
           /\ StopBegun(r).state = "stopping"
           /\ StopBegun(r).gen = r.gen
           /\ StopBegun(r).deadline = r.deadline
           /\ StopBegun(r).sa = TRUE
           /\ StopBegun(r).rg = r.rg
BY DEF StateRecords, States, StopBegun

\* CompleteHibernate changes the state and nothing else.
LEMMA HibernateCompletedFacts ==
    ASSUME NEW r \in StateRecords
    PROVE  /\ HibernateCompleted(r) \in StateRecords
           /\ HibernateCompleted(r).state = "hibernated"
           /\ HibernateCompleted(r).gen = r.gen
           /\ HibernateCompleted(r).deadline = r.deadline
           /\ HibernateCompleted(r).sa = r.sa
           /\ HibernateCompleted(r).rg = r.rg
BY DEF StateRecords, States, HibernateCompleted

\* Fail ends the consent; fence, authority and deadline are carried.
LEMMA FailedFacts ==
    ASSUME NEW r \in StateRecords
    PROVE  /\ Failed(r) \in StateRecords
           /\ Failed(r).state = "failed"
           /\ Failed(r).gen = r.gen
           /\ Failed(r).deadline = r.deadline
           /\ Failed(r).sa = r.sa
           /\ Failed(r).rg = 0
BY DEF StateRecords, States, Failed

-----------------------------------------------------------------------------
(* The driver record.                                                      *)

Stages == {"idle", "error"} \cup WakeStages \cup HibernateStages

\* A stage that hands over to the next one changes pc only.
LEMMA GotoFacts ==
    ASSUME drv \in Drivers, NEW pc \in Stages, Goto(pc)
    PROVE  /\ drv' \in Drivers
           /\ drv'.pc = pc /\ drv'.op = drv.op /\ drv'.tries = drv.tries
           /\ drv'.src = drv.src
BY DEF Goto, Drivers, Stages

\* A stage that fails moves to "error".
LEMMA ErredFacts ==
    ASSUME drv \in Drivers, Erred
    PROVE  /\ drv' \in Drivers
           /\ drv'.pc = "error" /\ drv'.op = drv.op /\ drv'.tries = drv.tries
           /\ drv'.src = drv.src
BY DEF Erred, Drivers

\* WakeAt chose the copy src.
LEMMA ChooseFacts ==
    ASSUME drv \in Drivers, NEW src \in Gens \cup {0},
           drv' = [drv EXCEPT !.pc = "inspect", !.src = src]
    PROVE  /\ drv' \in Drivers
           /\ drv'.pc = "inspect" /\ drv'.op = drv.op /\ drv'.tries = drv.tries
           /\ drv'.src = src
BY DEF Drivers, WakeStages

\* Nothing is driven.
LEMMA IdleFacts ==
    /\ Idle \in Drivers /\ Idle.op = "none" /\ Idle.pc = "idle"
    /\ Idle.tries = 0 /\ Idle.src = 0
BY DEF Idle, Drivers, Ops

\* A wake starts by choosing a copy.
LEMMA DrivingFacts ==
    ASSUME NEW op \in Ops
    PROVE  /\ Driving(op) \in Drivers /\ Driving(op).op = op
           /\ Driving(op).pc = "choose" /\ Driving(op).tries = 1
           /\ Driving(op).src = 0
BY DEF Driving, Idle, Drivers, Ops, WakeStages

\* Another attempt of a wake.
LEMMA RetryingFacts ==
    ASSUME drv \in Drivers
    PROVE  /\ Retrying \in Drivers /\ Retrying.op = "wake"
           /\ Retrying.pc = "choose" /\ Retrying.tries = drv.tries + 1
           /\ Retrying.src = 0
<1>1. drv.tries + 1 \in Nat
  BY DEF Drivers
<1>2. /\ Driving("wake") \in Drivers /\ Driving("wake").op = "wake"
      /\ Driving("wake").pc = "choose" /\ Driving("wake").src = 0
  BY DrivingFacts DEF Ops
<1> QED
  BY <1>1, <1>2 DEF Retrying, Drivers

\* A hibernation starts by inspecting the stack.
LEMMA HibernatingFacts ==
    /\ Hibernating \in Drivers /\ Hibernating.op = "hibernate"
    /\ Hibernating.pc = "h_inspect" /\ Hibernating.tries = 0
    /\ Hibernating.src = 0
BY DEF Hibernating, Idle, Drivers, Ops, HibernateStages

-----------------------------------------------------------------------------
(* Every step keeps the inductive invariant Inv.                            *)

\* The types of the fields the steps below read.
LEMMA FieldFacts ==
    ASSUME TypeOK
    PROVE  /\ rec \in StateRecords /\ rec.gen \in Nat /\ rec.rg \in Nat /\ rec.sa \in BOOLEAN
           /\ drv \in Drivers /\ drv.src \in Gens \cup {0} /\ drv.tries \in Nat /\ drv.op \in Ops
           /\ now \in Nat /\ MaxGen \in Nat /\ WakeAttempts \in Nat \ {0}
BY StackAssumption DEF TypeOK, RecordTyped, DriverTyped, ProcessTyped, StateRecords, Drivers

\* The process starts, crashes or is stopped; the control store refuses a write.
LEMMA ProcessSteps ==
    ASSUME Inv
    PROVE  (Start \/ Crash \/ Shutdown \/ ShutdownComplete \/ StoreError) =>
              Inv'
<1> USE DEF At, process, snapshots, volume, history, budget
<1>0. TypeOK /\ ControlInv /\ CopiesInv /\ ProgressInv /\ SafetyInv
  BY DEF Inv
<1>a. /\ rec \in StateRecords /\ rec.gen \in Nat /\ rec.rg \in Nat /\ rec.sa \in BOOLEAN
      /\ drv \in Drivers /\ drv.src \in Gens \cup {0} /\ drv.tries \in Nat /\ drv.op \in Ops
      /\ now \in Nat /\ MaxGen \in Nat /\ WakeAttempts \in Nat \ {0}
  BY <1>0, FieldFacts
<1>1. ASSUME Start
     PROVE  Inv'
  <2>r. /\ rec' \in StateRecords /\ rec'.gen = rec.gen /\ rec'.sa = rec.sa /\ rec'.rg = rec.rg
        /\ drv' \in Drivers
        /\ \/ /\ rec'.state = rec.state /\ rec.state \in {"active", "hibernated", "failed"}
              /\ drv' = drv
           \/ /\ rec'.state = "waking" /\ (rec.state = "waking" \/ CanRecover(rec))
              /\ drv'.op = "recover" /\ drv'.pc = "choose" /\ drv'.tries = 1 /\ drv'.src = 0
    BY <1>1, <1>a, RecoveryBegunFacts, DrivingFacts DEF Start, Ops
  <2>1. TypeOK'
    <3>1. RecordTyped'
      BY <1>0, <2>r DEF RecordTyped, TypeOK
    <3>2. DriverTyped'
      BY <1>0, <1>a, <2>r DEF DriverTyped, TypeOK
    <3>3. SnapshotsTyped'
      BY <1>1, <1>0 DEF Start, SnapshotsTyped, TypeOK
    <3>4. StackTyped'
      BY <1>1, <1>0 DEF Start, StackTyped, TypeOK
    <3>5. ProcessTyped'
      BY <1>1, <1>0 DEF Start, ProcessTyped, TypeOK
    <3> QED
      BY <3>1, <3>2, <3>3, <3>4, <3>5 DEF TypeOK
  <2>2. ControlInv'
    BY <1>1, <1>0, <2>r DEF Start, ControlInv, PhaseInv, AuthorityInv,
       ConsentScoped, CanRecover, HibernateStages
  <2>3. CopiesInv'
    BY <1>1, <1>0, <2>r DEF Start, CopiesInv, SnapshotInv, VersionInv
  <2>4. ProgressInv'
    BY <1>1, <1>0, <2>r DEF Start, ProgressInv, WakeInv, HibernateInv
  <2>5. SafetyInv'
    BY <1>1, <1>0, <2>r DEF Start, SafetyInv, NothingLost,
       VolumeAuthorityIsComplete, NoWriterUnderSnapshotAuthority,
       ActiveIsWhole, Stopped
  <2> QED
    BY <2>1, <2>2, <2>3, <2>4, <2>5 DEF Inv
<1>2. ASSUME Crash
     PROVE  Inv'
  <2>d. /\ drv' \in Drivers /\ drv'.op = "none" /\ drv'.pc = "idle"
        /\ drv'.tries = 0 /\ drv'.src = 0
    BY <1>2, IdleFacts DEF Crash, Exit
  <2>1. TypeOK'
    <3>1. RecordTyped'
      BY <1>2, <1>0 DEF Crash, RecordTyped, TypeOK
    <3>2. DriverTyped'
      BY <1>a, <2>d DEF DriverTyped
    <3>3. SnapshotsTyped'
      BY <1>2, <1>0 DEF Crash, SnapshotsTyped, TypeOK
    <3>4. StackTyped'
      BY <1>2, <1>0 DEF Crash, StackTyped, TypeOK
    <3>5. ProcessTyped'
      <4>1. crashes' \in Nat
        BY <1>2, <1>0 DEF Crash, TypeOK, ProcessTyped
      <4>2. up' \in BOOLEAN /\ stopping' \in BOOLEAN
        BY <1>2 DEF Crash, Exit
      <4> QED
        BY <1>2, <1>0, <4>2 DEF Crash, TypeOK, ProcessTyped
    <3> QED
      BY <3>1, <3>2, <3>3, <3>4, <3>5 DEF TypeOK
  <2>2. ControlInv'
    BY <1>2, <1>0, <2>d DEF Crash, ControlInv, PhaseInv, AuthorityInv,
       ConsentScoped, WakeStages, HibernateStages
  <2>3. CopiesInv'
    BY <1>2, <1>0, <2>d DEF Crash, CopiesInv, SnapshotInv, VersionInv
  <2>4. ProgressInv'
    BY <2>d DEF ProgressInv, WakeInv, HibernateInv
  <2>5. SafetyInv'
    BY <1>2, <1>0 DEF Crash, SafetyInv, NothingLost, VolumeAuthorityIsComplete,
       NoWriterUnderSnapshotAuthority, ActiveIsWhole, Stopped
  <2> QED
    BY <2>1, <2>2, <2>3, <2>4, <2>5 DEF Inv
<1>3. ASSUME Shutdown
     PROVE  Inv'
  <2>1. TypeOK'
    BY <1>3, <1>0 DEF Shutdown, TypeOK, RecordTyped, DriverTyped,
       SnapshotsTyped, StackTyped, ProcessTyped
  <2>2. ControlInv'
    BY <1>3, <1>0 DEF Shutdown, ControlInv, PhaseInv, AuthorityInv,
       ConsentScoped
  <2>3. CopiesInv'
    BY <1>3, <1>0 DEF Shutdown, CopiesInv, SnapshotInv, VersionInv
  <2>4. ProgressInv'
    BY <1>3, <1>0 DEF Shutdown, ProgressInv, WakeInv, HibernateInv
  <2>5. SafetyInv'
    BY <1>3, <1>0 DEF Shutdown, SafetyInv, NothingLost,
       VolumeAuthorityIsComplete, NoWriterUnderSnapshotAuthority,
       ActiveIsWhole, Stopped
  <2> QED
    BY <2>1, <2>2, <2>3, <2>4, <2>5 DEF Inv
<1>4. ASSUME ShutdownComplete
     PROVE  Inv'
  <2>d. /\ drv' \in Drivers /\ drv'.op = "none" /\ drv'.pc = "idle"
        /\ drv'.tries = 0 /\ drv'.src = 0
    BY <1>4, IdleFacts DEF ShutdownComplete, Exit
  <2>1. TypeOK'
    <3>1. RecordTyped'
      BY <1>4, <1>0 DEF ShutdownComplete, RecordTyped, TypeOK
    <3>2. DriverTyped'
      BY <1>a, <2>d DEF DriverTyped
    <3>3. SnapshotsTyped'
      BY <1>4, <1>0 DEF ShutdownComplete, SnapshotsTyped, TypeOK
    <3>4. StackTyped'
      BY <1>4, <1>0 DEF ShutdownComplete, StackTyped, TypeOK
    <3>5. ProcessTyped'
      BY <1>4, <1>0 DEF ShutdownComplete, Exit, ProcessTyped, TypeOK
    <3> QED
      BY <3>1, <3>2, <3>3, <3>4, <3>5 DEF TypeOK
  <2>2. ControlInv'
    BY <1>4, <1>0, <2>d DEF ShutdownComplete, ControlInv, PhaseInv,
       AuthorityInv, ConsentScoped, WakeStages, HibernateStages
  <2>3. CopiesInv'
    BY <1>4, <1>0, <2>d DEF ShutdownComplete, CopiesInv, SnapshotInv,
       VersionInv
  <2>4. ProgressInv'
    BY <2>d DEF ProgressInv, WakeInv, HibernateInv
  <2>5. SafetyInv'
    BY <1>4, <1>0 DEF ShutdownComplete, SafetyInv, NothingLost,
       VolumeAuthorityIsComplete, NoWriterUnderSnapshotAuthority,
       ActiveIsWhole, Stopped
  <2> QED
    BY <2>1, <2>2, <2>3, <2>4, <2>5 DEF Inv
<1>5. ASSUME StoreError
     PROVE  Inv'
  <2>d. /\ drv' \in Drivers
        /\ \/ /\ drv'.pc = "error" /\ drv'.op = drv.op /\ drv'.tries = drv.tries
              /\ drv'.src = drv.src /\ drv.pc # "idle" /\ up' = up /\ stopping' = stopping
           \/ /\ drv'.pc = "idle" /\ drv'.op = "none" /\ drv'.tries = 0 /\ drv'.src = 0
              /\ up' \in {up, FALSE} /\ stopping' \in {stopping, FALSE}
    <3>1. CASE drv.pc \notin {"activate", "error"}
      BY <1>5, <3>1, <1>a, ErredFacts DEF StoreError, StoreWrites
    <3>2. CASE drv.pc \in {"activate", "error"}
      BY <1>5, <3>2, IdleFacts DEF StoreError, Exit
    <3> QED
      BY <3>1, <3>2
  <2>1. TypeOK'
    <3>1. RecordTyped'
      BY <1>5, <1>0 DEF StoreError, RecordTyped, TypeOK
    <3>2. DriverTyped'
      <4>1. drv' \in Drivers /\ drv'.tries \in {drv.tries, 0}
        BY <2>d
      <4> QED
        BY <1>0, <1>a, <4>1 DEF DriverTyped, TypeOK
    <3>3. SnapshotsTyped'
      BY <1>5, <1>0 DEF StoreError, SnapshotsTyped, TypeOK
    <3>4. StackTyped'
      BY <1>5, <1>0 DEF StoreError, StackTyped, TypeOK
    <3>5. ProcessTyped'
      <4>1. storeErrors' \in Nat
        BY <1>5, <1>0 DEF StoreError, TypeOK, ProcessTyped
      <4>2. up' \in BOOLEAN /\ stopping' \in BOOLEAN
        BY <1>0, <2>d DEF TypeOK, ProcessTyped
      <4> QED
        BY <1>5, <1>0, <4>2 DEF StoreError, TypeOK, ProcessTyped
    <3> QED
      BY <3>1, <3>2, <3>3, <3>4, <3>5 DEF TypeOK
  <2>2. ControlInv'
    BY <1>5, <1>0, <2>d DEF StoreError, ControlInv, PhaseInv, AuthorityInv,
       ConsentScoped, WakeStages, HibernateStages
  <2>3. CopiesInv'
    BY <1>5, <1>0, <2>d DEF StoreError, CopiesInv, SnapshotInv, VersionInv
  <2>4. ProgressInv'
    BY <2>d DEF ProgressInv, WakeInv, HibernateInv
  <2>5. SafetyInv'
    BY <1>5, <1>0 DEF StoreError, SafetyInv, NothingLost,
       VolumeAuthorityIsComplete, NoWriterUnderSnapshotAuthority,
       ActiveIsWhole, Stopped
  <2> QED
    BY <2>1, <2>2, <2>3, <2>4, <2>5 DEF Inv
<1> QED
  BY <1>1, <1>2, <1>3, <1>4, <1>5

\* The operations a serving process accepts.
LEMMA RequestSteps ==
    ASSUME Inv
    PROVE  /\ (BeginWake \/ AcknowledgeFailure \/ BeginHibernate) => Inv'
           /\ \A g \in Gens : OperatorRestore(g) => Inv'
           /\ \A d \in 0..MaxNow : SetWakeDeadline(d) => Inv'
<1> USE DEF At, process, snapshots, volume, history, budget
<1>0. TypeOK /\ ControlInv /\ CopiesInv /\ ProgressInv /\ SafetyInv
  BY DEF Inv
<1>a. /\ rec \in StateRecords /\ rec.gen \in Nat /\ rec.rg \in Nat /\ rec.sa \in BOOLEAN
      /\ drv \in Drivers /\ drv.src \in Gens \cup {0} /\ drv.tries \in Nat /\ drv.op \in Ops
      /\ now \in Nat /\ MaxGen \in Nat /\ WakeAttempts \in Nat \ {0}
  BY <1>0, FieldFacts
<1>1. ASSUME BeginWake
     PROVE  Inv'
  <2>r. /\ rec' \in StateRecords
        /\ rec'.state = "waking" /\ rec'.gen = rec.gen + 1 /\ rec'.sa = rec.sa /\ rec'.rg = 0
    BY <1>1, <1>a, WakeBegunFacts DEF BeginWake
  <2>d. /\ drv' \in Drivers /\ drv'.op = "wake" /\ drv'.pc = "choose"
        /\ drv'.tries = 1 /\ drv'.src = 0
    BY <1>1, DrivingFacts DEF BeginWake, Ops
  <2>1. TypeOK'
    BY <1>1, <1>0, <1>a, <2>r, <2>d DEF BeginWake, TypeOK, RecordTyped,
       DriverTyped, SnapshotsTyped, StackTyped, ProcessTyped
  <2>2. ControlInv'
    BY <1>1, <1>a, <2>r, <2>d DEF BeginWake, Serving, ControlInv, PhaseInv,
       AuthorityInv, ConsentScoped, HibernateStages
  <2>3. CopiesInv'
    BY <1>1, <1>0, <1>a, <2>r DEF BeginWake, SnapshotInv, SnapshotsTyped, Gens,
       CopiesInv, TypeOK, VersionInv
  <2>4. ProgressInv'
    BY <2>d DEF ProgressInv, WakeInv, HibernateInv
  <2>5. SafetyInv'
    BY <1>1, <1>0, <2>r DEF BeginWake, SafetyInv, NothingLost,
       VolumeAuthorityIsComplete, NoWriterUnderSnapshotAuthority,
       ActiveIsWhole, Stopped
  <2> QED
    BY <2>1, <2>2, <2>3, <2>4, <2>5 DEF Inv
<1>2. ASSUME AcknowledgeFailure
     PROVE  Inv'
  <2>r. /\ rec' \in StateRecords
        /\ rec'.state = "hibernated" /\ rec'.gen = rec.gen + 1 /\ rec'.sa = rec.sa /\ rec'.rg = 0
    BY <1>2, <1>a, FailureAcknowledgedFacts DEF AcknowledgeFailure
  <2>i. drv.pc = "idle"
    BY <1>2, <1>0, <1>a DEF AcknowledgeFailure, CanAcknowledge, CanRecover,
       ControlInv, PhaseInv, Ops
  <2>1. TypeOK'
    BY <1>2, <1>0, <1>a, <2>r DEF AcknowledgeFailure, TypeOK, RecordTyped,
       DriverTyped, SnapshotsTyped, StackTyped, ProcessTyped
  <2>2. ControlInv'
    BY <1>2, <1>0, <2>r, <2>i DEF AcknowledgeFailure, ControlInv, PhaseInv,
       AuthorityInv, ConsentScoped
  <2>3. CopiesInv'
    BY <1>2, <1>0, <1>a, <2>r DEF AcknowledgeFailure, SnapshotInv,
       SnapshotsTyped, Gens, CopiesInv, TypeOK, VersionInv
  <2>4. ProgressInv'
    BY <1>2, <2>i DEF AcknowledgeFailure, WakeInv, HibernateInv, ProgressInv
  <2>5. SafetyInv'
    BY <1>2, <1>0, <2>r DEF AcknowledgeFailure, SafetyInv, NothingLost,
       VolumeAuthorityIsComplete, NoWriterUnderSnapshotAuthority,
       ActiveIsWhole, Stopped
  <2> QED
    BY <2>1, <2>2, <2>3, <2>4, <2>5 DEF Inv
<1>3. ASSUME NEW g \in Gens, OperatorRestore(g)
     PROVE  Inv'
  <2>g. g \in Nat /\ g # 0
    BY <1>a DEF Gens
  <2>r. /\ rec' \in StateRecords
        /\ rec'.state = "waking" /\ rec'.gen = rec.gen + 1 /\ rec'.sa = rec.sa /\ rec'.rg = g
    BY <1>3, <1>a, <2>g, OperatorRestoreBegunFacts DEF OperatorRestore
  <2>d. /\ drv' \in Drivers /\ drv'.op = "restore" /\ drv'.pc = "choose"
        /\ drv'.tries = 1 /\ drv'.src = 0
    BY <1>3, DrivingFacts DEF OperatorRestore, Ops
  <2>1. TypeOK'
    BY <1>3, <1>0, <1>a, <2>r, <2>d DEF OperatorRestore, TypeOK, RecordTyped,
       DriverTyped, SnapshotsTyped, StackTyped, ProcessTyped
  <2>2. ControlInv'
    BY <1>3, <1>a, <2>r, <2>d DEF OperatorRestore, Serving, ControlInv,
       PhaseInv, AuthorityInv, ConsentScoped, HibernateStages
  <2>3. CopiesInv'
    BY <1>3, <1>0, <1>a, <2>r DEF OperatorRestore, SnapshotInv, SnapshotsTyped,
       Gens, CopiesInv, TypeOK, VersionInv
  <2>4. ProgressInv'
    BY <2>d DEF ProgressInv, WakeInv, HibernateInv
  <2>5. SafetyInv'
    BY <1>3, <1>0, <2>r DEF OperatorRestore, SafetyInv, NothingLost,
       VolumeAuthorityIsComplete, NoWriterUnderSnapshotAuthority, ActiveIsWhole
  <2> QED
    BY <2>1, <2>2, <2>3, <2>4, <2>5 DEF Inv
<1>4. ASSUME BeginHibernate
     PROVE  Inv'
  <2>r. /\ rec' \in StateRecords
        /\ rec'.state = "quiescing" /\ rec'.gen = rec.gen + 1
        /\ rec'.sa = rec.sa /\ rec'.rg = rec.rg
    BY <1>4, <1>a, HibernateBegunFacts DEF BeginHibernate
  <2>d. /\ drv' \in Drivers /\ drv'.op = "hibernate" /\ drv'.pc = "h_inspect"
        /\ drv'.tries = 0 /\ drv'.src = 0
    BY <1>4, HibernatingFacts DEF BeginHibernate
  <2>1. TypeOK'
    BY <1>4, <1>0, <1>a, <2>r, <2>d DEF BeginHibernate, TypeOK, RecordTyped,
       DriverTyped, SnapshotsTyped, StackTyped, ProcessTyped
  <2>2. ControlInv'
    BY <1>4, <1>0, <1>a, <2>r, <2>d DEF BeginHibernate, Serving, ControlInv,
       PhaseInv, AuthorityInv, ConsentScoped, CanRecover, WakeStages
  <2>3. CopiesInv'
    BY <1>4, <1>0, <1>a, <2>r DEF BeginHibernate, SnapshotInv, SnapshotsTyped,
       Gens, CopiesInv, TypeOK, VersionInv
  <2>4. ProgressInv'
    BY <2>d DEF ProgressInv, WakeInv, HibernateInv
  <2>5. SafetyInv'
    BY <1>4, <1>0, <2>r DEF BeginHibernate, SafetyInv, NothingLost,
       VolumeAuthorityIsComplete, NoWriterUnderSnapshotAuthority, ActiveIsWhole
  <2> QED
    BY <2>1, <2>2, <2>3, <2>4, <2>5 DEF Inv
<1>5. ASSUME NEW d \in 0..MaxNow, SetWakeDeadline(d)
     PROVE  Inv'
  <2>g. d \in Nat
    BY StackAssumption
  <2>r. /\ rec' \in StateRecords
        /\ rec'.state = rec.state /\ rec'.gen = rec.gen /\ rec'.sa = rec.sa /\ rec'.rg = rec.rg
    BY <1>5, <1>a, <2>g, DeadlineSetFacts DEF SetWakeDeadline
  <2>1. TypeOK'
    BY <1>5, <1>0, <2>r DEF SetWakeDeadline, TypeOK, RecordTyped, DriverTyped,
       SnapshotsTyped, StackTyped, ProcessTyped
  <2>2. ControlInv'
    BY <1>5, <1>0, <2>r DEF SetWakeDeadline, ControlInv, PhaseInv,
       AuthorityInv, ConsentScoped, CanRecover
  <2>3. CopiesInv'
    BY <1>5, <1>0, <2>r DEF SetWakeDeadline, CopiesInv, SnapshotInv, VersionInv
  <2>4. ProgressInv'
    BY <1>5, <1>0, <2>r DEF SetWakeDeadline, ProgressInv, WakeInv, HibernateInv
  <2>5. SafetyInv'
    BY <1>5, <1>0, <2>r DEF SetWakeDeadline, SafetyInv, NothingLost,
       VolumeAuthorityIsComplete, NoWriterUnderSnapshotAuthority,
       ActiveIsWhole, Stopped
  <2> QED
    BY <2>1, <2>2, <2>3, <2>4, <2>5 DEF Inv
<1> QED
  BY <1>1, <1>2, <1>3, <1>4, <1>5

\* The stages of a wake.
LEMMA WakeSteps ==
    ASSUME Inv
    PROVE  (Choose \/ Inspect \/ DeclareSnapshot \/ RestoreBegin \/ RestoreEnd
              \/ StartPersistence \/ DeclareVolume \/ Migrate \/ StartWorkers
              \/ StartServers \/ Activate) => Inv'
<1> USE DEF At, process, snapshots, volume, history, budget
<1>0. TypeOK /\ ControlInv /\ CopiesInv /\ ProgressInv /\ SafetyInv
  BY DEF Inv
<1>a. /\ rec \in StateRecords /\ rec.gen \in Nat /\ rec.rg \in Nat /\ rec.sa \in BOOLEAN
      /\ drv \in Drivers /\ drv.src \in Gens \cup {0} /\ drv.tries \in Nat /\ drv.op \in Ops
      /\ now \in Nat /\ MaxGen \in Nat /\ WakeAttempts \in Nat \ {0}
  BY <1>0, FieldFacts
<1>1. ASSUME Choose
     PROVE  Inv'
  <2>d. /\ drv' \in Drivers /\ drv'.op = drv.op /\ drv'.tries = drv.tries
        /\ \/ drv'.pc = "error" /\ drv'.src = drv.src
           \/ drv'.pc = "inspect" /\ drv'.src = 0 /\ rec.rg = 0 /\ ~rec.sa
           \/ drv'.pc = "inspect" /\ drv'.src = cur /\ cur # 0 /\ rec.rg = 0 /\ rec.sa
           \/ drv'.pc = "inspect" /\ drv'.src = rec.rg /\ rec.rg # 0 /\ rec.rg \in published
    BY <1>1, <1>0, <1>a, ChooseFacts, ErredFacts DEF Choose, TypeOK,
       SnapshotsTyped
  <2>1. TypeOK'
    BY <1>1, <1>0, <2>d DEF Choose, TypeOK, RecordTyped, DriverTyped,
       SnapshotsTyped, StackTyped, ProcessTyped
  <2>2. ControlInv'
    BY <1>1, <1>0, <2>d DEF Choose, ControlInv, PhaseInv, AuthorityInv,
       ConsentScoped, WakeStages, HibernateStages
  <2>3. CopiesInv'
    BY <1>1, <1>0, <2>d DEF Choose, CopiesInv, SnapshotInv, VersionInv
  <2>4. ProgressInv'
    BY <1>1, <1>0, <2>d DEF Choose, WakeInv, AuthorityInv, SnapshotInv,
       ControlInv, CopiesInv, HibernateInv, ProgressInv
  <2>5. SafetyInv'
    BY <1>1, <1>0 DEF Choose, SafetyInv, NothingLost,
       VolumeAuthorityIsComplete, NoWriterUnderSnapshotAuthority,
       ActiveIsWhole, Stopped
  <2> QED
    BY <2>1, <2>2, <2>3, <2>4, <2>5 DEF Inv
<1>2. ASSUME Inspect
     PROVE  Inv'
  <2>d. /\ drv' \in Drivers /\ drv'.op = drv.op /\ drv'.tries = drv.tries /\ drv'.src = drv.src
        /\ drv'.pc \in {"error", IF drv.src = 0 THEN "start_persistence" ELSE "declare_snapshot"}
    BY <1>2, <1>a, GotoFacts, ErredFacts DEF Inspect, Stages, WakeStages
  <2>1. TypeOK'
    BY <1>2, <1>0, <2>d DEF Inspect, TypeOK, RecordTyped, DriverTyped,
       SnapshotsTyped, StackTyped, ProcessTyped
  <2>2. ControlInv'
    BY <1>2, <1>0, <2>d DEF Inspect, ControlInv, PhaseInv, AuthorityInv,
       ConsentScoped, WakeStages, HibernateStages
  <2>3. CopiesInv'
    BY <1>2, <1>0, <2>d DEF Inspect, CopiesInv, SnapshotInv, VersionInv
  <2>4. ProgressInv'
    BY <1>2, <1>0, <2>d DEF Inspect, WakeInv, NothingLost,
       VolumeAuthorityIsComplete, ProgressInv, SafetyInv, HibernateInv
  <2>5. SafetyInv'
    BY <1>2, <1>0 DEF Inspect, SafetyInv, NothingLost,
       VolumeAuthorityIsComplete, NoWriterUnderSnapshotAuthority,
       ActiveIsWhole, Stopped
  <2> QED
    BY <2>1, <2>2, <2>3, <2>4, <2>5 DEF Inv
<1>3. ASSUME DeclareSnapshot
     PROVE  Inv'
  <2>r. /\ rec' \in StateRecords
        /\ rec'.state = rec.state /\ rec'.gen = rec.gen /\ rec'.sa = TRUE /\ rec'.rg = rec.rg
    BY <1>3, <1>a, SnapshotDeclaredFacts DEF DeclareSnapshot
  <2>d. /\ drv' \in Drivers /\ drv'.op = drv.op /\ drv'.pc = "restore"
        /\ drv'.tries = drv.tries /\ drv'.src = drv.src
    BY <1>3, <1>a, GotoFacts DEF DeclareSnapshot, Stages, WakeStages
  <2>1. TypeOK'
    BY <1>3, <1>0, <2>r, <2>d DEF DeclareSnapshot, TypeOK, RecordTyped,
       DriverTyped, SnapshotsTyped, StackTyped, ProcessTyped
  <2>2. ControlInv'
    BY <1>3, <1>0, <2>r, <2>d DEF DeclareSnapshot, ControlInv, PhaseInv,
       AuthorityInv, ConsentScoped, WakeStages, HibernateStages
  <2>3. CopiesInv'
    BY <1>3, <1>0, <2>r, <2>d DEF DeclareSnapshot, CopiesInv, SnapshotInv,
       VersionInv
  <2>4. ProgressInv'
    BY <1>3, <1>0, <2>r, <2>d DEF DeclareSnapshot, ProgressInv, WakeInv,
       HibernateInv, ControlInv, PhaseInv
  <2>5. SafetyInv'
    BY <1>3, <1>0, <2>r DEF DeclareSnapshot, NothingLost, WakeInv, PhaseInv,
       SafetyInv, ProgressInv, ControlInv, VolumeAuthorityIsComplete,
       NoWriterUnderSnapshotAuthority, Stopped, ActiveIsWhole, AuthorityInv
  <2> QED
    BY <2>1, <2>2, <2>3, <2>4, <2>5 DEF Inv
<1>4. ASSUME RestoreBegin
     PROVE  Inv'
  <2>d. /\ drv' \in Drivers /\ drv'.op = drv.op
        /\ drv'.tries = drv.tries /\ drv'.src = drv.src
        /\ \/ drv'.pc = "restoring"
           \/ drv'.pc = "error"
    BY <1>4, <1>a, GotoFacts, ErredFacts DEF RestoreBegin, Stages, WakeStages
  <2>1. TypeOK'
    BY <1>4, <1>0, <2>d DEF RestoreBegin, TypeOK, RecordTyped, DriverTyped,
       SnapshotsTyped, StackTyped, ProcessTyped
  <2>2. ControlInv'
    BY <1>4, <1>0, <2>d DEF RestoreBegin, ControlInv, PhaseInv, AuthorityInv,
       ConsentScoped, WakeStages, HibernateStages
  <2>3. CopiesInv'
    BY <1>4, <1>0, <2>d DEF RestoreBegin, CopiesInv, SnapshotInv, VersionInv
  <2>4. ProgressInv'
    BY <1>4, <1>0, <2>d DEF RestoreBegin, ProgressInv, WakeInv, HibernateInv
  <2>5. SafetyInv'
    BY <1>4, <1>0 DEF RestoreBegin, NothingLost, SafetyInv,
       VolumeAuthorityIsComplete, WakeInv, ProgressInv,
       NoWriterUnderSnapshotAuthority, Stopped, ActiveIsWhole, AuthorityInv,
       ControlInv
  <2> QED
    BY <2>1, <2>2, <2>3, <2>4, <2>5 DEF Inv
<1>5. ASSUME RestoreEnd
     PROVE  Inv'
  <2>d. /\ drv' \in Drivers /\ drv'.op = drv.op
        /\ drv'.tries = drv.tries /\ drv'.src = drv.src
        /\ \/ drv'.pc = "start_persistence" /\ volOK' = TRUE /\ volVer' = content[drv.src]
           \/ drv'.pc = "error"
    BY <1>5, <1>a, GotoFacts, ErredFacts DEF RestoreEnd, Stages, WakeStages
  <2>c. content[drv.src] \in Nat /\ (volVer' = volVer \/ volVer' = content[drv.src])
    BY <1>5, <1>0, <1>a DEF RestoreEnd, TypeOK, SnapshotsTyped, ControlInv,
       PhaseInv
  <2>1. TypeOK'
    BY <1>5, <1>0, <2>d, <2>c DEF RestoreEnd, RecordTyped, TypeOK, DriverTyped,
       SnapshotsTyped, StackTyped, ProcessTyped
  <2>2. ControlInv'
    BY <1>5, <1>0, <2>d DEF RestoreEnd, ControlInv, PhaseInv, AuthorityInv,
       ConsentScoped, WakeStages, HibernateStages
  <2>3. CopiesInv'
    BY <1>5, <1>0, <2>d, <1>a DEF RestoreEnd, SnapshotInv, CopiesInv,
       VersionInv, PhaseInv, ControlInv
  <2>4. ProgressInv'
    BY <1>5, <1>0, <2>d DEF RestoreEnd, WakeInv, NothingLost, ProgressInv,
       SafetyInv, HibernateInv
  <2>5. SafetyInv'
    BY <1>5, <1>0 DEF RestoreEnd, NothingLost, WakeInv, SafetyInv, ProgressInv,
       VolumeAuthorityIsComplete, NoWriterUnderSnapshotAuthority, Stopped,
       ActiveIsWhole
  <2> QED
    BY <2>1, <2>2, <2>3, <2>4, <2>5 DEF Inv
<1>6. ASSUME StartPersistence
     PROVE  Inv'
  <2>s. /\ run' \in [persistence : BOOLEAN, workers : BOOLEAN, servers : BOOLEAN]
        /\ run'.workers = run.workers /\ run'.servers = run.servers
        /\ run'.persistence \in {run.persistence, TRUE}
    BY <1>6, <1>0 DEF StartPersistence, TypeOK, StackTyped
  <2>d. /\ drv' \in Drivers /\ drv'.op = drv.op
        /\ drv'.tries = drv.tries /\ drv'.src = drv.src
        /\ \/ drv'.pc = "declare_volume" /\ run'.persistence = TRUE
           \/ drv'.pc = "error"
    BY <1>6, <1>a, GotoFacts, ErredFacts, <1>0 DEF StartPersistence, Stages,
       WakeStages, TypeOK, StackTyped
  <2>1. TypeOK'
    BY <1>6, <1>0, <2>d DEF StartPersistence, TypeOK, RecordTyped, DriverTyped,
       SnapshotsTyped, StackTyped, ProcessTyped
  <2>2. ControlInv'
    BY <1>6, <1>0, <2>d DEF StartPersistence, ControlInv, PhaseInv,
       AuthorityInv, ConsentScoped, WakeStages, HibernateStages
  <2>3. CopiesInv'
    BY <1>6, <1>0, <2>d DEF StartPersistence, CopiesInv, SnapshotInv,
       VersionInv
  <2>4. ProgressInv'
    BY <1>6, <1>0, <2>d DEF StartPersistence, ProgressInv, WakeInv,
       HibernateInv
  <2>5. SafetyInv'
    BY <1>6, <1>0, <2>s DEF StartPersistence, SafetyInv, NothingLost,
       VolumeAuthorityIsComplete, NoWriterUnderSnapshotAuthority,
       ActiveIsWhole, Stopped
  <2> QED
    BY <2>1, <2>2, <2>3, <2>4, <2>5 DEF Inv
<1>7. ASSUME DeclareVolume
     PROVE  Inv'
  <2>r. /\ rec' \in StateRecords
        /\ rec'.state = rec.state /\ rec'.gen = rec.gen /\ rec'.sa = FALSE /\ rec'.rg = rec.rg
    BY <1>7, <1>a, VolumeDeclaredFacts DEF DeclareVolume
  <2>d. /\ drv' \in Drivers /\ drv'.op = drv.op /\ drv'.pc = "migrate"
        /\ drv'.tries = drv.tries /\ drv'.src = drv.src
    BY <1>7, <1>a, GotoFacts DEF DeclareVolume, Stages, WakeStages
  <2>1. TypeOK'
    BY <1>7, <1>0, <2>r, <2>d DEF DeclareVolume, TypeOK, RecordTyped,
       DriverTyped, SnapshotsTyped, StackTyped, ProcessTyped
  <2>2. ControlInv'
    BY <1>7, <1>0, <2>r, <2>d DEF DeclareVolume, ControlInv, PhaseInv,
       AuthorityInv, ConsentScoped, WakeStages, HibernateStages
  <2>3. CopiesInv'
    BY <1>7, <1>0, <2>r, <2>d DEF DeclareVolume, CopiesInv, SnapshotInv,
       VersionInv
  <2>4. ProgressInv'
    BY <1>7, <1>0, <2>r, <2>d DEF DeclareVolume, ProgressInv, WakeInv,
       HibernateInv
  <2>5. SafetyInv'
    BY <1>7, <1>0, <2>r DEF DeclareVolume, NothingLost, WakeInv, ProgressInv,
       VolumeAuthorityIsComplete, NoWriterUnderSnapshotAuthority,
       ActiveIsWhole, SafetyInv
  <2> QED
    BY <2>1, <2>2, <2>3, <2>4, <2>5 DEF Inv
<1>8. ASSUME Migrate
     PROVE  Inv'
  <2>d. /\ drv' \in Drivers /\ drv'.op = drv.op
        /\ drv'.tries = drv.tries /\ drv'.src = drv.src
        /\ \/ drv'.pc = "start_workers"
           \/ drv'.pc = "error"
    BY <1>8, <1>a, GotoFacts, ErredFacts DEF Migrate, Stages, WakeStages
  <2>1. TypeOK'
    <3>1. top' \in Nat /\ latest' \in Nat /\ volVer' \in Nat
      BY <1>8, <1>0 DEF Migrate, Written, TypeOK, StackTyped
    <3>2. volOK' = volOK /\ consent' = consent
      BY <1>8 DEF Migrate, Written
    <3> QED
      BY <1>8, <1>0, <2>d, <3>1, <3>2 DEF Migrate, TypeOK, RecordTyped,
         DriverTyped, SnapshotsTyped, StackTyped, ProcessTyped
  <2>2. ControlInv'
    BY <1>8, <1>0, <2>d DEF Migrate, Written, ControlInv, PhaseInv,
       AuthorityInv, ConsentScoped, WakeStages, HibernateStages
  <2>3. CopiesInv'
    BY <1>8, <1>0, <2>d DEF Migrate, SnapshotInv, CopiesInv, Written,
       VersionInv, SnapshotsTyped, StackTyped, TypeOK
  <2>4. ProgressInv'
    BY <1>8, <1>0, <2>d DEF Migrate, ProgressInv, WakeInv, HibernateInv
  <2>5. SafetyInv'
    BY <1>8, <1>0 DEF Migrate, Written, NothingLost, WakeInv, SafetyInv,
       ProgressInv, VolumeAuthorityIsComplete, NoWriterUnderSnapshotAuthority,
       Stopped, ActiveIsWhole
  <2> QED
    BY <2>1, <2>2, <2>3, <2>4, <2>5 DEF Inv
<1>9. ASSUME StartWorkers
     PROVE  Inv'
  <2>s. /\ run' \in [persistence : BOOLEAN, workers : BOOLEAN, servers : BOOLEAN]
        /\ run'.persistence = run.persistence /\ run'.servers = run.servers
        /\ run'.workers \in {run.workers, TRUE}
    BY <1>9, <1>0 DEF StartWorkers, TypeOK, StackTyped
  <2>d. /\ drv' \in Drivers /\ drv'.op = drv.op
        /\ drv'.tries = drv.tries /\ drv'.src = drv.src
        /\ \/ drv'.pc = "start_servers" /\ run'.workers = TRUE
           \/ drv'.pc = "error"
    BY <1>9, <1>a, GotoFacts, ErredFacts, <1>0 DEF StartWorkers, Stages,
       WakeStages, TypeOK, StackTyped
  <2>1. TypeOK'
    BY <1>9, <1>0, <2>d DEF StartWorkers, TypeOK, RecordTyped, DriverTyped,
       SnapshotsTyped, StackTyped, ProcessTyped
  <2>2. ControlInv'
    BY <1>9, <1>0, <2>d DEF StartWorkers, ControlInv, PhaseInv, AuthorityInv,
       ConsentScoped, WakeStages, HibernateStages
  <2>3. CopiesInv'
    BY <1>9, <1>0, <2>d DEF StartWorkers, CopiesInv, SnapshotInv, VersionInv
  <2>4. ProgressInv'
    BY <1>9, <1>0, <2>s, <2>d DEF StartWorkers, ProgressInv, WakeInv,
       HibernateInv
  <2>5. SafetyInv'
    BY <1>9, <1>0, <2>s DEF StartWorkers, NothingLost, SafetyInv,
       VolumeAuthorityIsComplete, NoWriterUnderSnapshotAuthority, WakeInv,
       ProgressInv, ActiveIsWhole
  <2> QED
    BY <2>1, <2>2, <2>3, <2>4, <2>5 DEF Inv
<1>10. ASSUME StartServers
     PROVE  Inv'
  <2>s. /\ run' \in [persistence : BOOLEAN, workers : BOOLEAN, servers : BOOLEAN]
        /\ run'.persistence = run.persistence /\ run'.workers = run.workers
        /\ run'.servers \in {run.servers, TRUE}
    BY <1>10, <1>0 DEF StartServers, TypeOK, StackTyped
  <2>d. /\ drv' \in Drivers /\ drv'.op = drv.op
        /\ drv'.tries = drv.tries /\ drv'.src = drv.src
        /\ \/ drv'.pc = "activate" /\ run'.servers = TRUE
           \/ drv'.pc = "error"
    BY <1>10, <1>a, GotoFacts, ErredFacts, <1>0 DEF StartServers, Stages,
       WakeStages, TypeOK, StackTyped
  <2>1. TypeOK'
    BY <1>10, <1>0, <2>d DEF StartServers, TypeOK, RecordTyped, DriverTyped,
       SnapshotsTyped, StackTyped, ProcessTyped
  <2>2. ControlInv'
    BY <1>10, <1>0, <2>d DEF StartServers, ControlInv, PhaseInv, AuthorityInv,
       ConsentScoped, WakeStages, HibernateStages
  <2>3. CopiesInv'
    BY <1>10, <1>0, <2>d DEF StartServers, CopiesInv, SnapshotInv, VersionInv
  <2>4. ProgressInv'
    BY <1>10, <1>0, <2>s, <2>d DEF StartServers, ProgressInv, WakeInv,
       HibernateInv
  <2>5. SafetyInv'
    BY <1>10, <1>0, <2>s DEF StartServers, NothingLost, SafetyInv,
       VolumeAuthorityIsComplete, NoWriterUnderSnapshotAuthority, WakeInv,
       ProgressInv, ActiveIsWhole
  <2> QED
    BY <2>1, <2>2, <2>3, <2>4, <2>5 DEF Inv
<1>11. ASSUME Activate
     PROVE  Inv'
  <2>r. /\ rec' \in StateRecords
        /\ rec'.state = "active" /\ rec'.gen = rec.gen /\ rec'.sa = FALSE /\ rec'.rg = 0
    BY <1>11, <1>a, ActivatedFacts DEF Activate
  <2>d. /\ drv' \in Drivers /\ drv'.op = "none" /\ drv'.pc = "idle"
        /\ drv'.tries = 0 /\ drv'.src = 0
    BY <1>11, IdleFacts DEF Activate
  <2>1. TypeOK'
    BY <1>11, <1>0, <1>a, <2>r, <2>d DEF Activate, TypeOK, RecordTyped,
       DriverTyped, SnapshotsTyped, StackTyped, ProcessTyped
  <2>2. ControlInv'
    BY <1>11, <1>0, <2>r, <2>d DEF Activate, ControlInv, PhaseInv,
       AuthorityInv, ConsentScoped, WakeStages, HibernateStages
  <2>3. CopiesInv'
    BY <1>11, <1>0, <2>r, <2>d DEF Activate, CopiesInv, SnapshotInv, VersionInv
  <2>4. ProgressInv'
    BY <2>d DEF ProgressInv, WakeInv, HibernateInv
  <2>5. SafetyInv'
    BY <1>11, <2>r, <1>0 DEF Activate, NothingLost, VolumeAuthorityIsComplete,
       WakeInv, SafetyInv, ProgressInv, NoWriterUnderSnapshotAuthority,
       ActiveIsWhole
  <2> QED
    BY <2>1, <2>2, <2>3, <2>4, <2>5 DEF Inv
<1> QED
  BY <1>1, <1>2, <1>3, <1>4, <1>5, <1>6, <1>7, <1>8, <1>9, <1>10, <1>11

\* The stages of a hibernation.
LEMMA HibernateSteps ==
    ASSUME Inv
    PROVE  (HibernateInspect \/ DrainServers \/ StopWorkers \/ BeginSnapshot
              \/ StopPersistence \/ CreateSnapshot \/ PublishCurrent \/
              BeginStop \/ ReleaseActiveStorage \/ CompleteHibernate) => Inv'
<1> USE DEF At, process, snapshots, volume, history, budget
<1>0. TypeOK /\ ControlInv /\ CopiesInv /\ ProgressInv /\ SafetyInv
  BY DEF Inv
<1>a. /\ rec \in StateRecords /\ rec.gen \in Nat /\ rec.rg \in Nat /\ rec.sa \in BOOLEAN
      /\ drv \in Drivers /\ drv.src \in Gens \cup {0} /\ drv.tries \in Nat /\ drv.op \in Ops
      /\ now \in Nat /\ MaxGen \in Nat /\ WakeAttempts \in Nat \ {0}
  BY <1>0, FieldFacts
<1>1. ASSUME HibernateInspect
     PROVE  Inv'
  <2>d. /\ drv' \in Drivers /\ drv'.op = drv.op
        /\ drv'.tries = drv.tries /\ drv'.src = drv.src
        /\ \/ drv'.pc = "drain_servers"
           \/ drv'.pc = "error"
    BY <1>1, <1>a, GotoFacts, ErredFacts DEF HibernateInspect, Stages,
       HibernateStages
  <2>1. TypeOK'
    BY <1>1, <1>0, <2>d DEF HibernateInspect, TypeOK, RecordTyped, DriverTyped,
       SnapshotsTyped, StackTyped, ProcessTyped
  <2>2. ControlInv'
    BY <1>1, <1>0, <2>d DEF HibernateInspect, ControlInv, PhaseInv,
       AuthorityInv, ConsentScoped, WakeStages, HibernateStages
  <2>3. CopiesInv'
    BY <1>1, <1>0 DEF HibernateInspect, CopiesInv, SnapshotInv, VersionInv
  <2>4. ProgressInv'
    BY <2>d DEF ProgressInv, WakeInv, HibernateInv
  <2>5. SafetyInv'
    BY <1>1, <1>0 DEF HibernateInspect, SafetyInv, NothingLost,
       VolumeAuthorityIsComplete, NoWriterUnderSnapshotAuthority,
       ActiveIsWhole, Stopped
  <2> QED
    BY <2>1, <2>2, <2>3, <2>4, <2>5 DEF Inv
<1>2. ASSUME DrainServers
     PROVE  Inv'
  <2>s. /\ run' \in [persistence : BOOLEAN, workers : BOOLEAN, servers : BOOLEAN]
        /\ run'.persistence = run.persistence /\ run'.workers = run.workers
        /\ run'.servers \in {run.servers, FALSE}
    BY <1>2, <1>0 DEF DrainServers, TypeOK, StackTyped
  <2>d. /\ drv' \in Drivers /\ drv'.op = drv.op
        /\ drv'.tries = drv.tries /\ drv'.src = drv.src
        /\ \/ drv'.pc = "stop_workers" /\ run'.servers = FALSE
           \/ drv'.pc = "error"
    BY <1>2, <1>a, GotoFacts, ErredFacts, <1>0 DEF DrainServers, Stages,
       HibernateStages, TypeOK, StackTyped
  <2>1. TypeOK'
    BY <1>2, <1>0, <2>d DEF DrainServers, TypeOK, RecordTyped, DriverTyped,
       SnapshotsTyped, StackTyped, ProcessTyped
  <2>2. ControlInv'
    BY <1>2, <1>0, <2>d DEF DrainServers, ControlInv, PhaseInv, AuthorityInv,
       ConsentScoped, WakeStages, HibernateStages
  <2>3. CopiesInv'
    BY <1>2, <1>0 DEF DrainServers, CopiesInv, SnapshotInv, VersionInv
  <2>4. ProgressInv'
    BY <2>d DEF ProgressInv, WakeInv, HibernateInv
  <2>5. SafetyInv'
    BY <1>2, <1>0, <2>s DEF DrainServers, SafetyInv, NothingLost,
       VolumeAuthorityIsComplete, NoWriterUnderSnapshotAuthority,
       ActiveIsWhole, Stopped, ControlInv, PhaseInv
  <2> QED
    BY <2>1, <2>2, <2>3, <2>4, <2>5 DEF Inv
<1>3. ASSUME StopWorkers
     PROVE  Inv'
  <2>s. /\ run' \in [persistence : BOOLEAN, workers : BOOLEAN, servers : BOOLEAN]
        /\ run'.persistence = run.persistence /\ run'.servers = run.servers
        /\ run'.workers \in {run.workers, FALSE}
    BY <1>3, <1>0 DEF StopWorkers, TypeOK, StackTyped
  <2>d. /\ drv' \in Drivers /\ drv'.op = drv.op
        /\ drv'.tries = drv.tries /\ drv'.src = drv.src
        /\ \/ drv'.pc = "begin_snapshot" /\ run'.workers = FALSE
           \/ drv'.pc = "error"
    BY <1>3, <1>a, GotoFacts, ErredFacts, <1>0 DEF StopWorkers, Stages,
       HibernateStages, TypeOK, StackTyped
  <2>1. TypeOK'
    BY <1>3, <1>0, <2>d DEF StopWorkers, TypeOK, RecordTyped, DriverTyped,
       SnapshotsTyped, StackTyped, ProcessTyped
  <2>2. ControlInv'
    BY <1>3, <1>0, <2>d DEF StopWorkers, ControlInv, PhaseInv, AuthorityInv,
       ConsentScoped, WakeStages, HibernateStages
  <2>3. CopiesInv'
    BY <1>3, <1>0 DEF StopWorkers, CopiesInv, SnapshotInv, VersionInv
  <2>4. ProgressInv'
    BY <1>3, <1>0, <2>s, <2>d DEF StopWorkers, ProgressInv, WakeInv,
       HibernateInv
  <2>5. SafetyInv'
    BY <1>3, <1>0, <2>s DEF StopWorkers, SafetyInv, NothingLost,
       VolumeAuthorityIsComplete, NoWriterUnderSnapshotAuthority,
       ActiveIsWhole, Stopped, ControlInv, PhaseInv
  <2> QED
    BY <2>1, <2>2, <2>3, <2>4, <2>5 DEF Inv
<1>4. ASSUME BeginSnapshot
     PROVE  Inv'
  <2>r. /\ rec' \in StateRecords
        /\ rec'.state = "snapshotting" /\ rec'.gen = rec.gen /\ rec'.sa = rec.sa /\ rec'.rg = rec.rg
    BY <1>4, <1>a, SnapshotBegunFacts DEF BeginSnapshot
  <2>d. /\ drv' \in Drivers /\ drv'.op = drv.op /\ drv'.pc = "stop_persistence"
        /\ drv'.tries = drv.tries /\ drv'.src = drv.src
    BY <1>4, <1>a, GotoFacts DEF BeginSnapshot, Stages, HibernateStages
  <2>1. TypeOK'
    BY <1>4, <1>0, <2>r, <2>d DEF BeginSnapshot, TypeOK, RecordTyped,
       DriverTyped, SnapshotsTyped, StackTyped, ProcessTyped
  <2>2. ControlInv'
    BY <1>4, <1>0, <2>r, <2>d DEF BeginSnapshot, ControlInv, PhaseInv,
       AuthorityInv, ConsentScoped, CanRecover, WakeStages, HibernateStages
  <2>3. CopiesInv'
    BY <1>4, <1>0, <2>r DEF BeginSnapshot, CopiesInv, SnapshotInv, VersionInv
  <2>4. ProgressInv'
    BY <1>4, <1>0, <2>d DEF BeginSnapshot, ProgressInv, WakeInv, HibernateInv
  <2>5. SafetyInv'
    BY <1>4, <1>0, <2>r DEF BeginSnapshot, SafetyInv, NothingLost,
       VolumeAuthorityIsComplete, NoWriterUnderSnapshotAuthority,
       ActiveIsWhole, Stopped
  <2> QED
    BY <2>1, <2>2, <2>3, <2>4, <2>5 DEF Inv
<1>5. ASSUME StopPersistence
     PROVE  Inv'
  <2>s. /\ run' \in [persistence : BOOLEAN, workers : BOOLEAN, servers : BOOLEAN]
        /\ run'.workers = run.workers /\ run'.servers = run.servers
        /\ run'.persistence \in {run.persistence, FALSE}
    BY <1>5, <1>0 DEF StopPersistence, TypeOK, StackTyped
  <2>d. /\ drv' \in Drivers /\ drv'.op = drv.op
        /\ drv'.tries = drv.tries /\ drv'.src = drv.src
        /\ \/ drv'.pc = "create" /\ run'.persistence = FALSE
           \/ drv'.pc = "error"
    BY <1>5, <1>a, GotoFacts, ErredFacts, <1>0 DEF StopPersistence, Stages,
       HibernateStages, TypeOK, StackTyped
  <2>1. TypeOK'
    BY <1>5, <1>0, <2>d DEF StopPersistence, TypeOK, RecordTyped, DriverTyped,
       SnapshotsTyped, StackTyped, ProcessTyped
  <2>2. ControlInv'
    BY <1>5, <1>0, <2>d DEF StopPersistence, ControlInv, PhaseInv,
       AuthorityInv, ConsentScoped, WakeStages, HibernateStages
  <2>3. CopiesInv'
    BY <1>5, <1>0 DEF StopPersistence, CopiesInv, SnapshotInv, VersionInv
  <2>4. ProgressInv'
    BY <1>5, <1>0, <2>s, <2>d DEF StopPersistence, ProgressInv, WakeInv,
       HibernateInv
  <2>5. SafetyInv'
    BY <1>5, <1>0, <2>s DEF StopPersistence, SafetyInv, NothingLost,
       VolumeAuthorityIsComplete, NoWriterUnderSnapshotAuthority,
       ActiveIsWhole, Stopped, ControlInv, PhaseInv
  <2> QED
    BY <2>1, <2>2, <2>3, <2>4, <2>5 DEF Inv
<1>6. ASSUME CreateSnapshot
     PROVE  Inv'
  <2>d. /\ drv' \in Drivers /\ drv'.op = drv.op
        /\ drv'.tries = drv.tries /\ drv'.src = drv.src
        /\ \/ drv'.pc = "publish"
           \/ drv'.pc = "error"
    BY <1>6, <1>a, GotoFacts, ErredFacts DEF CreateSnapshot, Stages,
       HibernateStages
  <2>g. rec.gen \in Gens
    BY <1>6, <1>0, <1>a DEF CreateSnapshot, Gens, TypeOK, RecordTyped,
       ControlInv, PhaseInv
  <2>c. \/ /\ drv'.pc = "publish" /\ published' = published \cup {rec.gen}
           /\ content' \in [Gens -> Nat] /\ content'[rec.gen] = volVer
           /\ \A g \in Gens \ {rec.gen} : content'[g] = content[g]
        \/ drv'.pc = "error" /\ published' = published /\ content' = content
    BY <1>6, <1>0, <1>a, <2>g, GotoFacts, ErredFacts DEF CreateSnapshot,
       TypeOK, SnapshotsTyped, StackTyped, Stages, HibernateStages
  <2>1. TypeOK'
    BY <1>6, <1>0, <2>d, <2>g, <2>c DEF CreateSnapshot, RecordTyped, TypeOK,
       DriverTyped, SnapshotsTyped, StackTyped, ProcessTyped
  <2>2. ControlInv'
    BY <1>6, <1>0, <2>d DEF CreateSnapshot, ControlInv, PhaseInv, AuthorityInv,
       ConsentScoped, WakeStages, HibernateStages
  <2>3. CopiesInv'
    <3>1. SnapshotInv'
      <4>1. cur' # 0 => cur' \in published'
        BY <1>6, <1>0 DEF CreateSnapshot, SnapshotInv, CopiesInv
      <4>2. \A g \in published' : g <= rec'.gen
        BY <1>6, <1>0, <1>a DEF CreateSnapshot, SnapshotInv, CopiesInv
      <4> QED
        BY <2>c, <4>1, <4>2 DEF SnapshotInv
    <3>2. VersionInv'
      BY <1>6, <1>0, <2>c DEF CreateSnapshot, VersionInv, CopiesInv
    <3> QED
      BY <3>1, <3>2 DEF CopiesInv
  <2>4. ProgressInv'
    BY <2>d, <1>6, <1>0, <2>c DEF WakeInv, CreateSnapshot, HibernateInv,
       ProgressInv
  <2>5. SafetyInv'
    BY <1>6, <1>0 DEF CreateSnapshot, SafetyInv, NothingLost,
       VolumeAuthorityIsComplete, NoWriterUnderSnapshotAuthority,
       ActiveIsWhole, ControlInv, PhaseInv, AuthorityInv
  <2> QED
    BY <2>1, <2>2, <2>3, <2>4, <2>5 DEF Inv
<1>7. ASSUME PublishCurrent
     PROVE  Inv'
  <2>d. /\ drv' \in Drivers /\ drv'.op = drv.op
        /\ drv'.tries = drv.tries /\ drv'.src = drv.src
        /\ \/ drv'.pc = "begin_stop"
           \/ drv'.pc = "error"
    BY <1>7, <1>a, GotoFacts, ErredFacts DEF PublishCurrent, Stages,
       HibernateStages
  <2>g. rec.gen \in Gens
    BY <1>7, <1>0, <1>a DEF PublishCurrent, Gens, TypeOK, RecordTyped,
       ControlInv, PhaseInv
  <2>c. \/ drv'.pc = "begin_stop" /\ cur' = rec.gen
        \/ drv'.pc = "error" /\ cur' \in {cur, rec.gen}
    BY <1>7, <1>a, GotoFacts, ErredFacts DEF PublishCurrent, Stages,
       HibernateStages
  <2>1. TypeOK'
    BY <1>7, <1>0, <1>a, <2>d DEF PublishCurrent, TypeOK, RecordTyped,
       DriverTyped, SnapshotsTyped, StackTyped, ProcessTyped, Gens
  <2>2. ControlInv'
    BY <1>7, <1>0, <2>d DEF PublishCurrent, ControlInv, PhaseInv, AuthorityInv,
       ConsentScoped, WakeStages, HibernateStages
  <2>3. CopiesInv'
    BY <1>7, <1>0, <2>d DEF PublishCurrent, SnapshotInv, CopiesInv,
       ProgressInv, HibernateInv, VersionInv
  <2>4. ProgressInv'
    BY <2>d, <1>7, <1>0, <2>c DEF WakeInv, PublishCurrent, HibernateInv,
       ProgressInv
  <2>5. SafetyInv'
    BY <1>7, <1>0 DEF PublishCurrent, SafetyInv, NothingLost,
       VolumeAuthorityIsComplete, NoWriterUnderSnapshotAuthority,
       ActiveIsWhole, ControlInv, PhaseInv, AuthorityInv
  <2> QED
    BY <2>1, <2>2, <2>3, <2>4, <2>5 DEF Inv
<1>8. ASSUME BeginStop
     PROVE  Inv'
  <2>r. /\ rec' \in StateRecords
        /\ rec'.state = "stopping" /\ rec'.gen = rec.gen /\ rec'.sa = TRUE /\ rec'.rg = rec.rg
    BY <1>8, <1>a, StopBegunFacts DEF BeginStop
  <2>d. /\ drv' \in Drivers /\ drv'.op = drv.op /\ drv'.pc = "release"
        /\ drv'.tries = drv.tries /\ drv'.src = drv.src
    BY <1>8, <1>a, GotoFacts DEF BeginStop, Stages, HibernateStages
  <2>1. TypeOK'
    BY <1>8, <1>0, <2>r, <2>d DEF BeginStop, TypeOK, RecordTyped, DriverTyped,
       SnapshotsTyped, StackTyped, ProcessTyped
  <2>2. ControlInv'
    BY <1>8, <1>0, <2>r, <2>d DEF BeginStop, ControlInv, PhaseInv,
       AuthorityInv, ConsentScoped, CanRecover, WakeStages, HibernateStages
  <2>3. CopiesInv'
    BY <1>8, <1>0, <2>r, <2>d DEF BeginStop, CopiesInv, SnapshotInv, VersionInv
  <2>4. ProgressInv'
    BY <2>d DEF ProgressInv, WakeInv, HibernateInv
  <2>5. SafetyInv'
    BY <1>8, <1>0, <2>r DEF BeginStop, NothingLost, HibernateInv, SafetyInv,
       ProgressInv, VolumeAuthorityIsComplete, NoWriterUnderSnapshotAuthority,
       Stopped, ActiveIsWhole
  <2> QED
    BY <2>1, <2>2, <2>3, <2>4, <2>5 DEF Inv
<1>9. ASSUME ReleaseActiveStorage
     PROVE  Inv'
  <2>d. /\ drv' \in Drivers /\ drv'.op = drv.op
        /\ drv'.tries = drv.tries /\ drv'.src = drv.src
        /\ \/ drv'.pc = "complete"
           \/ drv'.pc = "error"
    BY <1>9, <1>a, GotoFacts, ErredFacts DEF ReleaseActiveStorage, Stages,
       HibernateStages
  <2>1. TypeOK'
    BY <1>9, <1>0, <2>d DEF ReleaseActiveStorage, TypeOK, RecordTyped,
       DriverTyped, SnapshotsTyped, StackTyped, ProcessTyped
  <2>2. ControlInv'
    BY <1>9, <1>0, <2>d DEF ReleaseActiveStorage, ControlInv, PhaseInv,
       AuthorityInv, ConsentScoped, WakeStages, HibernateStages
  <2>3. CopiesInv'
    BY <1>9, <1>0, <2>d DEF ReleaseActiveStorage, CopiesInv, SnapshotInv,
       VersionInv
  <2>4. ProgressInv'
    BY <2>d DEF ProgressInv, WakeInv, HibernateInv
  <2>5. SafetyInv'
    BY <1>9, <1>0 DEF ReleaseActiveStorage, SafetyInv, NothingLost,
       VolumeAuthorityIsComplete, NoWriterUnderSnapshotAuthority,
       ActiveIsWhole, Stopped, ControlInv, PhaseInv, AuthorityInv
  <2> QED
    BY <2>1, <2>2, <2>3, <2>4, <2>5 DEF Inv
<1>10. ASSUME CompleteHibernate
     PROVE  Inv'
  <2>r. /\ rec' \in StateRecords
        /\ rec'.state = "hibernated" /\ rec'.gen = rec.gen /\ rec'.sa = rec.sa /\ rec'.rg = rec.rg
    BY <1>10, <1>a, HibernateCompletedFacts DEF CompleteHibernate
  <2>d. /\ drv' \in Drivers /\ drv'.op = "none" /\ drv'.pc = "idle"
        /\ drv'.tries = 0 /\ drv'.src = 0
    BY <1>10, IdleFacts DEF CompleteHibernate
  <2>1. TypeOK'
    BY <1>10, <1>0, <1>a, <2>r, <2>d DEF CompleteHibernate, TypeOK,
       RecordTyped, DriverTyped, SnapshotsTyped, StackTyped, ProcessTyped
  <2>2. ControlInv'
    BY <1>10, <1>0, <2>r, <2>d DEF CompleteHibernate, ControlInv, PhaseInv,
       AuthorityInv, ConsentScoped, WakeStages, HibernateStages
  <2>3. CopiesInv'
    BY <1>10, <1>0, <2>r, <2>d DEF CompleteHibernate, CopiesInv, SnapshotInv,
       VersionInv
  <2>4. ProgressInv'
    BY <2>d DEF ProgressInv, WakeInv, HibernateInv
  <2>5. SafetyInv'
    BY <1>10, <1>0, <2>r DEF CompleteHibernate, SafetyInv, NothingLost,
       VolumeAuthorityIsComplete, NoWriterUnderSnapshotAuthority,
       ActiveIsWhole, Stopped
  <2> QED
    BY <2>1, <2>2, <2>3, <2>4, <2>5 DEF Inv
<1> QED
  BY <1>1, <1>2, <1>3, <1>4, <1>5, <1>6, <1>7, <1>8, <1>9, <1>10

\* The ends of a failed operation, the running stack and the clock.
LEMMA EndSteps ==
    ASSUME Inv
    PROVE  (RetryWake \/ AbandonWake \/ FailAttempt \/ FailRecovery \/ Write
              \/ Tick) => Inv'
<1> USE DEF At, process, snapshots, volume, history, budget
<1>0. TypeOK /\ ControlInv /\ CopiesInv /\ ProgressInv /\ SafetyInv
  BY DEF Inv
<1>a. /\ rec \in StateRecords /\ rec.gen \in Nat /\ rec.rg \in Nat /\ rec.sa \in BOOLEAN
      /\ drv \in Drivers /\ drv.src \in Gens \cup {0} /\ drv.tries \in Nat /\ drv.op \in Ops
      /\ now \in Nat /\ MaxGen \in Nat /\ WakeAttempts \in Nat \ {0}
  BY <1>0, FieldFacts
<1>1. ASSUME RetryWake
     PROVE  Inv'
  <2>d. /\ drv' \in Drivers /\ drv'.op = "wake" /\ drv'.pc = "choose"
        /\ drv'.tries = drv.tries + 1 /\ drv'.src = 0
    BY <1>1, <1>a, RetryingFacts DEF RetryWake
  <2>1. TypeOK'
    BY <1>1, <1>0, <1>a, <2>d DEF RetryWake, TypeOK, RecordTyped, DriverTyped,
       SnapshotsTyped, StackTyped, ProcessTyped
  <2>2. ControlInv'
    BY <1>1, <1>0, <2>d DEF RetryWake, ControlInv, PhaseInv, AuthorityInv,
       ConsentScoped, HibernateStages
  <2>3. CopiesInv'
    BY <1>1, <1>0, <2>d DEF RetryWake, CopiesInv, SnapshotInv, VersionInv
  <2>4. ProgressInv'
    BY <2>d DEF ProgressInv, WakeInv, HibernateInv
  <2>5. SafetyInv'
    BY <1>1, <1>0 DEF RetryWake, SafetyInv, NothingLost,
       VolumeAuthorityIsComplete, NoWriterUnderSnapshotAuthority,
       ActiveIsWhole, Stopped
  <2> QED
    BY <2>1, <2>2, <2>3, <2>4, <2>5 DEF Inv
<1>2. ASSUME AbandonWake
     PROVE  Inv'
  <2>d. /\ drv' \in Drivers /\ drv'.op = "none" /\ drv'.pc = "idle"
        /\ drv'.tries = 0 /\ drv'.src = 0
    BY <1>2, IdleFacts DEF AbandonWake
  <2>1. TypeOK'
    BY <1>2, <1>0, <1>a, <2>d DEF AbandonWake, TypeOK, RecordTyped,
       DriverTyped, SnapshotsTyped, StackTyped, ProcessTyped
  <2>2. ControlInv'
    BY <1>2, <1>0, <2>d DEF AbandonWake, ControlInv, PhaseInv, AuthorityInv,
       ConsentScoped, WakeStages, HibernateStages
  <2>3. CopiesInv'
    BY <1>2, <1>0, <2>d DEF AbandonWake, CopiesInv, SnapshotInv, VersionInv
  <2>4. ProgressInv'
    BY <2>d DEF ProgressInv, WakeInv, HibernateInv
  <2>5. SafetyInv'
    BY <1>2, <1>0 DEF AbandonWake, SafetyInv, NothingLost,
       VolumeAuthorityIsComplete, NoWriterUnderSnapshotAuthority,
       ActiveIsWhole, Stopped
  <2> QED
    BY <2>1, <2>2, <2>3, <2>4, <2>5 DEF Inv
<1>3. ASSUME FailAttempt
     PROVE  Inv'
  <2>r. /\ rec' \in StateRecords
        /\ rec'.state = "failed" /\ rec'.gen = rec.gen /\ rec'.sa = rec.sa /\ rec'.rg = 0
    BY <1>3, <1>a, FailedFacts DEF FailAttempt
  <2>d. /\ drv' \in Drivers /\ drv'.op = "none" /\ drv'.pc = "idle"
        /\ drv'.tries = 0 /\ drv'.src = 0
    BY <1>3, IdleFacts DEF FailAttempt
  <2>1. TypeOK'
    BY <1>3, <1>0, <1>a, <2>r, <2>d DEF FailAttempt, TypeOK, RecordTyped,
       DriverTyped, SnapshotsTyped, StackTyped, ProcessTyped
  <2>2. ControlInv'
    BY <1>3, <1>0, <2>r, <2>d DEF FailAttempt, ControlInv, PhaseInv,
       AuthorityInv, ConsentScoped, CanRecover, WakeStages, HibernateStages
  <2>3. CopiesInv'
    BY <1>3, <1>0, <2>r, <2>d DEF FailAttempt, CopiesInv, SnapshotInv,
       VersionInv
  <2>4. ProgressInv'
    BY <2>d DEF ProgressInv, WakeInv, HibernateInv
  <2>5. SafetyInv'
    BY <1>3, <1>0, <2>r DEF FailAttempt, SafetyInv, NothingLost,
       VolumeAuthorityIsComplete, NoWriterUnderSnapshotAuthority,
       ActiveIsWhole, Stopped
  <2> QED
    BY <2>1, <2>2, <2>3, <2>4, <2>5 DEF Inv
<1>4. ASSUME FailRecovery
     PROVE  Inv'
  <2>r. /\ rec' \in StateRecords
        /\ rec'.state = "failed" /\ rec'.gen = rec.gen /\ rec'.sa = rec.sa /\ rec'.rg = 0
    BY <1>4, <1>a, FailedFacts DEF FailRecovery
  <2>d. /\ drv' \in Drivers /\ drv'.op = "none" /\ drv'.pc = "idle"
        /\ drv'.tries = 0 /\ drv'.src = 0
    BY <1>4, IdleFacts DEF FailRecovery, Exit
  <2>1. TypeOK'
    <3>1. RecordTyped'
      BY <1>0, <2>r DEF RecordTyped, TypeOK
    <3>2. DriverTyped'
      BY <1>a, <2>d DEF DriverTyped
    <3>3. SnapshotsTyped'
      BY <1>4, <1>0 DEF FailRecovery, SnapshotsTyped, TypeOK
    <3>4. StackTyped'
      BY <1>4, <1>0 DEF FailRecovery, StackTyped, TypeOK
    <3>5. ProcessTyped'
      BY <1>4, <1>0 DEF FailRecovery, Exit, ProcessTyped, TypeOK
    <3> QED
      BY <3>1, <3>2, <3>3, <3>4, <3>5 DEF TypeOK
  <2>2. ControlInv'
    BY <1>4, <1>0, <2>r, <2>d DEF FailRecovery, ControlInv, PhaseInv,
       AuthorityInv, ConsentScoped, WakeStages, HibernateStages
  <2>3. CopiesInv'
    BY <1>4, <1>0, <2>r, <2>d DEF FailRecovery, CopiesInv, SnapshotInv,
       VersionInv
  <2>4. ProgressInv'
    BY <2>d DEF ProgressInv, WakeInv, HibernateInv
  <2>5. SafetyInv'
    BY <1>4, <1>0, <2>r DEF FailRecovery, SafetyInv, NothingLost,
       VolumeAuthorityIsComplete, NoWriterUnderSnapshotAuthority,
       ActiveIsWhole, Stopped
  <2> QED
    BY <2>1, <2>2, <2>3, <2>4, <2>5 DEF Inv
<1>5. ASSUME Write
     PROVE  Inv'
  <2>1. TypeOK'
    BY <1>5, <1>0 DEF Write, Written, TypeOK, RecordTyped, DriverTyped,
       SnapshotsTyped, StackTyped, ProcessTyped
  <2>2. ControlInv'
    BY <1>5, <1>0 DEF Write, Written, ControlInv, PhaseInv, AuthorityInv,
       ConsentScoped
  <2>3. CopiesInv'
    BY <1>5, <1>0 DEF Write, SnapshotInv, CopiesInv, Written, VersionInv,
       SnapshotsTyped, StackTyped, TypeOK
  <2>4. ProgressInv'
    BY <1>5, <1>0 DEF Write, Written, ProgressInv, WakeInv, HibernateInv
  <2>5. SafetyInv'
    BY <1>5, <1>0 DEF Write, Written, SafetyInv, NothingLost,
       VolumeAuthorityIsComplete, NoWriterUnderSnapshotAuthority,
       ActiveIsWhole, Stopped
  <2> QED
    BY <2>1, <2>2, <2>3, <2>4, <2>5 DEF Inv
<1>6. ASSUME Tick
     PROVE  Inv'
  <2>1. TypeOK'
    BY <1>6, <1>0 DEF Tick, TypeOK, RecordTyped, DriverTyped, SnapshotsTyped,
       StackTyped, ProcessTyped
  <2>2. ControlInv'
    BY <1>6, <1>0 DEF Tick, ControlInv, PhaseInv, AuthorityInv, ConsentScoped
  <2>3. CopiesInv'
    BY <1>6, <1>0 DEF Tick, CopiesInv, SnapshotInv, VersionInv
  <2>4. ProgressInv'
    BY <1>6, <1>0 DEF Tick, ProgressInv, WakeInv, HibernateInv
  <2>5. SafetyInv'
    BY <1>6, <1>0 DEF Tick, SafetyInv, NothingLost, VolumeAuthorityIsComplete,
       NoWriterUnderSnapshotAuthority, ActiveIsWhole, Stopped
  <2> QED
    BY <2>1, <2>2, <2>3, <2>4, <2>5 DEF Inv
<1> QED
  BY <1>1, <1>2, <1>3, <1>4, <1>5, <1>6

-----------------------------------------------------------------------------
\* A deployment that has never run satisfies the invariant.
LEMMA InvInit ==
    ASSUME Init
    PROVE  Inv
<1>1. /\ rec.state = "hibernated" /\ rec.gen = 0 /\ rec.rg = 0 /\ rec.sa = FALSE
      /\ rec \in StateRecords
  BY DEF Init, Seed, StateRecords, States
<1>2. /\ drv.pc = "idle" /\ drv.op = "none" /\ drv.tries = 0 /\ drv \in Drivers
  BY IdleFacts DEF Init
<1>3. TypeOK
  <2>1. RecordTyped /\ DriverTyped /\ SnapshotsTyped
    BY <1>1, <1>2, StackAssumption DEF Init, RecordTyped, DriverTyped, SnapshotsTyped
  <2>2. StackTyped /\ ProcessTyped
    BY DEF Init, StackTyped, ProcessTyped, Running
  <2> QED
    BY <2>1, <2>2 DEF TypeOK
<1>4. ControlInv
  BY <1>1, <1>2 DEF Init, ControlInv, PhaseInv, AuthorityInv, ConsentScoped,
     WakeStages, HibernateStages
<1>5. CopiesInv
  BY <1>1, <1>2 DEF Init, CopiesInv, SnapshotInv, VersionInv
<1>6. ProgressInv
  BY <1>2 DEF ProgressInv, WakeInv, HibernateInv
<1>7. SafetyInv
  BY <1>1 DEF Init, SafetyInv, NothingLost, VolumeAuthorityIsComplete,
     NoWriterUnderSnapshotAuthority, ActiveIsWhole
<1> QED
  BY <1>3, <1>4, <1>5, <1>6, <1>7 DEF Inv

\* Every step of the stack keeps the invariant.
LEMMA InvStep ==
    ASSUME Inv, [Next]_vars
    PROVE  Inv'
<1>1. CASE UNCHANGED vars
  BY <1>1 DEF vars, Inv, TypeOK, RecordTyped, DriverTyped, SnapshotsTyped, StackTyped,
       ProcessTyped, ControlInv, PhaseInv, AuthorityInv, ConsentScoped, CopiesInv,
       SnapshotInv, VersionInv, ProgressInv, WakeInv, HibernateInv, SafetyInv,
       NothingLost, VolumeAuthorityIsComplete, NoWriterUnderSnapshotAuthority,
       Stopped, ActiveIsWhole
<1>2. CASE Next
  BY <1>2, ProcessSteps, RequestSteps, WakeSteps, HibernateSteps, EndSteps
     DEF Next, Drive, RequestWake, ScheduledWake
<1> QED
  BY <1>1, <1>2

\* The invariant holds throughout every behaviour.
LEMMA Invariance == Spec => []Inv
BY InvInit, InvStep, PTL DEF Spec

-----------------------------------------------------------------------------
(* The invariants of the runs, for every value of the constants.           *)

\* The types of the record, the driver, both copies and the process.
THEOREM StackTyping == Spec => []TypeOK
<1>1. Inv => TypeOK
  BY DEF Inv
<1> QED
  BY <1>1, Invariance, PTL

\* Hibernate, WakeAt, Recover, retries and acknowledged failures lose no
\* accepted write, wherever the process crashes.
THEOREM NoAcceptedWriteIsLost == Spec => []NothingLost
<1>1. Inv => NothingLost
  BY DEF Inv, SafetyInv
<1> QED
  BY <1>1, Invariance, PTL

\* The volume with authority is complete, nothing runs that could write what the
\* next restore destroys, and an ACTIVE stack runs all its parts on that volume.
THEOREM StackIsSound == Spec => []CopiesAreSound
<1>1. Inv => CopiesAreSound
  BY DEF Inv, SafetyInv, CopiesAreSound
<1> QED
  BY <1>1, Invariance, PTL

-----------------------------------------------------------------------------
(* Publication.                                                            *)

\* The two actions that publish, and every other step.
LEMMA PublicationShape ==
    ASSUME [Next]_vars
    PROVE  UNCHANGED snapshots \/ CreateSnapshot \/ PublishCurrent
<1> USE DEF snapshots
<1>1. CASE UNCHANGED vars
  BY <1>1 DEF vars
<1>2. CASE Start \/ Crash \/ Shutdown \/ ShutdownComplete \/ StoreError \/ Write \/ Tick
  BY <1>2 DEF Start, Crash, Shutdown, ShutdownComplete, StoreError, Write, Tick
<1>3. CASE RequestWake \/ ScheduledWake \/ AcknowledgeFailure \/ BeginHibernate
           \/ (\E g \in Gens : OperatorRestore(g))
           \/ (\E d \in 0..MaxNow : SetWakeDeadline(d))
  BY <1>3 DEF RequestWake, ScheduledWake, BeginWake, AcknowledgeFailure,
     BeginHibernate, OperatorRestore, SetWakeDeadline
<1>4. CASE Drive
  BY <1>4 DEF Drive, Choose, Inspect, DeclareSnapshot, RestoreBegin, RestoreEnd,
     StartPersistence, DeclareVolume, Migrate, StartWorkers, StartServers, Activate,
     HibernateInspect, DrainServers, StopWorkers, BeginSnapshot, StopPersistence,
     BeginStop, ReleaseActiveStorage, CompleteHibernate, RetryWake, AbandonWake,
     FailAttempt, FailRecovery
<1> QED
  BY <1>1, <1>2, <1>3, <1>4 DEF Next

\* A published manifest is never withdrawn or rewritten, and current.json
\* never moves back: the fence of a hibernation is fresh.
THEOREM PublicationIsMonotone == Spec => PublishedImmutable
<1>1. ASSUME Inv, [Next]_vars
      PROVE  [ /\ published \subseteq published'
               /\ \A g \in published : content'[g] = content[g]
               /\ cur <= cur' ]_vars
  <2>1. /\ cur \in Nat /\ rec.gen \in Nat /\ content \in [Gens -> Nat]
        /\ published \subseteq Gens /\ Gens \subseteq Nat
    BY <1>1, StackAssumption
       DEF Inv, TypeOK, RecordTyped, StateRecords, SnapshotsTyped, Gens
  <2>2. CASE UNCHANGED snapshots
    BY <2>1, <2>2 DEF snapshots
  <2>3. CASE CreateSnapshot
    <3>1. rec.gen \notin published
      BY <1>1, <2>3 DEF CreateSnapshot, At, Inv, CopiesInv, SnapshotInv
    <3> QED
      BY <2>1, <2>3, <3>1 DEF CreateSnapshot
  <2>4. CASE PublishCurrent
    <3>1. cur <= rec.gen
      BY <1>1, <2>1 DEF Inv, CopiesInv, SnapshotInv
    <3> QED
      BY <2>1, <2>4, <3>1 DEF PublishCurrent
  <2> QED
    BY <1>1, <2>2, <2>3, <2>4, PublicationShape
<1> QED
  BY <1>1, Invariance, PTL DEF Spec, PublishedImmutable

-----------------------------------------------------------------------------
(* The wake deadline.                                                      *)

\* Every step leaves the state of the record alone, carries its deadline, or is
\* Activate.
LEMMA DeadlineShape ==
    ASSUME Inv, [Next]_vars
    PROVE  rec'.state = rec.state \/ rec'.deadline = rec.deadline \/ Activate
<1>0. rec \in StateRecords /\ now \in Nat
  BY FieldFacts DEF Inv
<1>1. CASE UNCHANGED vars
  BY <1>1 DEF vars
<1>2. CASE Start
  BY <1>0, <1>2, RecoveryBegunFacts DEF Start
<1>3. CASE Crash \/ Shutdown \/ ShutdownComplete \/ StoreError \/ Write \/ Tick
  BY <1>3 DEF Crash, Shutdown, ShutdownComplete, StoreError, Write, Tick
<1>4. CASE RequestWake \/ ScheduledWake \/ AcknowledgeFailure \/ BeginHibernate
  BY <1>0, <1>4, WakeBegunFacts, FailureAcknowledgedFacts, HibernateBegunFacts
  DEF RequestWake, ScheduledWake, BeginWake, AcknowledgeFailure, BeginHibernate
<1>5. ASSUME NEW g \in Gens, OperatorRestore(g) PROVE rec'.deadline = rec.deadline
  <2>1. g \in Nat
    BY StackAssumption DEF Gens
  <2> QED BY <1>0, <1>5, <2>1, OperatorRestoreBegunFacts DEF OperatorRestore
<1>6. ASSUME NEW d \in 0..MaxNow, SetWakeDeadline(d) PROVE rec'.state = rec.state
  <2>1. d \in Nat
    BY StackAssumption
  <2> QED BY <1>0, <1>6, <2>1, DeadlineSetFacts DEF SetWakeDeadline
<1>7. CASE DeclareSnapshot \/ DeclareVolume \/ BeginSnapshot \/ BeginStop
           \/ CompleteHibernate
  <2>1. CASE DeclareSnapshot \/ DeclareVolume
    BY <1>0, <2>1, SnapshotDeclaredFacts, VolumeDeclaredFacts DEF DeclareSnapshot, DeclareVolume
  <2>2. CASE BeginSnapshot
    BY <1>0, <2>2, SnapshotBegunFacts DEF BeginSnapshot
  <2>3. CASE BeginStop
    BY <1>0, <2>3, StopBegunFacts DEF BeginStop
  <2>4. CASE CompleteHibernate
    BY <1>0, <2>4, HibernateCompletedFacts DEF CompleteHibernate
  <2> QED BY <1>7, <2>1, <2>2, <2>3, <2>4
<1>8. CASE RetryWake \/ AbandonWake \/ FailAttempt \/ FailRecovery
  BY <1>0, <1>8, FailedFacts DEF RetryWake, AbandonWake, FailAttempt, FailRecovery
<1>9. CASE Choose \/ Inspect \/ RestoreBegin \/ RestoreEnd \/ StartPersistence \/ Migrate
           \/ StartWorkers \/ StartServers \/ HibernateInspect \/ DrainServers
           \/ StopWorkers \/ StopPersistence \/ CreateSnapshot \/ PublishCurrent
           \/ ReleaseActiveStorage
  BY <1>9 DEF Choose, Inspect, RestoreBegin, RestoreEnd, StartPersistence, Migrate,
     StartWorkers, StartServers, HibernateInspect, DrainServers, StopWorkers,
     StopPersistence, CreateSnapshot, PublishCurrent, ReleaseActiveStorage
<1> QED
  BY <1>1, <1>2, <1>3, <1>4, <1>5, <1>6, <1>7, <1>8, <1>9 DEF Next, Drive

\* Waking, hibernating, failing, acknowledging, recovering and restoring carry
\* the deadline of carryLocked; Activate drops it only when it has passed.
THEOREM DeadlineSurvives == Spec => DeadlineCarried
<1>1. ASSUME Inv, [Next]_vars
      PROVE  [rec'.state # rec.state /\ rec.deadline > now
                => rec'.deadline = rec.deadline]_vars
  <2>1. rec \in StateRecords /\ now \in Nat
    BY <1>1, FieldFacts DEF Inv
  <2>2. Activate /\ rec.deadline > now => rec'.deadline = rec.deadline
    BY <2>1, ActivatedFacts, ZenonT(60) DEF Activate
  <2> QED BY <1>1, <2>2, DeadlineShape
<1> QED
  BY <1>1, Invariance, PTL DEF Spec, DeadlineCarried

-----------------------------------------------------------------------------
(* Refinement.                                                             *)

\* What a step does to the data: nothing, a write, a restore asked for, a
\* restored volume declared, or the stack serving what it has.
LEMMA DataShape ==
    ASSUME Inv, [Next]_vars
    PROVE  \/ top' = top /\ latest' = latest /\ consent' = consent
           \/ top' = top + 1 /\ latest' = top + 1 /\ consent' = consent
           \/ /\ consent' = "asked" /\ top' = top /\ rec'.sa = rec.sa
              /\ UNCHANGED <<volVer, cur, content>>
           \/ consent' = "spent" /\ consent # "none" /\ top' = top
           \/ consent' = "none" /\ top' = top /\ ~rec.sa /\ ~rec'.sa /\ volVer' = volVer
<1> USE DEF history, volume, snapshots
<1>0. rec \in StateRecords /\ now \in Nat
  BY FieldFacts DEF Inv
<1>1. CASE UNCHANGED vars
  BY <1>1 DEF vars
<1>2. CASE Start \/ Crash \/ Shutdown \/ ShutdownComplete \/ StoreError \/ Write \/ Tick
  BY <1>2 DEF Start, Crash, Shutdown, ShutdownComplete, StoreError, Write, Written, Tick
<1>3. CASE RequestWake \/ ScheduledWake \/ AcknowledgeFailure \/ BeginHibernate
           \/ (\E d \in 0..MaxNow : SetWakeDeadline(d))
  BY <1>3 DEF RequestWake, ScheduledWake, BeginWake, AcknowledgeFailure,
     BeginHibernate, SetWakeDeadline
<1>4. CASE \E g \in Gens : OperatorRestore(g)
  <2> PICK g \in Gens : OperatorRestore(g)
    BY <1>4
  <2>1. g \in Nat
    BY StackAssumption DEF Gens
  <2> QED
    BY <1>0, <2>1, OperatorRestoreBegunFacts DEF OperatorRestore
<1>5. CASE DeclareVolume
  BY <1>5 DEF DeclareVolume, Inv, ControlInv, AuthorityInv
<1>6. CASE Activate
  <2>1. ~rec.sa
    BY <1>6 DEF Activate, At, Inv, ProgressInv, WakeInv
  <2> QED
    BY <1>0, <1>6, <2>1, ActivatedFacts DEF Activate
<1>7. CASE Drive /\ ~DeclareVolume /\ ~Activate
  BY <1>7 DEF Drive, Choose, Inspect, DeclareSnapshot, RestoreBegin, RestoreEnd,
     StartPersistence, Migrate, Written, StartWorkers, StartServers,
     HibernateInspect, DrainServers, StopWorkers, BeginSnapshot, StopPersistence,
     CreateSnapshot, PublishCurrent, BeginStop, ReleaseActiveStorage,
     CompleteHibernate, RetryWake, AbandonWake, FailAttempt, FailRecovery
<1> QED
  BY <1>1, <1>2, <1>3, <1>4, <1>5, <1>6, <1>7 DEF Next

\* The authoritative copy holds a version that was written, and the newest
\* accepted one unless a restore was asked for.
CopyBounds ==
    /\ AuthoritativeVersion \in 0..top /\ top \in Nat /\ latest \in Nat
    /\ consent = "none" => AuthoritativeVersion = latest

\* The inductive invariant gives these bounds.
LEMMA CopyFacts == Inv => CopyBounds
<1> SUFFICES ASSUME Inv PROVE CopyBounds
  OBVIOUS
<1>1. AuthoritativeVersion \in 0..top
  BY DEF AuthoritativeVersion, Inv, TypeOK, SnapshotsTyped, StackTyped, CopiesInv, VersionInv
<1>2. consent = "none" => AuthoritativeVersion = latest
  BY StackAssumption DEF AuthoritativeVersion, Inv, TypeOK, SnapshotsTyped, Gens,
     SafetyInv, NothingLost
<1> QED
  BY <1>1, <1>2 DEF CopyBounds, Inv, TypeOK, StackTyped

\* The whole lifecycle implements one durable copy that only accepted writes
\* and an operator's restore change.
THEOREM ImplementsOneCopy == Spec => ImplementsDurableCopy
<1>1. Init => Durable!Init
  BY DEF Init, Durable!Init, AuthoritativeVersion, Seed
<1>2. ASSUME Inv, Inv', [Next]_vars
      PROVE  [Durable!Next]_(Durable!vars)
  <2>1. CopyBounds
    BY <1>2, CopyFacts
  <2>2. CopyBounds'
    BY <1>2, CopyFacts, PTL
  <2> USE DEF Durable!Next, Durable!vars, CopyBounds
  <2>3. CASE top' = top /\ latest' = latest /\ consent' = consent
    BY <2>1, <2>2, <2>3 DEF Durable!Override
  <2>4. CASE top' = top + 1 /\ latest' = top + 1 /\ consent' = consent
    BY <2>1, <2>2, <2>4 DEF Durable!Override, Durable!Accept
  <2>5. CASE /\ consent' = "asked" /\ top' = top /\ rec'.sa = rec.sa
             /\ UNCHANGED <<volVer, cur, content>>
    BY <2>5 DEF Durable!Ask, AuthoritativeVersion
  <2>6. CASE consent' = "spent" /\ consent # "none" /\ top' = top
    BY <2>1, <2>2, <2>6 DEF Durable!Override
  <2>7. CASE consent' = "none" /\ top' = top /\ ~rec.sa /\ ~rec'.sa /\ volVer' = volVer
    BY <2>7 DEF Durable!Serve, AuthoritativeVersion
  <2> QED
    BY <1>2, <2>3, <2>4, <2>5, <2>6, <2>7, DataShape
<1> QED
  BY <1>1, <1>2, Invariance, PTL DEF Spec, ImplementsDurableCopy, Durable!Spec
=============================================================================

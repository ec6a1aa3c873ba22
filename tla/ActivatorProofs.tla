--------------------------- MODULE ActivatorProofs ---------------------------
(***************************************************************************)
(* Proofs about what activator processes share: the lifecycle record       *)
(* (Controller) and the request spool (RequestSpool).                      *)
(*                                                                         *)
(* Controller, for every set of controllers: typing, one owner per fence,  *)
(* the scope of an operator's consent, and the two action properties of    *)
(* the durable record.                                                     *)
(*                                                                         *)
(* RequestSpool, for any number of replicas, requests, faults and any      *)
(* capacity: a request is forwarded again only for a fault, none leaves    *)
(* the queue unforwarded, the outcome reaches the caller that still waits  *)
(* for it, and none is removed before an older one was claimed.            *)
(***************************************************************************)
EXTENDS Controller, RequestSpool, TLAPS

-----------------------------------------------------------------------------
(* Controller.  Successor records.                                         *)

\* A record the durable one may be replaced by in one swap, when no new fence
\* is granted with it.
SameFence(r, s) ==
    /\ s.gen = r.gen
    /\ s.rg # 0 => s.state = "waking"
    /\ s.state # r.state =>
          r.state \in {"waking", "quiescing", "snapshotting", "stopping"}
    /\ s.sa # r.sa =>
          \/ r.state = "waking" /\ s.state \in {"waking", "active"}
          \/ r.state = "snapshotting" /\ s.state = "stopping"

\* ... and when a new fence is granted.
NewFence(r, s) ==
    /\ s.gen = r.gen + 1
    /\ s.rg # 0 => s.state = "waking"
    /\ s.state # "failed"
    /\ s.sa = r.sa

\* What a transition under a new fence makes of the record.
LEMMA FenceTaken ==
    ASSUME NEW r \in StateRecords, NEW st \in States, NEW g \in Nat
    PROVE  LET s == [r EXCEPT !.state = st, !.gen = r.gen + 1, !.rg = g]
               t == [r EXCEPT !.state = st, !.gen = r.gen + 1]
           IN  /\ s \in StateRecords /\ t \in StateRecords
               /\ st # "failed" /\ (g # 0 => st = "waking") => NewFence(r, s)
               /\ st # "failed" /\ r.rg = 0 => NewFence(r, t)
<1> DEFINE next == r.gen + 1
<1>1. next \in Nat
  BY DEF StateRecords
<1> HIDE DEF next
<1> DEFINE s == [r EXCEPT !.state = st, !.gen = next, !.rg = g]
           t == [r EXCEPT !.state = st, !.gen = next]
<1>2. /\ s \in StateRecords /\ s.state = st /\ s.gen = next /\ s.sa = r.sa /\ s.rg = g
      /\ t \in StateRecords /\ t.state = st /\ t.gen = next /\ t.sa = r.sa /\ t.rg = r.rg
  BY <1>1 DEF StateRecords, States
<1>3. /\ st # "failed" /\ (g # 0 => st = "waking") => NewFence(r, s)
      /\ st # "failed" /\ r.rg = 0 => NewFence(r, t)
  <2> HIDE DEF s, t
  <2> QED BY <1>2 DEF next, NewFence
<1> QED
  BY <1>2, <1>3 DEF next

\* Every successor record is a record.
LEMMA Successors ==
    ASSUME NEW r \in StateRecords
    PROVE  /\ \A d \in Nat : DeadlineSet(r, d) \in StateRecords
           /\ \A g \in Nat : OperatorRestoreBegun(r, g) \in StateRecords
           /\ \A t \in Nat : Activated(r, t) \in StateRecords
           /\ WakeBegun(r) \in StateRecords /\ FailureAcknowledged(r) \in StateRecords
           /\ HibernateBegun(r) \in StateRecords
           /\ SnapshotDeclared(r) \in StateRecords /\ VolumeDeclared(r) \in StateRecords
           /\ RecoveryBegun(r) \in StateRecords /\ SnapshotBegun(r) \in StateRecords
           /\ StopBegun(r) \in StateRecords /\ HibernateCompleted(r) \in StateRecords
           /\ Failed(r) \in StateRecords
<1>1. \A st \in States, g \in Nat :
         /\ [r EXCEPT !.state = st, !.gen = r.gen + 1, !.rg = g] \in StateRecords
         /\ [r EXCEPT !.state = st, !.gen = r.gen + 1] \in StateRecords
  BY FenceTaken
<1>2. {"waking", "hibernated", "quiescing"} \subseteq States
  BY DEF States
<1>3. /\ \A g \in Nat : OperatorRestoreBegun(r, g) \in StateRecords
      /\ WakeBegun(r) \in StateRecords /\ FailureAcknowledged(r) \in StateRecords
      /\ HibernateBegun(r) \in StateRecords
  BY <1>1, <1>2 DEF OperatorRestoreBegun, WakeBegun, FailureAcknowledged, HibernateBegun
<1>4. /\ \A d \in Nat : DeadlineSet(r, d) \in StateRecords
      /\ SnapshotDeclared(r) \in StateRecords /\ VolumeDeclared(r) \in StateRecords
  BY DEF StateRecords, DeadlineSet, SnapshotDeclared, VolumeDeclared
<1>5. \A t \in Nat : Activated(r, t) \in StateRecords
  BY DEF StateRecords, States, Activated
<1>6. /\ RecoveryBegun(r) \in StateRecords /\ SnapshotBegun(r) \in StateRecords
      /\ StopBegun(r) \in StateRecords /\ HibernateCompleted(r) \in StateRecords
      /\ Failed(r) \in StateRecords
  BY DEF StateRecords, States, RecoveryBegun, SnapshotBegun, StopBegun,
         HibernateCompleted, Failed
<1> QED
  BY <1>3, <1>4, <1>5, <1>6

\* The transitions that stay under the fence, each from the states it accepts.
LEMMA FenceKept ==
    ASSUME NEW r \in StateRecords, NEW t \in Nat, r.rg # 0 => r.state = "waking"
    PROVE  /\ \A d \in Nat : SameFence(r, DeadlineSet(r, d))
           /\ CanDeclare(r) => /\ SameFence(r, SnapshotDeclared(r))
                               /\ SameFence(r, VolumeDeclared(r))
           /\ CanRecover(r) => SameFence(r, RecoveryBegun(r))
           /\ r.state = "waking" => SameFence(r, Activated(r, t))
           /\ r.state = "quiescing" => SameFence(r, SnapshotBegun(r))
           /\ r.state = "snapshotting" => SameFence(r, StopBegun(r))
           /\ r.state = "stopping" => SameFence(r, HibernateCompleted(r))
           /\ CanFail(r) => SameFence(r, Failed(r))
<1> USE DEF StateRecords, SameFence
<1>1. \A d \in Nat : SameFence(r, DeadlineSet(r, d))
  BY DEF DeadlineSet
<1>2. CanDeclare(r) => SameFence(r, SnapshotDeclared(r)) /\ SameFence(r, VolumeDeclared(r))
  BY DEF CanDeclare, SnapshotDeclared, VolumeDeclared
<1>3. CanRecover(r) => SameFence(r, RecoveryBegun(r))
  BY DEF CanRecover, RecoveryBegun
<1>4. r.state = "waking" => SameFence(r, Activated(r, t))
  <2> DEFINE d == IF r.deadline # 0 /\ r.deadline <= t THEN 0 ELSE r.deadline
  <2> HIDE DEF d
  <2>1. r.state = "waking" => SameFence(r, [r EXCEPT !.state = "active", !.sa = FALSE,
                                                     !.rg = 0, !.deadline = d])
    OBVIOUS
  <2> QED BY <2>1 DEF d, Activated
<1>5. /\ r.state = "quiescing" => SameFence(r, SnapshotBegun(r))
      /\ r.state = "snapshotting" => SameFence(r, StopBegun(r))
      /\ r.state = "stopping" => SameFence(r, HibernateCompleted(r))
  BY DEF SnapshotBegun, StopBegun, HibernateCompleted
<1>6. CanFail(r) => SameFence(r, Failed(r))
  BY DEF CanFail, Failed
<1> QED
  BY <1>1, <1>2, <1>3, <1>4, <1>5, <1>6

\* The transitions that grant the next fence.
LEMMA FenceGranted ==
    ASSUME NEW r \in StateRecords, r.rg # 0 => r.state = "waking"
    PROVE  /\ NewFence(r, WakeBegun(r)) /\ NewFence(r, FailureAcknowledged(r))
           /\ \A g \in Nat : NewFence(r, OperatorRestoreBegun(r, g))
           /\ r.state = "active" => NewFence(r, HibernateBegun(r))
<1>1. /\ {"waking", "hibernated", "quiescing"} \subseteq States /\ 0 \in Nat
      /\ r.state = "active" => r.rg = 0
  BY DEF States
<1>2. NewFence(r, WakeBegun(r)) /\ NewFence(r, FailureAcknowledged(r))
  BY <1>1, FenceTaken DEF WakeBegun, FailureAcknowledged
<1>3. \A g \in Nat : NewFence(r, OperatorRestoreBegun(r, g))
  BY <1>1, FenceTaken DEF OperatorRestoreBegun
<1>4. r.state = "active" => NewFence(r, HibernateBegun(r))
  BY <1>1, FenceTaken DEF HibernateBegun
<1> QED
  BY <1>2, <1>3, <1>4

-----------------------------------------------------------------------------
(* Controller.  Typing.                                                    *)

\* A swap keeps both the durable record and every view well formed.
LEMMA PersistTyped ==
    ASSUME ControllerTypeOK, NEW r \in Controllers, NEW next \in StateRecords, Persist(r, next)
    PROVE  store' \in StateRecords /\ cache' \in [Controllers -> StateRecords]
BY DEF ControllerTypeOK, Persist, Reloaded

\* The history of won fences stays a relation between fences and replicas.
LEMMA WonTyped ==
    ASSUME ControllerTypeOK, NEW r \in Controllers, Won(r)
    PROVE  won' \subseteq Nat \X Controllers
<1>1. store.gen + 1 \in Nat
  BY DEF ControllerTypeOK, StateRecords
<1> QED
  BY <1>1 DEF ControllerTypeOK, Won

\* Every state of the controller is well typed, for any replicas and bounds.
THEOREM Typing == ControllerSpec => []ControllerTypeOK
<1>1. ControllerInit => ControllerTypeOK
  BY DEF ControllerInit, ControllerTypeOK, Seed, StateRecords, States
<1>2. ControllerTypeOK /\ [ControllerNext]_controllerVars => ControllerTypeOK'
  <2> SUFFICES ASSUME ControllerTypeOK, [ControllerNext]_controllerVars PROVE ControllerTypeOK'
    OBVIOUS
  <2> USE DEF ControllerTypeOK
  <2>1. CASE UNCHANGED controllerVars
    BY <2>1 DEF controllerVars
  <2>2. CASE Tick
    BY <2>2 DEF Tick
  <2>3. ASSUME NEW r \in Controllers, NewPersistent(r) PROVE ControllerTypeOK'
    BY <2>3 DEF NewPersistent, Reloaded
  <2>4. ASSUME NEW r \in Controllers, BeginWakeLoad(r) PROVE ControllerTypeOK'
    BY <2>4 DEF BeginWakeLoad, Reloaded
  <2>5. ASSUME NEW r \in Controllers, BeginWakeSwap(r) PROVE ControllerTypeOK'
    <3>1. WakeBegun(cache[r]) \in StateRecords
      BY Successors
    <3> QED BY <2>5, <3>1, PersistTyped, WonTyped DEF BeginWakeSwap
  <2>6. ASSUME NEW r \in Controllers, NEW fence \in Fences, FencedStep(r, fence)
        PROVE ControllerTypeOK'
    <3>0. fence \in Nat /\ cache[r] \in StateRecords
      BY ControllerAssumption
    <3>1. ASSUME NEW d \in Deadlines, SetWakeDeadline(r, fence, d) PROVE ControllerTypeOK'
      <4>1. DeadlineSet(cache[r], d) \in StateRecords
        BY <3>0, ControllerAssumption, Successors
      <4> QED BY <3>1, <4>1, PersistTyped DEF SetWakeDeadline
    <3>2. CASE AcknowledgeFailure(r, fence)
      <4>1. FailureAcknowledged(cache[r]) \in StateRecords
        BY <3>0, Successors
      <4> QED BY <3>2, <4>1, PersistTyped, WonTyped DEF AcknowledgeFailure
    <3>3. ASSUME NEW g \in Selectable, BeginOperatorRestore(r, fence, g) PROVE ControllerTypeOK'
      <4>1. OperatorRestoreBegun(cache[r], g) \in StateRecords
        BY <3>0, ControllerAssumption, Successors
      <4> QED BY <3>3, <4>1, PersistTyped, WonTyped DEF BeginOperatorRestore
    <3>4. CASE DeclareSnapshotAuthoritative(r, fence)
      <4>1. SnapshotDeclared(cache[r]) \in StateRecords
        BY <3>0, Successors
      <4>2. store' \in StateRecords /\ cache' \in [Controllers -> StateRecords]
        BY <3>4, <4>1, PersistTyped DEF DeclareSnapshotAuthoritative
      <4> QED BY <3>0, <3>4, <4>2 DEF DeclareSnapshotAuthoritative
    <3>5. CASE DeclareVolumeAuthoritative(r, fence)
      <4>1. VolumeDeclared(cache[r]) \in StateRecords
        BY <3>0, Successors
      <4>2. store' \in StateRecords /\ cache' \in [Controllers -> StateRecords]
        BY <3>5, <4>1, PersistTyped DEF DeclareVolumeAuthoritative
      <4> QED BY <3>5, <4>2 DEF DeclareVolumeAuthoritative
    <3>6. CASE BeginRecovery(r, fence)
      <4>1. RecoveryBegun(cache[r]) \in StateRecords
        BY <3>0, Successors
      <4> QED BY <3>6, <4>1, PersistTyped DEF BeginRecovery
    <3>7. CASE Activate(r, fence)
      <4>1. Activated(cache[r], now) \in StateRecords
        BY <3>0, Successors
      <4> QED BY <3>7, <4>1, PersistTyped DEF Activate
    <3>8. CASE BeginHibernate(r, fence)
      <4>1. HibernateBegun(cache[r]) \in StateRecords
        BY <3>0, Successors
      <4> QED BY <3>8, <4>1, PersistTyped, WonTyped DEF BeginHibernate
    <3>9. CASE BeginSnapshot(r, fence)
      <4>1. SnapshotBegun(cache[r]) \in StateRecords
        BY <3>0, Successors
      <4> QED BY <3>9, <4>1, PersistTyped DEF BeginSnapshot
    <3>10. CASE BeginStop(r, fence)
      <4>1. StopBegun(cache[r]) \in StateRecords
        BY <3>0, Successors
      <4> QED BY <3>10, <4>1, PersistTyped DEF BeginStop
    <3>11. CASE CompleteHibernate(r, fence)
      <4>1. HibernateCompleted(cache[r]) \in StateRecords
        BY <3>0, Successors
      <4> QED BY <3>11, <4>1, PersistTyped DEF CompleteHibernate
    <3>12. CASE Fail(r, fence)
      <4>1. Failed(cache[r]) \in StateRecords
        BY <3>0, Successors
      <4> QED BY <3>12, <4>1, PersistTyped DEF Fail
    <3> QED
      BY <2>6, <3>1, <3>2, <3>3, <3>4, <3>5, <3>6, <3>7, <3>8, <3>9, <3>10,
         <3>11, <3>12 DEF FencedStep
  <2> QED
    BY <2>1, <2>2, <2>3, <2>4, <2>5, <2>6 DEF ControllerNext
<1> QED
  BY <1>1, <1>2, PTL DEF ControllerSpec

-----------------------------------------------------------------------------
(* Controller.  The shape of a step.                                       *)

\* A swap takes effect only from a view that equals the durable record.
LEMMA PersistShape ==
    ASSUME NEW r \in Controllers, NEW next, Persist(r, next)
    PROVE  store' = store \/ (cache[r] = store /\ store' = next)
BY DEF Persist

\* Every step leaves the record and the won fences alone, or replaces the record
\* under the same fence, or moves to the next fence and grants it once.
LEMMA StepShape ==
    ASSUME ControllerTypeOK, ConsentScoped, [ControllerNext]_controllerVars
    PROVE  \/ store' = store /\ won' = won
           \/ SameFence(store, store') /\ won' = won
           \/ /\ NewFence(store, store')
              /\ \E r \in Controllers : won' = won \cup {<<store.gen + 1, r>>}
<1> DEFINE Goal == \/ store' = store /\ won' = won
                   \/ SameFence(store, store') /\ won' = won
                   \/ /\ NewFence(store, store')
                      /\ \E r \in Controllers : won' = won \cup {<<store.gen + 1, r>>}
<1>0. store \in StateRecords /\ now \in Nat /\ (store.rg # 0 => store.state = "waking")
  BY DEF ControllerTypeOK, ConsentScoped
<1>1. CASE UNCHANGED controllerVars
  BY <1>1 DEF controllerVars
<1>2. CASE Tick
  BY <1>2 DEF Tick
<1>3. ASSUME NEW r \in Controllers, NewPersistent(r) PROVE Goal
  BY <1>3 DEF NewPersistent
<1>4. ASSUME NEW r \in Controllers, BeginWakeLoad(r) PROVE Goal
  BY <1>4 DEF BeginWakeLoad
<1>5. ASSUME NEW r \in Controllers, BeginWakeSwap(r) PROVE Goal
  <2>1. CASE cache[r] = store
    <3>1. store' = WakeBegun(store) /\ won' = won \cup {<<store.gen + 1, r>>}
      BY <1>5, <2>1 DEF BeginWakeSwap, Persist, Won
    <3>2. NewFence(store, store')
      BY <1>0, <3>1, FenceGranted
    <3> QED BY <3>1, <3>2
  <2>2. CASE cache[r] # store
    BY <1>5, <2>2 DEF BeginWakeSwap, Persist, Won
  <2> QED BY <2>1, <2>2
<1>6. ASSUME NEW r \in Controllers, NEW fence \in Fences, FencedStep(r, fence)
      PROVE  Goal
  <2>1. ASSUME NEW d \in Deadlines, SetWakeDeadline(r, fence, d) PROVE Goal
    <3>1. d \in Nat
      BY ControllerAssumption
    <3>2. store' = store \/ store' = DeadlineSet(store, d)
      BY <2>1, PersistShape DEF SetWakeDeadline
    <3>3. store' = DeadlineSet(store, d) => SameFence(store, store')
      BY <1>0, <3>1, FenceKept
    <3> QED BY <2>1, <3>2, <3>3 DEF SetWakeDeadline
  <2>2. CASE AcknowledgeFailure(r, fence)
    <3>1. CASE cache[r] = store
      <4>1. store' = FailureAcknowledged(store) /\ won' = won \cup {<<store.gen + 1, r>>}
        BY <2>2, <3>1 DEF AcknowledgeFailure, Persist, Won
      <4>2. NewFence(store, store')
        BY <1>0, <4>1, FenceGranted
      <4> QED BY <4>1, <4>2
    <3>2. CASE cache[r] # store
      BY <2>2, <3>2 DEF AcknowledgeFailure, Persist, Won
    <3> QED BY <3>1, <3>2
  <2>3. ASSUME NEW g \in Selectable, BeginOperatorRestore(r, fence, g) PROVE Goal
    <3>0. g \in Nat
      BY ControllerAssumption
    <3>1. CASE cache[r] = store
      <4>1. /\ store' = OperatorRestoreBegun(store, g)
            /\ won' = won \cup {<<store.gen + 1, r>>}
        BY <2>3, <3>1 DEF BeginOperatorRestore, Persist, Won
      <4>2. NewFence(store, store')
        BY <1>0, <3>0, <4>1, FenceGranted
      <4> QED BY <4>1, <4>2
    <3>2. CASE cache[r] # store
      BY <2>3, <3>2 DEF BeginOperatorRestore, Persist, Won
    <3> QED BY <3>1, <3>2
  <2>4. CASE DeclareSnapshotAuthoritative(r, fence)
    <3>1. store' = store \/ (CanDeclare(store) /\ store' = SnapshotDeclared(store))
      BY <2>4, PersistShape DEF DeclareSnapshotAuthoritative
    <3>2. CanDeclare(store) /\ store' = SnapshotDeclared(store) => SameFence(store, store')
      BY <1>0, FenceKept
    <3> QED BY <2>4, <3>1, <3>2 DEF DeclareSnapshotAuthoritative
  <2>5. CASE DeclareVolumeAuthoritative(r, fence)
    <3>1. store' = store \/ (CanDeclare(store) /\ store' = VolumeDeclared(store))
      BY <2>5, PersistShape DEF DeclareVolumeAuthoritative
    <3>2. CanDeclare(store) /\ store' = VolumeDeclared(store) => SameFence(store, store')
      BY <1>0, FenceKept
    <3> QED BY <2>5, <3>1, <3>2 DEF DeclareVolumeAuthoritative
  <2>6. CASE BeginRecovery(r, fence)
    <3>1. store' = store \/ (CanRecover(store) /\ store' = RecoveryBegun(store))
      BY <2>6, PersistShape DEF BeginRecovery
    <3>2. CanRecover(store) /\ store' = RecoveryBegun(store) => SameFence(store, store')
      BY <1>0, FenceKept
    <3> QED BY <2>6, <3>1, <3>2 DEF BeginRecovery
  <2>7. CASE Activate(r, fence)
    <3>1. store' = store \/ (store.state = "waking" /\ store' = Activated(store, now))
      BY <2>7, PersistShape DEF Activate
    <3>2. store.state = "waking" /\ store' = Activated(store, now) => SameFence(store, store')
      BY <1>0, FenceKept
    <3> QED BY <2>7, <3>1, <3>2 DEF Activate
  <2>8. CASE BeginHibernate(r, fence)
    <3>1. CASE cache[r] = store
      <4>1. /\ store.state = "active" /\ store' = HibernateBegun(store)
            /\ won' = won \cup {<<store.gen + 1, r>>}
        BY <2>8, <3>1 DEF BeginHibernate, Persist, Won
      <4>2. NewFence(store, store')
        BY <1>0, <4>1, FenceGranted
      <4> QED BY <4>1, <4>2
    <3>2. CASE cache[r] # store
      BY <2>8, <3>2 DEF BeginHibernate, Persist, Won
    <3> QED BY <3>1, <3>2
  <2>9. CASE BeginSnapshot(r, fence)
    <3>1. store' = store \/ (store.state = "quiescing" /\ store' = SnapshotBegun(store))
      BY <2>9, PersistShape DEF BeginSnapshot
    <3>2. store.state = "quiescing" /\ store' = SnapshotBegun(store) => SameFence(store, store')
      BY <1>0, FenceKept
    <3> QED BY <2>9, <3>1, <3>2 DEF BeginSnapshot
  <2>10. CASE BeginStop(r, fence)
    <3>1. store' = store \/ (store.state = "snapshotting" /\ store' = StopBegun(store))
      BY <2>10, PersistShape DEF BeginStop
    <3>2. store.state = "snapshotting" /\ store' = StopBegun(store) => SameFence(store, store')
      BY <1>0, FenceKept
    <3> QED BY <2>10, <3>1, <3>2 DEF BeginStop
  <2>11. CASE CompleteHibernate(r, fence)
    <3>1. store' = store \/ (store.state = "stopping" /\ store' = HibernateCompleted(store))
      BY <2>11, PersistShape DEF CompleteHibernate
    <3>2. store.state = "stopping" /\ store' = HibernateCompleted(store)
            => SameFence(store, store')
      BY <1>0, FenceKept
    <3> QED BY <2>11, <3>1, <3>2 DEF CompleteHibernate
  <2>12. CASE Fail(r, fence)
    <3>1. store' = store \/ (CanFail(store) /\ store' = Failed(store))
      BY <2>12, PersistShape DEF Fail
    <3>2. CanFail(store) /\ store' = Failed(store) => SameFence(store, store')
      BY <1>0, FenceKept
    <3> QED BY <2>12, <3>1, <3>2 DEF Fail
  <2> QED
    BY <1>6, <2>1, <2>2, <2>3, <2>4, <2>5, <2>6, <2>7, <2>8, <2>9, <2>10,
       <2>11, <2>12 DEF FencedStep
<1> QED
  BY <1>1, <1>2, <1>3, <1>4, <1>5, <1>6 DEF ControllerNext

-----------------------------------------------------------------------------
(* Controller.  Safety.                                                    *)

\* Fences are granted in order, so a fence above the durable one is free.
GrantedInOrder == \A a \in won : a[1] <= store.gen

\* The inductive invariant.
FenceInv == ConsentScoped /\ FenceHasOneOwner /\ GrantedInOrder

\* Every step, of the shape StepShape gives, keeps FenceInv.
LEMMA FenceInvInductive ==
    ASSUME ControllerTypeOK, FenceInv, [ControllerNext]_controllerVars
    PROVE  FenceInv'
<1>1. store.gen \in Nat /\ \A a \in won : a \in Nat \X Controllers
  BY DEF ControllerTypeOK, StateRecords
<1>2. CASE store' = store /\ won' = won
  BY <1>2 DEF FenceInv, ConsentScoped, FenceHasOneOwner, GrantedInOrder
<1>3. CASE SameFence(store, store') /\ won' = won
  BY <1>3 DEF FenceInv, ConsentScoped, FenceHasOneOwner, GrantedInOrder, SameFence
<1>4. CASE /\ NewFence(store, store')
           /\ \E r \in Controllers : won' = won \cup {<<store.gen + 1, r>>}
  <2> PICK r \in Controllers : won' = won \cup {<<store.gen + 1, r>>}
    BY <1>4
  <2>1. store'.gen = store.gen + 1
    BY <1>4 DEF NewFence
  <2>2. ConsentScoped'
    BY <1>4 DEF NewFence, ConsentScoped
  <2>3. GrantedInOrder'
    BY <1>1, <2>1 DEF FenceInv, GrantedInOrder
  <2>4. FenceHasOneOwner'
    BY <1>1 DEF FenceInv, GrantedInOrder, FenceHasOneOwner
  <2> QED BY <2>2, <2>3, <2>4 DEF FenceInv
<1> QED
  BY <1>2, <1>3, <1>4, StepShape DEF FenceInv

\* The seed record has handed out no fence.
LEMMA FenceInvInit == ControllerInit => FenceInv
BY DEF ControllerInit, Seed, FenceInv, ConsentScoped, FenceHasOneOwner, GrantedInOrder

\* No two processes ever own one generation, for any number of processes.
THEOREM OneOwnerPerFence == ControllerSpec => []FenceHasOneOwner
<1>1. FenceInv => FenceHasOneOwner
  BY DEF FenceInv
<1> QED
  BY <1>1, FenceInvInit, FenceInvInductive, Typing, PTL DEF ControllerSpec

\* An operator's selection is found only in a WAKING record.
THEOREM ConsentIsScoped == ControllerSpec => []ConsentScoped
<1>1. FenceInv => ConsentScoped
  BY DEF FenceInv
<1> QED
  BY <1>1, FenceInvInit, FenceInvInductive, Typing, PTL DEF ControllerSpec

\* A settled stack is left only under a new fence and never into FAILED.
THEOREM SettledLeftByNewFence == ControllerSpec => SettledNeedsNewFence
<1>1. ControllerTypeOK /\ FenceInv /\ [ControllerNext]_controllerVars =>
        [store'.state # store.state /\ store.state \in {"active", "hibernated", "failed"}
           => store'.gen = store.gen + 1 /\ store'.state # "failed"]_controllerVars
  BY StepShape DEF FenceInv, SameFence, NewFence
<1> QED
  BY <1>1, FenceInvInit, FenceInvInductive, Typing, PTL DEF ControllerSpec, SettledNeedsNewFence

\* Authority changes hands only inside one attempt.
THEOREM AuthorityIsCarried == ControllerSpec => AuthorityCarried
<1>1. ControllerTypeOK /\ FenceInv /\ [ControllerNext]_controllerVars =>
        [store'.sa # store.sa =>
          /\ store'.gen = store.gen
          /\ \/ store.state = "waking" /\ store'.state \in {"waking", "active"}
             \/ store.state = "snapshotting" /\ store'.state = "stopping"]_controllerVars
  BY StepShape DEF FenceInv, SameFence, NewFence
<1> QED
  BY <1>1, FenceInvInit, FenceInvInductive, Typing, PTL DEF ControllerSpec, AuthorityCarried

-----------------------------------------------------------------------------
(* RequestSpool.  The inductive invariant.                                 *)

\* Numbers not given out yet have no row and no delivery.
FreshInv ==
    \A i \in Ids : i > count => rows[i].st = "absent" /\ ~rows[i].leased /\ forwards[i] = 0

\* A drain works on a request that was handed to the stack.
DrainInv ==
    \A r \in Replicas :
        drain[r].pc \in {"forward", "delete"} => drain[r].id \in Ids /\ forwards[drain[r].id] > 0

\* A lease is a delivery; no request overtakes one that was never delivered.
OrderInv ==
    \A i \in Ids :
        /\ rows[i].st = "queued" /\ rows[i].leased => forwards[i] > 0
        /\ forwards[i] > 0 => \A j \in Ids : j < i /\ rows[j].st = "queued" => forwards[j] > 0

\* Replica r forwards or deletes row i and still owns it.
Busy(r, i) == /\ r \in up /\ drain[r].pc \in {"forward", "delete"} /\ drain[r].id = i
              /\ Holds(r, i)

\* Every delivery but one is paid for, and all of them once the row is free
\* for another claim: no lease, or nobody at work on it.
PaidInv ==
    \A i \in Ids :
        /\ forwards[i] <= 1 + faults[i]
        /\ rows[i].st = "queued" /\ (rows[i].leased => \A r \in Replicas : ~Busy(r, i))
              => forwards[i] <= faults[i]

\* Who waits, waits on a replica.
HomeInv == \A i \in Ids : client[i] = "waiting" => home[i] \in Replicas

Inv == /\ TypeOK /\ FreshInv /\ DrainInv /\ OrderInv /\ PaidInv /\ HomeInv
       /\ AcceptedIsForwarded /\ OutcomeReachesCaller

-----------------------------------------------------------------------------
(* What the updates do to a drain and to a row.                            *)

Pcs == {"idle", "ensure", "claim", "empty", "forward", "delete", "complete", "completeErr", "fail"}

\* Goto moves one drain and keeps what it works on.
LEMMA DrainGoto ==
    ASSUME TypeOK, NEW r \in Replicas, NEW l \in Pcs, Goto(r, l)
    PROVE  /\ drain' \in [Replicas -> Drains]
           /\ drain'[r].pc = l /\ drain'[r].id = drain[r].id
           /\ \A v \in Replicas : v # r => drain'[v] = drain[v]
<1> DEFINE d == [drain[r] EXCEPT !.pc = l]
<1>1. drain[r] \in Drains
  BY DEF TypeOK
<1>2. d \in Drains /\ d.pc = l /\ d.id = drain[r].id
  BY <1>1 DEF Drains, Pcs
<1>3. drain' = [drain EXCEPT ![r] = d]
  BY DEF Goto, TypeOK, Drains
<1> HIDE DEF d
<1> QED BY <1>2, <1>3 DEF TypeOK

\* A drain that ends.
LEMMA DrainReset ==
    ASSUME TypeOK, NEW r \in Replicas, NEW d \in Drains, drain' = [drain EXCEPT ![r] = d]
    PROVE  /\ drain' \in [Replicas -> Drains] /\ drain'[r] = d
           /\ \A v \in Replicas : v # r => drain'[v] = drain[v]
BY DEF TypeOK

\* The idle drain is one.
LEMMA NoDrainTyped == NoDrain \in Drains /\ NoDrain.pc = "idle"
BY DEF NoDrain, Drains

\* Claim hands request i to a drain.
LEMMA DrainClaims ==
    ASSUME TypeOK, NEW r \in Replicas, NEW i \in Ids,
           drain' = [drain EXCEPT ![r].pc = "forward", ![r].id = i]
    PROVE  /\ drain' \in [Replicas -> Drains]
           /\ drain'[r].pc = "forward" /\ drain'[r].id = i
           /\ \A v \in Replicas : v # r => drain'[v] = drain[v]
<1> DEFINE d == [drain[r] EXCEPT !.pc = "forward", !.id = i]
<1>1. drain[r] \in Drains
  BY DEF TypeOK
<1>2. d \in Drains /\ d.pc = "forward" /\ d.id = i
  BY <1>1 DEF Drains
<1>3. drain' = [drain EXCEPT ![r] = d]
  BY DEF TypeOK, Drains
<1> HIDE DEF d
<1> QED BY <1>2, <1>3, ZenonT(60) DEF TypeOK

\* A delete that failed is remembered.
LEMMA DrainFailed ==
    ASSUME TypeOK, NEW r \in Replicas,
           drain' = [drain EXCEPT ![r].pc = "complete", ![r].failed = TRUE]
    PROVE  /\ drain' \in [Replicas -> Drains]
           /\ drain'[r].pc = "complete" /\ drain'[r].id = drain[r].id
           /\ \A v \in Replicas : v # r => drain'[v] = drain[v]
<1> DEFINE d == [drain[r] EXCEPT !.pc = "complete", !.failed = TRUE]
<1>1. drain[r] \in Drains
  BY DEF TypeOK
<1>2. d \in Drains /\ d.pc = "complete" /\ d.id = drain[r].id
  BY <1>1 DEF Drains
<1>3. drain' = [drain EXCEPT ![r] = d]
  BY DEF TypeOK, Drains
<1> HIDE DEF d
<1> QED BY <1>2, <1>3, ZenonT(60) DEF TypeOK

\* A row changes its status and keeps its owner and its lease.
LEMMA RowStatus ==
    ASSUME TypeOK, NEW i \in Ids, NEW s \in {"queued", "deleted"},
           rows' = [rows EXCEPT ![i].st = s]
    PROVE  /\ rows' \in [Ids -> RowRecords]
           /\ rows'[i].st = s /\ rows'[i].owner = rows[i].owner
               /\ (rows'[i].leased <=> rows[i].leased)
           /\ \A j \in Ids : j # i => rows'[j] = rows[j]
<1> DEFINE d == [rows[i] EXCEPT !.st = s]
<1>1. rows[i] \in RowRecords
  BY DEF TypeOK
<1>2. d \in RowRecords /\ d.st = s /\ d.owner = rows[i].owner /\ (d.leased <=> rows[i].leased)
  BY <1>1 DEF RowRecords
<1>3. rows' = [rows EXCEPT ![i] = d]
  BY DEF TypeOK, RowRecords
<1> HIDE DEF d
<1>4. rows'[i] = d /\ (\A j \in Ids : j # i => rows'[j] = rows[j])
      /\ rows' \in [Ids -> RowRecords]
  BY <1>2, <1>3 DEF TypeOK
<1> QED BY <1>2, <1>4

\* A row is leased to a replica.
LEMMA RowLeased ==
    ASSUME TypeOK, NEW i \in Ids, NEW r \in Replicas,
           rows' = [rows EXCEPT ![i].owner = r, ![i].leased = TRUE]
    PROVE  /\ rows' \in [Ids -> RowRecords]
           /\ rows'[i].st = rows[i].st /\ rows'[i].owner = r /\ rows'[i].leased
           /\ \A j \in Ids : j # i => rows'[j] = rows[j]
<1> DEFINE d == [rows[i] EXCEPT !.owner = r, !.leased = TRUE]
<1>1. rows[i] \in RowRecords
  BY DEF TypeOK
<1>2. d \in RowRecords /\ d.st = rows[i].st /\ d.owner = r /\ d.leased
  BY <1>1 DEF RowRecords, Owners
<1>3. rows' = [rows EXCEPT ![i] = d]
  BY DEF TypeOK, RowRecords
<1>4. d \in RowRecords /\ rows \in [Ids -> RowRecords]
  BY <1>2 DEF TypeOK
<1> HIDE DEF d
<1>5. rows'[i] = d /\ (\A j \in Ids : j # i => rows'[j] = rows[j])
      /\ rows' \in [Ids -> RowRecords]
  BY <1>3, <1>4
<1> QED BY <1>2, <1>5

\* A lease lapses.
LEMMA RowLapsed ==
    ASSUME TypeOK, NEW i \in Ids, rows' = [rows EXCEPT ![i].leased = FALSE]
    PROVE  /\ rows' \in [Ids -> RowRecords]
           /\ rows'[i].st = rows[i].st /\ rows'[i].owner = rows[i].owner /\ ~rows'[i].leased
           /\ \A j \in Ids : j # i => rows'[j] = rows[j]
<1> DEFINE d == [rows[i] EXCEPT !.leased = FALSE]
<1>1. rows[i] \in RowRecords
  BY DEF TypeOK
<1>2. d \in RowRecords /\ d.st = rows[i].st /\ d.owner = rows[i].owner /\ ~d.leased
  BY <1>1 DEF RowRecords
<1>3. rows' = [rows EXCEPT ![i] = d]
  BY DEF TypeOK, RowRecords
<1> HIDE DEF d
<1> QED BY <1>2, <1>3 DEF TypeOK

\* A row that cannot be decoded is quarantined.
LEMMA RowPoisoned ==
    ASSUME TypeOK, NEW i \in Ids,
           rows' = [rows EXCEPT ![i] = [st |-> "poisoned", owner |-> "none", leased |-> FALSE]]
    PROVE  /\ rows' \in [Ids -> RowRecords]
           /\ rows'[i].st = "poisoned"
           /\ \A j \in Ids : j # i => rows'[j] = rows[j]
<1> DEFINE d == [st |-> "poisoned", owner |-> "none", leased |-> FALSE]
<1>1. d \in RowRecords /\ d.st = "poisoned"
  BY DEF RowRecords, Owners
<1> HIDE DEF d
<1> QED BY <1>1 DEF TypeOK, d

-----------------------------------------------------------------------------
(* Typing.                                                                 *)

\* Steps of a drain that leave the queue alone.
Move(r) == \/ LoopDrain(r) \/ EnsureActive(r) \/ ClaimedNothing(r) \/ ForwardReturns(r)
           \/ Complete(r) \/ CompleteErr(r) \/ DrainFails(r) \/ \E i \in Ids : RequestDrain(r, i)

\* What happens to a drain that moves on without touching the queue.
LEMMA MoveStep ==
    ASSUME TypeOK, NEW r \in Replicas, Move(r)
    PROVE  /\ UNCHANGED <<rows, foreign, count, home, up, forwards, faults, active, troubles>>
           /\ drain' \in [Replicas -> Drains]
           /\ \A v \in Replicas : v # r => drain'[v] = drain[v]
           /\ drain[r].pc \in {"forward", "delete"} <=> drain'[r].pc \in {"forward", "delete"}
           /\ drain[r].pc \in {"forward", "delete"} => drain'[r].id = drain[r].id
<1>1. UNCHANGED <<rows, foreign, count, home, up, forwards, faults, active, troubles>>
  BY DEF Move, LoopDrain, EnsureActive, ClaimedNothing, ForwardReturns, Complete, CompleteErr,
     DrainFails,
         RequestDrain, queue, callers, local, audit, world
<1>2. CASE LoopDrain(r) \/ EnsureActive(r) \/ ForwardReturns(r) \/ Complete(r) \/ CompleteErr(r)
  <2>1. PICK l \in Pcs : Goto(r, l)
             /\ (drain[r].pc \in {"forward", "delete"} <=> l \in {"forward", "delete"})
    BY <1>2 DEF LoopDrain, EnsureActive, ForwardReturns, Complete, CompleteErr, At, Pcs
  <2> QED BY <1>1, <2>1, DrainGoto
<1>3. CASE ClaimedNothing(r) \/ DrainFails(r)
  BY <1>1, <1>3, DrainReset, NoDrainTyped DEF ClaimedNothing, DrainFails, At
<1>4. CASE \E i \in Ids : RequestDrain(r, i)
  <2>1. PICK i \in Ids : RequestDrain(r, i)
    BY <1>4
  <2> DEFINE d == [NoDrain EXCEPT !.pc = "ensure", !.by = i]
  <2>2. d \in Drains /\ d.pc = "ensure"
    BY DEF NoDrain, Drains
  <2>3. drain' = [drain EXCEPT ![r] = d] /\ drain[r].pc = "idle"
    BY <2>1 DEF RequestDrain, At
  <2> HIDE DEF d
  <2> QED BY <1>1, <2>2, <2>3, DrainReset
<1> QED BY <1>2, <1>3, <1>4 DEF Move

\* Steps that touch neither the queue nor a drain nor a caller.
Still(r) == \/ Register(r) \/ LoopSawEmpty(r) \/ LoopStore(r) \/ Restart(r)
            \/ RotateKey \/ WakeStack \/ StopStack

\* They may only start a replica.
LEMMA StillStep ==
    ASSUME NEW r \in Replicas, Still(r)
    PROVE  UNCHANGED <<rows, count, home, client, drain, forwards, faults>> /\ up \subseteq up'
BY DEF Still, Register, LoopSawEmpty, LoopStore, Restart, RotateKey, WakeStack, StopStack,
       queue, callers, local, audit, world

\* Steps that tell the caller of i that it should try again.
Tell(i) == WaitTimeout(i) \/ \E r \in Replicas : Refuse(r, i)

\* The rest of the steps change the queue or what a caller knows.
LEMMA NextCases ==
    ASSUME Next
    PROVE  \/ \E r \in Replicas : \/ Still(r) \/ Move(r) \/ Enqueue(r) \/ Claim(r) \/ Delete(r)
                                  \/ RenewFails(r) \/ Crash(r)
           \/ \E i \in Ids : Tell(i) \/ Expire(i)
BY SpoolAssumption DEF Next, Drain, Still, Move, Tell

\* A caller is told or not, over well-typed callers.
LEMMA ToldTyped ==
    ASSUME TypeOK, NEW r, NEW i, NEW what \in {"answered", "refused"}, Told(r, i, what)
    PROVE  /\ client' \in [Ids -> {"absent", "waiting", "answered", "refused", "cut"}]
           /\ \A j \in Ids : client'[j] = "waiting" => client[j] = "waiting"
           /\ \A j \in Ids : j = i /\ i # 0 /\ home[i] = r => client'[j] # "waiting"
BY DEF Told, TypeOK

\* A caller that is told to try again stops waiting; nothing else happens to it.
LEMMA TellStep ==
    ASSUME TypeOK, NEW i \in Ids, Tell(i)
    PROVE  /\ UNCHANGED <<rows, foreign, count, home, up, drained, lock, spawned, sawEmpty, drain,
                          forwards, faults, active, troubles>>
           /\ refusing' \in [Replicas -> SUBSET Ids]
           /\ client' \in [Ids -> {"absent", "waiting", "answered", "refused", "cut"}]
           /\ \A j \in Ids : client'[j] = "waiting" => client[j] = "waiting"
<1>1. CASE WaitTimeout(i)
  BY <1>1 DEF WaitTimeout, queue, local, threads, audit, world, TypeOK
<1>2. CASE \E r \in Replicas : Refuse(r, i)
  <2>1. PICK r \in Replicas : Refuse(r, i)
    BY <1>2
  <2>2. refusing' \in [Replicas -> SUBSET Ids]
    BY <2>1 DEF Refuse, TypeOK
  <2>3. Told(r, i, "refused")
    BY <2>1 DEF Refuse
  <2>4. UNCHANGED <<rows, foreign, count, home, up, drained, lock, spawned, sawEmpty, drain,
                    forwards, faults, active, troubles>>
    BY <2>1 DEF Refuse, queue, audit, world
  <2> QED BY <2>2, <2>3, <2>4, ToldTyped
<1> QED BY <1>1, <1>2 DEF Tell

\* What Claim does: nothing, a quarantine, or the lease of the oldest free row.
LEMMA ClaimStep ==
    ASSUME TypeOK, NEW r \in Replicas, Claim(r)
    PROVE  /\ UNCHANGED <<foreign, count, home, client, up, drained, lock, threads, sawEmpty,
                          faults, active>>
           /\ troubles' \in Nat /\ drain[r].pc = "claim" /\ r \in up
           /\ rows' \in [Ids -> RowRecords] /\ drain' \in [Replicas -> Drains]
           /\ forwards' \in [Ids -> Nat]
           /\ \A v \in Replicas : v # r => drain'[v] = drain[v]
           /\ \/ UNCHANGED <<rows, forwards>> /\ drain'[r].pc \in {"empty", "fail"}
              \/ /\ UNCHANGED forwards /\ drain'[r].pc = "empty"
                 /\ \E i \in Ids : /\ rows'[i].st = "poisoned" /\ rows[i].st = "queued"
                                   /\ \A j \in Ids : j # i => rows'[j] = rows[j]
              \/ \E i \in Ids :
                    /\ i \in Claimable /\ \A j \in Claimable : i <= j
                    /\ rows'[i].st = rows[i].st /\ rows'[i].owner = r /\ rows'[i].leased
                    /\ \A j \in Ids : j # i => rows'[j] = rows[j]
                    /\ forwards' = [forwards EXCEPT ![i] = forwards[i] + 1]
                    /\ drain'[r].pc = "forward" /\ drain'[r].id = i
<1>1. /\ UNCHANGED <<foreign, count, home, client, up, drained, lock, threads, sawEmpty,
                     faults, active>>
      /\ troubles' \in Nat /\ drain[r].pc = "claim" /\ r \in up
  <2>1. (UNCHANGED troubles \/ Trouble) /\ At(r, "claim")
        /\ UNCHANGED <<foreign, count, callers, local, faults, active>>
    BY Zenon DEF Claim
  <2>2. troubles' \in Nat
    BY <2>1 DEF Trouble, TypeOK
  <2> QED BY <2>1, <2>2 DEF At, callers, local
<1>2. CASE UNCHANGED <<rows, forwards>> /\ (Goto(r, "empty") \/ Goto(r, "fail"))
  <2>1. PICK l \in {"empty", "fail"} : Goto(r, l)
    BY <1>2
  <2>2. l \in Pcs
    BY DEF Pcs
  <2> QED BY <1>1, <1>2, <2>1, <2>2, DrainGoto DEF TypeOK
<1>3. ASSUME NEW i \in Claimable,
             rows' = [rows EXCEPT ![i] = [st |-> "poisoned", owner |-> "none", leased |-> FALSE]],
             Goto(r, "empty"), UNCHANGED forwards
      PROVE  /\ drain' \in [Replicas -> Drains] /\ drain'[r].pc = "empty"
             /\ \A v \in Replicas : v # r => drain'[v] = drain[v]
             /\ rows' \in [Ids -> RowRecords] /\ rows'[i].st = "poisoned" /\ rows[i].st = "queued"
             /\ \A j \in Ids : j # i => rows'[j] = rows[j]
             /\ i \in Ids /\ forwards' \in [Ids -> Nat]
  <2>1. i \in Ids /\ rows[i].st = "queued"
    BY DEF Claimable, Queued
  <2>2. "empty" \in Pcs
    BY DEF Pcs
  <2> QED BY <1>3, <2>1, <2>2, DrainGoto, RowPoisoned, ZenonT(60) DEF TypeOK
<1>4. ASSUME NEW i \in Claimable, \A j \in Claimable : i <= j,
             rows' = [rows EXCEPT ![i].owner = r, ![i].leased = TRUE],
             forwards' = [forwards EXCEPT ![i] = @ + 1],
             drain' = [drain EXCEPT ![r].pc = "forward", ![r].id = i]
      PROVE  /\ drain' \in [Replicas -> Drains] /\ drain'[r].pc = "forward" /\ drain'[r].id = i
             /\ \A v \in Replicas : v # r => drain'[v] = drain[v]
             /\ rows' \in [Ids -> RowRecords]
             /\ rows'[i].st = rows[i].st /\ rows'[i].owner = r /\ rows'[i].leased
             /\ \A j \in Ids : j # i => rows'[j] = rows[j]
             /\ forwards' = [forwards EXCEPT ![i] = forwards[i] + 1]
             /\ i \in Ids /\ forwards' \in [Ids -> Nat]
  <2>1. i \in Ids
    BY DEF Claimable, Queued
  <2>2. forwards' \in [Ids -> Nat] /\ forwards' = [forwards EXCEPT ![i] = forwards[i] + 1]
    <3>1. forwards \in [Ids -> Nat] /\ forwards' = [forwards EXCEPT ![i] = @ + 1]
      BY <1>4 DEF TypeOK
    <3> HIDE <1>4
    <3> QED BY <3>1, <2>1
  <2>3. /\ drain' \in [Replicas -> Drains] /\ drain'[r].pc = "forward" /\ drain'[r].id = i
        /\ \A v \in Replicas : v # r => drain'[v] = drain[v]
    BY <1>4, <2>1, DrainClaims
  <2>4. /\ rows' \in [Ids -> RowRecords]
        /\ rows'[i].st = rows[i].st /\ rows'[i].owner = r /\ rows'[i].leased
        /\ \A j \in Ids : j # i => rows'[j] = rows[j]
    BY <1>4, <2>1, RowLeased
  <2> QED BY <2>1, <2>2, <2>3, <2>4
<1>5. \/ UNCHANGED <<rows, forwards>> /\ (Goto(r, "empty") \/ Goto(r, "fail"))
      \/ \E i \in Claimable :
            /\ rows' = [rows EXCEPT ![i] = [st |-> "poisoned", owner |-> "none", leased |-> FALSE]]
            /\ Goto(r, "empty") /\ UNCHANGED forwards
      \/ \E i \in Claimable :
            /\ \A j \in Claimable : i <= j
            /\ rows' = [rows EXCEPT ![i].owner = r, ![i].leased = TRUE]
            /\ forwards' = [forwards EXCEPT ![i] = @ + 1]
            /\ drain' = [drain EXCEPT ![r].pc = "forward", ![r].id = i]
  BY Zenon DEF Claim
<1>6. CASE \E i \in Claimable :
            /\ rows' = [rows EXCEPT ![i] = [st |-> "poisoned", owner |-> "none", leased |-> FALSE]]
            /\ Goto(r, "empty") /\ UNCHANGED forwards
  <2>1. PICK i \in Claimable :
            /\ rows' = [rows EXCEPT ![i] = [st |-> "poisoned", owner |-> "none", leased |-> FALSE]]
            /\ Goto(r, "empty") /\ UNCHANGED forwards
    BY <1>6
  <2> HIDE <1>6
  <2>2. /\ drain' \in [Replicas -> Drains] /\ drain'[r].pc = "empty"
        /\ \A v \in Replicas : v # r => drain'[v] = drain[v]
        /\ rows' \in [Ids -> RowRecords] /\ rows'[i].st = "poisoned" /\ rows[i].st = "queued"
        /\ \A j \in Ids : j # i => rows'[j] = rows[j]
        /\ i \in Ids /\ forwards' \in [Ids -> Nat]
    BY <1>3, <2>1
  <2>3. UNCHANGED forwards
    BY <2>1
  <2> QED BY <1>1, <2>2, <2>3, Zenon
<1>7. CASE \E i \in Claimable :
            /\ \A j \in Claimable : i <= j
            /\ rows' = [rows EXCEPT ![i].owner = r, ![i].leased = TRUE]
            /\ forwards' = [forwards EXCEPT ![i] = @ + 1]
            /\ drain' = [drain EXCEPT ![r].pc = "forward", ![r].id = i]
  <2>1. PICK i \in Claimable :
            /\ \A j \in Claimable : i <= j
            /\ rows' = [rows EXCEPT ![i].owner = r, ![i].leased = TRUE]
            /\ forwards' = [forwards EXCEPT ![i] = @ + 1]
            /\ drain' = [drain EXCEPT ![r].pc = "forward", ![r].id = i]
    BY <1>7
  <2>2. /\ drain' \in [Replicas -> Drains] /\ drain'[r].pc = "forward" /\ drain'[r].id = i
        /\ \A v \in Replicas : v # r => drain'[v] = drain[v]
        /\ rows' \in [Ids -> RowRecords]
        /\ rows'[i].st = rows[i].st /\ rows'[i].owner = r /\ rows'[i].leased
        /\ \A j \in Ids : j # i => rows'[j] = rows[j]
        /\ forwards' = [forwards EXCEPT ![i] = forwards[i] + 1]
        /\ i \in Ids /\ forwards' \in [Ids -> Nat]
    BY <1>4, <2>1
  <2>3. i \in Claimable /\ \A j \in Claimable : i <= j
    BY <2>1
  <2> QED BY <1>1, <2>2, <2>3, Zenon
<1> QED BY <1>2, <1>5, <1>6, <1>7, Zenon

\* What Delete does: the row goes, or the drain remembers that it did not.
LEMMA DeleteStep ==
    ASSUME TypeOK, DrainInv, NEW r \in Replicas, Delete(r)
    PROVE  \E i \in Ids :
              /\ UNCHANGED <<foreign, count, home, client, up, drained, lock, threads,
                             sawEmpty, forwards, active>>
              /\ troubles' \in Nat /\ drain[r].pc = "delete" /\ drain[r].id = i
              /\ rows' \in [Ids -> RowRecords] /\ drain' \in [Replicas -> Drains]
              /\ faults' \in [Ids -> Nat]
              /\ \A v \in Replicas : v # r => drain'[v] = drain[v]
              /\ drain'[r].pc = "complete" /\ drain'[r].id = i
              /\ \A j \in Ids : j # i => rows'[j] = rows[j] /\ faults'[j] = faults[j]
              /\ \/ /\ Holds(r, i) /\ UNCHANGED faults
                    /\ rows'[i].st = "deleted" /\ rows'[i].owner = rows[i].owner
                 \/ /\ UNCHANGED rows
                    /\ faults'[i] = IF Holds(r, i) THEN faults[i] + 1 ELSE faults[i]
<1> DEFINE i == drain[r].id
<1>1. /\ UNCHANGED <<foreign, count, home, client, up, drained, lock, threads, sawEmpty,
                     forwards, active>>
      /\ drain[r].pc = "delete" /\ i \in Ids
  BY DEF Delete, At, callers, local, DrainInv
<1>2. CASE Holds(r, i) /\ rows' = [rows EXCEPT ![i].st = "deleted"] /\ Goto(r, "complete")
           /\ NoFault
  <2>1. "complete" \in Pcs
    BY DEF Pcs
  <2>2. /\ drain' \in [Replicas -> Drains] /\ drain'[r].pc = "complete" /\ drain'[r].id = i
        /\ \A v \in Replicas : v # r => drain'[v] = drain[v]
    BY <1>2, <2>1, DrainGoto
  <2>3. /\ rows' \in [Ids -> RowRecords] /\ rows'[i].st = "deleted"
        /\ rows'[i].owner = rows[i].owner
        /\ \A j \in Ids : j # i => rows'[j] = rows[j]
    BY <1>1, <1>2, RowStatus
  <2>4. UNCHANGED faults /\ faults' \in [Ids -> Nat] /\ troubles' \in Nat
    BY <1>2 DEF NoFault, TypeOK
  <2> QED BY <1>1, <1>2, <2>2, <2>3, <2>4
<1>3. CASE /\ IF Holds(r, i) THEN Fault(i) ELSE NoFault
           /\ drain' = [drain EXCEPT ![r].pc = "complete", ![r].failed = TRUE] /\ UNCHANGED rows
  <2>1. /\ drain' \in [Replicas -> Drains] /\ drain'[r].pc = "complete" /\ drain'[r].id = i
        /\ \A v \in Replicas : v # r => drain'[v] = drain[v]
    BY <1>3, DrainFailed
  <2>2. /\ faults' \in [Ids -> Nat] /\ troubles' \in Nat
        /\ faults'[i] = IF Holds(r, i) THEN faults[i] + 1 ELSE faults[i]
        /\ \A j \in Ids : j # i => faults'[j] = faults[j]
    BY <1>1, <1>3 DEF Fault, NoFault, Trouble, TypeOK
  <2> QED BY <1>1, <1>3, <2>1, <2>2 DEF TypeOK
<1> QED BY <1>2, <1>3 DEF Delete

\* A failed renewal ends the delivery; it costs a fault if the lease was live.
LEMMA RenewFailsStep ==
    ASSUME TypeOK, DrainInv, NEW r \in Replicas, RenewFails(r)
    PROVE  \E i \in Ids :
              /\ UNCHANGED <<rows, foreign, count, home, client, up, drained, lock, threads,
                             sawEmpty, forwards, active>>
              /\ troubles' \in Nat /\ drain[r].pc = "forward" /\ drain[r].id = i
              /\ drain' \in [Replicas -> Drains] /\ faults' \in [Ids -> Nat]
              /\ \A v \in Replicas : v # r => drain'[v] = drain[v]
              /\ drain'[r].pc = "completeErr"
              /\ \A j \in Ids : j # i => faults'[j] = faults[j]
              /\ faults'[i] = IF Holds(r, i) /\ rows[i].leased THEN faults[i] + 1 ELSE faults[i]
<1> DEFINE i == drain[r].id
<1>1. /\ UNCHANGED <<rows, foreign, count, home, client, up, drained, lock, threads, sawEmpty,
                     forwards, active>>
      /\ drain[r].pc = "forward" /\ i \in Ids
  BY DEF RenewFails, At, queue, callers, local, DrainInv
<1>2. /\ faults' \in [Ids -> Nat] /\ troubles' \in Nat
      /\ faults'[i] = IF Holds(r, i) /\ rows[i].leased THEN faults[i] + 1 ELSE faults[i]
      /\ \A j \in Ids : j # i => faults'[j] = faults[j]
  BY <1>1 DEF RenewFails, Fault, NoFault, Trouble, TypeOK
<1>3. "completeErr" \in Pcs /\ Goto(r, "completeErr")
  BY DEF Pcs, RenewFails
<1>4. /\ drain' \in [Replicas -> Drains] /\ drain'[r].pc = "completeErr"
      /\ \A v \in Replicas : v # r => drain'[v] = drain[v]
  BY <1>3, DrainGoto
<1> QED BY <1>1, <1>2, <1>4

\* A crash costs a fault if the replica was at work on a row of its own.
LEMMA CrashStep ==
    ASSUME TypeOK, DrainInv, NEW r \in Replicas, Crash(r)
    PROVE  /\ UNCHANGED <<rows, count, home, forwards>> /\ up' = up \ {r}
           /\ drain' \in [Replicas -> Drains] /\ faults' \in [Ids -> Nat]
           /\ \A v \in Replicas : v # r => drain'[v] = drain[v]
           /\ drain'[r].pc = "idle"
           /\ \A j \in Ids : /\ faults'[j] >= faults[j]
                             /\ Busy(r, j) => faults'[j] = faults[j] + 1
           /\ \A j \in Ids : client'[j] = "waiting" => client[j] = "waiting" /\ home[j] # r
<1>1. UNCHANGED <<rows, count, home, forwards>> /\ up' = up \ {r} /\ r \in up
  BY DEF Crash, queue
<1>2. faults' \in [Ids -> Nat] /\ \A j \in Ids : /\ faults'[j] >= faults[j]
                                                 /\ Busy(r, j) => faults'[j] = faults[j] + 1
  BY DEF Crash, Busy, At, TypeOK
<1>3. drain' \in [Replicas -> Drains] /\ drain'[r].pc = "idle"
      /\ \A v \in Replicas : v # r => drain'[v] = drain[v]
  BY DrainReset, NoDrainTyped DEF Crash
<1>4. \A j \in Ids : client'[j] = "waiting" => client[j] = "waiting" /\ home[j] # r
  BY DEF Crash
<1> QED BY <1>1, <1>2, <1>3, <1>4

\* A lease that lapses costs a fault if its owner is at work.
LEMMA ExpireStep ==
    ASSUME TypeOK, NEW i \in Ids, Expire(i)
    PROVE  /\ UNCHANGED <<foreign, count, home, client, up, drained, lock, threads, sawEmpty,
                          drain, forwards, active>>
           /\ troubles' \in Nat
           /\ rows' \in [Ids -> RowRecords] /\ faults' \in [Ids -> Nat]
           /\ rows'[i].st = rows[i].st /\ rows'[i].owner = rows[i].owner /\ ~rows'[i].leased
           /\ \A j \in Ids : j # i => rows'[j] = rows[j] /\ faults'[j] = faults[j]
           /\ faults'[i] = IF \E r \in Replicas : Busy(r, i) THEN faults[i] + 1 ELSE faults[i]
           /\ rows[i].st = "queued"
<1>1. /\ UNCHANGED <<foreign, count, home, client, up, drained, lock, threads, sawEmpty, drain,
                     forwards, active>>
      /\ rows[i].st = "queued"
  BY DEF Expire, callers, local
<1>2. /\ rows' \in [Ids -> RowRecords]
      /\ rows'[i].st = rows[i].st /\ rows'[i].owner = rows[i].owner /\ ~rows'[i].leased
      /\ \A j \in Ids : j # i => rows'[j] = rows[j]
  BY RowLapsed DEF Expire
<1>3. (\E r \in Replicas : Holds(r, i) /\ (Working(r, i) \/ Deleting(r, i)))
         <=> \E r \in Replicas : Busy(r, i)
  BY DEF Working, Deleting, Busy, At
<1>4. /\ faults' \in [Ids -> Nat] /\ troubles' \in Nat
      /\ faults'[i] = IF \E r \in Replicas : Busy(r, i) THEN faults[i] + 1 ELSE faults[i]
      /\ \A j \in Ids : j # i => faults'[j] = faults[j]
  BY <1>3 DEF Expire, Fault, NoFault, Trouble, TypeOK
<1> QED BY <1>1, <1>2, <1>4

\* A new row: the next number, queued, its caller waiting.
LEMMA EnqueueStep ==
    ASSUME TypeOK, NEW r \in Replicas, Enqueue(r)
    PROVE  \E i \in Ids :
              /\ UNCHANGED <<foreign, up, drained, threads, sawEmpty, drain, forwards, faults,
                             active, troubles>>
              /\ i = count + 1 /\ count' = i
              /\ rows' \in [Ids -> RowRecords]
              /\ rows'[i].st = "queued" /\ (rows'[i].leased <=> rows[i].leased)
              /\ \A j \in Ids : j # i => rows'[j] = rows[j]
              /\ home' = [home EXCEPT ![i] = r] /\ client' = [client EXCEPT ![i] = "waiting"]
              /\ lock' = [lock EXCEPT ![r] = i]
<1>1. count + 1 \in Ids
  BY SpoolAssumption DEF Enqueue, TypeOK, Ids
<1>2. rows' = [rows EXCEPT ![count + 1].st = "queued"]
  BY DEF Enqueue
<1> QED BY <1>1, <1>2, RowStatus DEF Enqueue, audit, world

-----------------------------------------------------------------------------
(* Every step keeps every part of the invariant.                           *)

\* Typing.
LEMMA TypeStep ==
    ASSUME TypeOK, DrainInv, Next
    PROVE  TypeOK'
<1>1. ASSUME NEW r \in Replicas, Still(r) PROVE TypeOK'
  <2> USE DEF queue, callers, local, threads, audit, world, TypeOK
  <2>1. CASE Register(r)
    BY <2>1 DEF Register
  <2>2. CASE LoopSawEmpty(r) \/ LoopStore(r)
    BY <2>2 DEF LoopSawEmpty, LoopStore
  <2>3. CASE Restart(r) \/ WakeStack
    BY <2>3 DEF Restart, WakeStack
  <2>4. CASE RotateKey
    BY <2>4 DEF RotateKey, Queued
  <2>5. CASE StopStack
    <3>1. troubles' \in Nat
      BY <2>5 DEF StopStack, Trouble
    <3>3. active' \in BOOLEAN
      BY <2>5, Zenon DEF StopStack
    <3>2. UNCHANGED <<rows, foreign, count, home, client, up, drained, lock, threads, sawEmpty,
                      drain, forwards, faults>>
      BY <2>5 DEF StopStack
    <3> QED BY <3>1, <3>2, <3>3
  <2> QED BY <1>1, <2>1, <2>2, <2>3, <2>4, <2>5 DEF Still
<1>2. ASSUME NEW r \in Replicas, Move(r) PROVE TypeOK'
  <2>1. /\ UNCHANGED <<rows, foreign, count, home, up, forwards, faults, active, troubles>>
        /\ drain' \in [Replicas -> Drains]
    BY <1>2, MoveStep
  <2>2. client' \in [Ids -> {"absent", "waiting", "answered", "refused", "cut"}]
    <3>1. \/ UNCHANGED client
          \/ \E i \in Ids \cup {0}, what \in {"answered", "refused"} : Told(r, i, what)
      <4>1. drain[r].id \in Ids \cup {0} /\ drain[r].by \in Ids \cup {0}
        BY DEF TypeOK, Drains
      <4>2. CASE Complete(r) \/ CompleteErr(r)
        BY <4>1, <4>2 DEF Complete, CompleteErr
      <4>3. CASE LoopDrain(r) \/ EnsureActive(r) \/ ForwardReturns(r) \/ ClaimedNothing(r)
                \/ DrainFails(r)
        BY <4>3 DEF LoopDrain, EnsureActive, ForwardReturns, ClaimedNothing, DrainFails, callers
      <4>4. ASSUME NEW i \in Ids, RequestDrain(r, i) PROVE UNCHANGED client
        BY <4>4 DEF RequestDrain, callers
      <4> QED BY <1>2, <4>2, <4>3, <4>4 DEF Move
    <3> QED BY <3>1, ToldTyped DEF TypeOK
  <2>3. /\ drained' \in [Replicas -> BOOLEAN] /\ UNCHANGED <<lock, sawEmpty>>
        /\ spawned' \in [Replicas -> SUBSET Ids] /\ refusing' \in [Replicas -> SUBSET Ids]
    <3>1. CASE UNCHANGED local
      BY <3>1 DEF local, threads, TypeOK
    <3>2. CASE ClaimedNothing(r)
      BY <3>2 DEF ClaimedNothing, threads, TypeOK
    <3>3. ASSUME NEW i \in Ids, RequestDrain(r, i)
          PROVE  /\ spawned' \in [Replicas -> SUBSET Ids]
                 /\ UNCHANGED <<drained, lock, refusing, sawEmpty>>
      BY <3>3 DEF RequestDrain, TypeOK
    <3>4. CASE LoopDrain(r) \/ EnsureActive(r) \/ ForwardReturns(r)
      BY <3>1, <3>4 DEF LoopDrain, EnsureActive, ForwardReturns
    <3>5. CASE Complete(r) \/ CompleteErr(r)
      BY <3>1, <3>5 DEF Complete, CompleteErr
    <3>6. /\ drained \in [Replicas -> BOOLEAN] /\ refusing \in [Replicas -> SUBSET Ids]
          /\ drain[r].by \in Ids \cup {0} /\ spawned \in [Replicas -> SUBSET Ids]
      BY DEF TypeOK, Drains
    <3>7. CASE DrainFails(r)
      BY <3>6, <3>7 DEF DrainFails
    <3> QED BY <1>2, <3>2, <3>3, <3>4, <3>5, <3>6, <3>7 DEF Move
  <2> QED BY <2>1, <2>2, <2>3 DEF TypeOK
<1>3. ASSUME NEW r \in Replicas, Enqueue(r) PROVE TypeOK'
  <2>1. UNCHANGED <<foreign, up, drained, threads, sawEmpty, drain, forwards, faults, active,
                    troubles>>
    BY <1>3, EnqueueStep
  <2>2. PICK i \in Ids : /\ count' = i /\ rows' \in [Ids -> RowRecords]
                         /\ home' = [home EXCEPT ![i] = r]
                         /\ client' = [client EXCEPT ![i] = "waiting"]
                         /\ lock' = [lock EXCEPT ![r] = i]
    BY <1>3, EnqueueStep
  <2> QED BY <2>1, <2>2, SpoolAssumption DEF TypeOK, Owners, Ids, threads
<1>4. ASSUME NEW r \in Replicas, Claim(r) PROVE TypeOK'
  BY <1>4, ClaimStep DEF TypeOK, threads
<1>5. ASSUME NEW r \in Replicas, Delete(r) PROVE TypeOK'
  BY <1>5, DeleteStep DEF TypeOK, threads
<1>6. ASSUME NEW r \in Replicas, RenewFails(r) PROVE TypeOK'
  BY <1>6, RenewFailsStep DEF TypeOK, threads
<1>7. ASSUME NEW r \in Replicas, Crash(r) PROVE TypeOK'
  <2>1. /\ UNCHANGED <<rows, count, home, forwards>> /\ up' = up \ {r}
        /\ drain' \in [Replicas -> Drains] /\ faults' \in [Ids -> Nat]
    BY <1>7, CrashStep
  <2>2. /\ client' \in [Ids -> {"absent", "waiting", "answered", "refused", "cut"}]
        /\ lock' \in [Replicas -> Ids \cup {0}] /\ spawned' \in [Replicas -> SUBSET Ids]
        /\ refusing' \in [Replicas -> SUBSET Ids]
        /\ sawEmpty' \in [Replicas -> BOOLEAN] /\ drained' \in [Replicas -> BOOLEAN]
        /\ troubles' \in Nat /\ UNCHANGED <<foreign, active>>
    BY <1>7 DEF Crash, Trouble, queue, TypeOK
  <2> QED BY <2>1, <2>2 DEF TypeOK
<1>8. ASSUME NEW i \in Ids, Tell(i) PROVE TypeOK'
  BY <1>8, TellStep DEF TypeOK
<1>9. ASSUME NEW i \in Ids, Expire(i) PROVE TypeOK'
  BY <1>9, ExpireStep DEF TypeOK, threads
<1> QED
  BY NextCases, <1>1, <1>2, <1>3, <1>4, <1>5, <1>6, <1>7, <1>8, <1>9

\* Numbers not given out.
LEMMA FreshStep ==
    ASSUME TypeOK, DrainInv, FreshInv, Next
    PROVE  FreshInv'
<1> USE DEF FreshInv
<1>1. ASSUME NEW r \in Replicas, Still(r) PROVE FreshInv'
  BY <1>1, StillStep
<1>2. ASSUME NEW r \in Replicas, Move(r) PROVE FreshInv'
  BY <1>2, MoveStep
<1>3. ASSUME NEW r \in Replicas, Enqueue(r) PROVE FreshInv'
  <2>1. PICK i \in Ids : /\ i = count + 1 /\ count' = i /\ UNCHANGED forwards
                         /\ \A j \in Ids : j # i => rows'[j] = rows[j]
    BY <1>3, EnqueueStep
  <2>2. \A j \in Ids : j > count' => j # i /\ j > count
    BY <2>1 DEF TypeOK, Ids
  <2> QED BY <2>1, <2>2
<1>4. ASSUME NEW r \in Replicas, Claim(r) PROVE FreshInv'
  <2>1. UNCHANGED count
    BY <1>4, ClaimStep
  <2>2. CASE UNCHANGED <<rows, forwards>>
    BY <2>1, <2>2
  <2>3. CASE \E i \in Ids : /\ rows[i].st = "queued" /\ UNCHANGED forwards
                            /\ \A j \in Ids : j # i => rows'[j] = rows[j]
    BY <2>1, <2>3
  <2>4. CASE \E i \in Ids : /\ rows[i].st = "queued" /\ (\A j \in Ids : j # i => rows'[j] = rows[j])
                            /\ forwards' = [forwards EXCEPT ![i] = forwards[i] + 1]
    BY <2>1, <2>4 DEF TypeOK
  <2> QED BY <1>4, <2>2, <2>3, <2>4, ClaimStep DEF Claimable, Queued
<1>5. ASSUME NEW r \in Replicas, Delete(r) PROVE FreshInv'
  BY <1>5, DeleteStep DEF Holds
<1>6. ASSUME NEW r \in Replicas, RenewFails(r) PROVE FreshInv'
  BY <1>6, RenewFailsStep
<1>7. ASSUME NEW r \in Replicas, Crash(r) PROVE FreshInv'
  BY <1>7, CrashStep
<1>8. ASSUME NEW i \in Ids, Tell(i) PROVE FreshInv'
  BY <1>8, TellStep
<1>9. ASSUME NEW i \in Ids, Expire(i) PROVE FreshInv'
  BY <1>9, ExpireStep
<1> QED
  BY NextCases, <1>1, <1>2, <1>3, <1>4, <1>5, <1>6, <1>7, <1>8, <1>9

\* What a drain works on.
LEMMA DrainStep ==
    ASSUME TypeOK, DrainInv, Next
    PROVE  DrainInv'
<1> USE DEF DrainInv
<1>1. ASSUME NEW r \in Replicas, Still(r) PROVE DrainInv'
  BY <1>1, StillStep
<1>2. ASSUME NEW r \in Replicas, Move(r) PROVE DrainInv'
  BY <1>2, MoveStep
<1>3. ASSUME NEW r \in Replicas, Enqueue(r) PROVE DrainInv'
  BY <1>3, EnqueueStep
<1>4. ASSUME NEW r \in Replicas, Claim(r) PROVE DrainInv'
  <2>1. /\ \A v \in Replicas : v # r => drain'[v] = drain[v]
        /\ \A i \in Ids : forwards'[i] \in Nat /\ forwards'[i] >= forwards[i]
        /\ drain'[r].pc \notin {"forward", "delete"}
              \/ (drain'[r].id \in Ids /\ forwards'[drain'[r].id] > 0)
    <3>1. \A v \in Replicas : v # r => drain'[v] = drain[v]
      BY <1>4, ClaimStep
    <3>2. CASE UNCHANGED forwards /\ drain'[r].pc \in {"empty", "fail"}
      <4>1. \A i \in Ids : forwards[i] \in Nat
        BY DEF TypeOK
      <4>2. \A i \in Ids : forwards'[i] \in Nat /\ forwards'[i] >= forwards[i]
        BY <3>2, <4>1
      <4>3. drain'[r].pc \notin {"forward", "delete"}
        BY <3>2
      <4> QED BY <3>1, <4>2, <4>3
    <3>3. CASE \E i \in Ids : /\ forwards' = [forwards EXCEPT ![i] = forwards[i] + 1]
                              /\ drain'[r].pc = "forward" /\ drain'[r].id = i
      BY <3>1, <3>3 DEF TypeOK
    <3> QED BY <1>4, <3>2, <3>3, ClaimStep
  <2> QED BY <2>1 DEF TypeOK
<1>5. ASSUME NEW r \in Replicas, Delete(r) PROVE DrainInv'
  BY <1>5, DeleteStep
<1>6. ASSUME NEW r \in Replicas, RenewFails(r) PROVE DrainInv'
  BY <1>6, RenewFailsStep
<1>7. ASSUME NEW r \in Replicas, Crash(r) PROVE DrainInv'
  BY <1>7, CrashStep
<1>8. ASSUME NEW i \in Ids, Tell(i) PROVE DrainInv'
  BY <1>8, TellStep
<1>9. ASSUME NEW i \in Ids, Expire(i) PROVE DrainInv'
  BY <1>9, ExpireStep
<1> QED
  BY NextCases, <1>1, <1>2, <1>3, <1>4, <1>5, <1>6, <1>7, <1>8, <1>9

\* The order of the claims.
LEMMA OrderStep ==
    ASSUME TypeOK, FreshInv, DrainInv, OrderInv, Next
    PROVE  OrderInv'
<1> USE DEF OrderInv
<1>1. ASSUME NEW r \in Replicas, Still(r) PROVE OrderInv'
  BY <1>1, StillStep
<1>2. ASSUME NEW r \in Replicas, Move(r) PROVE OrderInv'
  BY <1>2, MoveStep
<1>3. ASSUME NEW r \in Replicas, Enqueue(r) PROVE OrderInv'
  <2>1. PICK i \in Ids :
            /\ i = count + 1 /\ rows'[i].st = "queued" /\ (rows'[i].leased <=> rows[i].leased)
            /\ \A j \in Ids : j # i => rows'[j] = rows[j]
            /\ UNCHANGED forwards
    BY <1>3, EnqueueStep
  <2>2. \A j \in Ids : j > i => forwards[j] = 0
    BY <2>1 DEF FreshInv, TypeOK, Ids
  <2>3. ~rows[i].leased
    BY <2>1 DEF FreshInv, TypeOK, Ids
  <2> QED BY <2>1, <2>2, <2>3
<1>4. ASSUME NEW r \in Replicas, Claim(r) PROVE OrderInv'
  <2>1. CASE UNCHANGED <<rows, forwards>>
    BY <2>1
  <2>2. CASE \E i \in Ids : /\ rows'[i].st = "poisoned" /\ UNCHANGED forwards
                            /\ \A j \in Ids : j # i => rows'[j] = rows[j]
    BY <2>2
  <2>3. CASE \E i \in Ids : /\ i \in Claimable /\ (\A j \in Claimable : i <= j)
                            /\ rows'[i].st = rows[i].st
                            /\ (\A j \in Ids : j # i => rows'[j] = rows[j])
                            /\ forwards' = [forwards EXCEPT ![i] = forwards[i] + 1]
    <3>1. PICK i \in Ids : /\ i \in Claimable /\ (\A j \in Claimable : i <= j)
                           /\ rows'[i].st = rows[i].st
                           /\ (\A j \in Ids : j # i => rows'[j] = rows[j])
                           /\ forwards' = [forwards EXCEPT ![i] = forwards[i] + 1]
      BY <2>3
    <3>2. \A j \in Ids : /\ forwards[j] \in Nat /\ rows'[j].st = rows[j].st
                         /\ forwards'[j] = IF j = i THEN forwards[j] + 1 ELSE forwards[j]
      BY <3>1 DEF TypeOK
    <3>3. \A j \in Ids : j < i /\ rows[j].st = "queued" => forwards[j] > 0
      BY <3>1 DEF Claimable, Queued, Ids
    <3>4. \A j \in Ids : rows'[j].st = "queued" /\ rows'[j].leased => forwards'[j] > 0
      BY <3>1, <3>2
    <3> QED BY <3>2, <3>3, <3>4
  <2> QED BY <1>4, <2>1, <2>2, <2>3, ClaimStep
<1>5. ASSUME NEW r \in Replicas, Delete(r) PROVE OrderInv'
  BY <1>5, DeleteStep
<1>6. ASSUME NEW r \in Replicas, RenewFails(r) PROVE OrderInv'
  BY <1>6, RenewFailsStep
<1>7. ASSUME NEW r \in Replicas, Crash(r) PROVE OrderInv'
  BY <1>7, CrashStep
<1>8. ASSUME NEW i \in Ids, Tell(i) PROVE OrderInv'
  BY <1>8, TellStep
<1>9. ASSUME NEW i \in Ids, Expire(i) PROVE OrderInv'
  BY <1>9, ExpireStep
<1> QED
  BY NextCases, <1>1, <1>2, <1>3, <1>4, <1>5, <1>6, <1>7, <1>8, <1>9

\* Every delivery but one is paid for.
LEMMA PaidStep ==
    ASSUME TypeOK, FreshInv, DrainInv, PaidInv, Next
    PROVE  PaidInv'
<1> USE DEF PaidInv
<1>1. ASSUME NEW r \in Replicas, Still(r) PROVE PaidInv'
  <2>1. \A v \in Replicas, i \in Ids : Busy(v, i) => Busy(v, i)'
    BY <1>1, StillStep DEF Busy, Holds
  <2> QED BY <1>1, <2>1, StillStep
<1>2. ASSUME NEW r \in Replicas, Move(r) PROVE PaidInv'
  <2>1. \A v \in Replicas, i \in Ids : Busy(v, i)' <=> Busy(v, i)
    BY <1>2, MoveStep DEF Busy, Holds
  <2> QED BY <1>2, <2>1, MoveStep
<1>3. ASSUME NEW r \in Replicas, Enqueue(r) PROVE PaidInv'
  <2>1. PICK i \in Ids :
            /\ i = count + 1 /\ UNCHANGED <<up, drain, forwards, faults>>
            /\ \A j \in Ids : j # i => rows'[j] = rows[j]
    BY <1>3, EnqueueStep
  <2>2. forwards[i] = 0 /\ faults[i] \in Nat
    BY <2>1 DEF FreshInv, TypeOK, Ids
  <2>3. \A v \in Replicas, j \in Ids : j # i => (Busy(v, j)' <=> Busy(v, j))
    BY <2>1 DEF Busy, Holds
  <2> QED BY <2>1, <2>2, <2>3
<1>4. ASSUME NEW r \in Replicas, Claim(r) PROVE PaidInv'
  <2>1. /\ UNCHANGED <<up, faults>> /\ drain[r].pc = "claim" /\ r \in up
        /\ \A v \in Replicas : v # r => drain'[v] = drain[v]
    BY <1>4, ClaimStep
  <2>2. CASE UNCHANGED <<rows, forwards>>
    <3>1. \A v \in Replicas, j \in Ids : Busy(v, j) => Busy(v, j)'
      BY <2>1, <2>2 DEF Busy, Holds
    <3> QED BY <2>1, <2>2, <3>1
  <2>3. CASE \E i \in Ids : /\ rows'[i].st = "poisoned" /\ UNCHANGED forwards
                            /\ \A j \in Ids : j # i => rows'[j] = rows[j]
    <3>1. PICK i \in Ids : /\ rows'[i].st = "poisoned" /\ UNCHANGED forwards
                           /\ \A j \in Ids : j # i => rows'[j] = rows[j]
      BY <2>3
    <3>2. \A v \in Replicas, j \in Ids : j # i /\ Busy(v, j) => Busy(v, j)'
      BY <2>1, <3>1 DEF Busy, Holds
    <3> QED BY <2>1, <3>1, <3>2
  <2>4. CASE \E i \in Ids : /\ i \in Claimable /\ rows'[i].st = rows[i].st /\ rows'[i].owner = r /\ rows'[i].leased
                            /\ (\A j \in Ids : j # i => rows'[j] = rows[j])
                            /\ forwards' = [forwards EXCEPT ![i] = forwards[i] + 1]
                            /\ drain'[r].pc = "forward" /\ drain'[r].id = i
    <3>1. PICK i \in Ids : /\ i \in Claimable /\ rows'[i].st = rows[i].st /\ rows'[i].owner = r /\ rows'[i].leased
                           /\ (\A j \in Ids : j # i => rows'[j] = rows[j])
                           /\ forwards' = [forwards EXCEPT ![i] = forwards[i] + 1]
                           /\ drain'[r].pc = "forward" /\ drain'[r].id = i
      BY <2>4
    <3>2. \A v \in Replicas, j \in Ids : j # i /\ Busy(v, j) => Busy(v, j)'
      BY <2>1, <3>1 DEF Busy, Holds
    <3>3. Busy(r, i)' /\ rows'[i].leased
      BY <2>1, <3>1 DEF Busy, Holds, Claimable, Queued
    <3>4. forwards[i] <= faults[i]
      BY <3>1 DEF Claimable, Queued
    <3>5. \A j \in Ids : /\ forwards[j] \in Nat /\ faults[j] \in Nat /\ faults'[j] = faults[j]
                         /\ forwards'[j] = IF j = i THEN forwards[j] + 1 ELSE forwards[j]
      BY <2>1, <3>1 DEF TypeOK
    <3> QED BY <3>1, <3>2, <3>3, <3>4, <3>5
  <2> QED BY <1>4, <2>2, <2>3, <2>4, ClaimStep
<1>5. ASSUME NEW r \in Replicas, Delete(r) PROVE PaidInv'
  <2>1. PICK i \in Ids :
            /\ UNCHANGED <<up, forwards>> /\ drain[r].pc = "delete" /\ drain[r].id = i
            /\ \A v \in Replicas : v # r => drain'[v] = drain[v]
            /\ \A j \in Ids : j # i => rows'[j] = rows[j] /\ faults'[j] = faults[j]
            /\ \/ UNCHANGED faults /\ rows'[i].st = "deleted"
               \/ UNCHANGED rows /\ faults'[i] = IF Holds(r, i) THEN faults[i] + 1 ELSE faults[i]
    BY <1>5, DeleteStep
  <2>2. \A v \in Replicas, j \in Ids : Busy(v, j) /\ j # i => Busy(v, j)'
    BY <2>1 DEF Busy, Holds
  <2>3. \A j \in Ids : forwards[j] \in Nat /\ faults[j] \in Nat
    BY DEF TypeOK
  <2>4. CASE rows'[i].st = "deleted" /\ UNCHANGED faults
    BY <2>1, <2>2, <2>4
  <2>5. CASE UNCHANGED rows /\ faults'[i] = IF Holds(r, i) THEN faults[i] + 1 ELSE faults[i]
    <3>1. CASE Holds(r, i)
      BY <2>1, <2>2, <2>3, <2>5, <3>1
    <3>2. CASE ~Holds(r, i)
      <4>1. \A v \in Replicas : Busy(v, i) => Busy(v, i)'
        BY <2>1, <2>5, <3>2 DEF Busy, Holds
      <4> QED BY <2>1, <2>2, <2>5, <3>2, <4>1
    <3> QED BY <3>1, <3>2
  <2> QED BY <2>1, <2>4, <2>5
<1>6. ASSUME NEW r \in Replicas, RenewFails(r) PROVE PaidInv'
  <2>1. PICK i \in Ids :
            /\ UNCHANGED <<rows, up, forwards>> /\ drain[r].pc = "forward" /\ drain[r].id = i
            /\ \A v \in Replicas : v # r => drain'[v] = drain[v]
            /\ \A j \in Ids : j # i => faults'[j] = faults[j]
            /\ faults'[i] = IF Holds(r, i) /\ rows[i].leased THEN faults[i] + 1 ELSE faults[i]
    BY <1>6, RenewFailsStep
  <2>2. \A v \in Replicas, j \in Ids : Busy(v, j) /\ (j # i \/ ~Holds(r, i)) => Busy(v, j)'
    BY <2>1 DEF Busy, Holds
  <2>3. \A j \in Ids : forwards[j] \in Nat /\ faults[j] \in Nat
    BY DEF TypeOK
  <2>4. CASE Holds(r, i) /\ rows[i].leased
    BY <2>1, <2>2, <2>3, <2>4
  <2>5. CASE ~(Holds(r, i) /\ rows[i].leased)
    BY <2>1, <2>2, <2>3, <2>5
  <2> QED BY <2>4, <2>5
<1>7. ASSUME NEW r \in Replicas, Crash(r) PROVE PaidInv'
  <2>1. /\ UNCHANGED <<rows, forwards>> /\ up' = up \ {r}
        /\ \A v \in Replicas : v # r => drain'[v] = drain[v]
        /\ \A j \in Ids : faults'[j] >= faults[j] /\ faults'[j] \in Nat
        /\ \A j \in Ids : Busy(r, j) => faults'[j] = faults[j] + 1
    BY <1>7, CrashStep
  <2>2. \A v \in Replicas, j \in Ids : Busy(v, j) /\ v # r => Busy(v, j)'
    BY <2>1 DEF Busy, Holds
  <2>3. \A j \in Ids : forwards[j] \in Nat /\ faults[j] \in Nat
    BY DEF TypeOK
  <2>4. ASSUME NEW j \in Ids, Busy(r, j) PROVE forwards'[j] <= faults'[j] /\ faults'[j] \in Nat
    BY <2>1, <2>3, <2>4
  <2>5. ASSUME NEW j \in Ids, ~Busy(r, j)
        PROVE  /\ forwards'[j] <= 1 + faults'[j]
               /\ rows'[j].st = "queued" /\ (rows'[j].leased => \A v \in Replicas : ~Busy(v, j)')
                     => forwards'[j] <= faults'[j]
    BY <2>1, <2>2, <2>3, <2>5
  <2>6. \A j \in Ids : forwards'[j] <= faults'[j] => forwards'[j] <= 1 + faults'[j]
    BY <2>1, <2>3
  <2> QED BY <2>4, <2>5, <2>6
<1>8. ASSUME NEW i \in Ids, Tell(i) PROVE PaidInv'
  <2>1. UNCHANGED <<rows, up, drain, forwards, faults>>
    BY <1>8, TellStep
  <2> QED BY <2>1 DEF Busy, Holds
<1>9. ASSUME NEW i \in Ids, Expire(i) PROVE PaidInv'
  <2>1. /\ UNCHANGED <<up, drain, forwards>>
        /\ rows'[i].st = rows[i].st /\ rows'[i].owner = rows[i].owner /\ ~rows'[i].leased
        /\ \A j \in Ids : j # i => rows'[j] = rows[j] /\ faults'[j] = faults[j]
        /\ faults'[i] = IF \E r \in Replicas : Busy(r, i) THEN faults[i] + 1 ELSE faults[i]
        /\ rows[i].st = "queued"
    BY <1>9, ExpireStep
  <2>2. \A v \in Replicas, j \in Ids : j # i => (Busy(v, j)' <=> Busy(v, j))
    BY <2>1 DEF Busy, Holds
  <2>3. \A j \in Ids : forwards[j] \in Nat /\ faults[j] \in Nat
    BY DEF TypeOK
  <2>4. CASE \E r \in Replicas : Busy(r, i)
    BY <2>1, <2>2, <2>3, <2>4
  <2>5. CASE \A r \in Replicas : ~Busy(r, i)
    BY <2>1, <2>2, <2>3, <2>5
  <2> QED BY <2>4, <2>5
<1> QED
  BY NextCases, <1>1, <1>2, <1>3, <1>4, <1>5, <1>6, <1>7, <1>8, <1>9

\* Callers.
LEMMA HomeStep ==
    ASSUME TypeOK, DrainInv, HomeInv, Next
    PROVE  HomeInv'
<1> USE DEF HomeInv
<1>1. ASSUME NEW r \in Replicas, Still(r) PROVE HomeInv'
  BY <1>1, StillStep
<1>2. ASSUME NEW r \in Replicas, Move(r) PROVE HomeInv'
  <2>1. UNCHANGED home
    BY <1>2, MoveStep
  <2>2. \A j \in Ids : client'[j] = "waiting" => client[j] = "waiting"
    BY <1>2, ToldTyped DEF Move, LoopDrain, EnsureActive, ClaimedNothing, ForwardReturns,
       Complete, CompleteErr, DrainFails, RequestDrain, callers
  <2> QED BY <2>1, <2>2
<1>3. ASSUME NEW r \in Replicas, Enqueue(r) PROVE HomeInv'
  BY <1>3, EnqueueStep DEF TypeOK
<1>4. ASSUME NEW r \in Replicas, Claim(r) PROVE HomeInv'
  BY <1>4, ClaimStep
<1>5. ASSUME NEW r \in Replicas, Delete(r) PROVE HomeInv'
  BY <1>5, DeleteStep
<1>6. ASSUME NEW r \in Replicas, RenewFails(r) PROVE HomeInv'
  BY <1>6, RenewFailsStep
<1>7. ASSUME NEW r \in Replicas, Crash(r) PROVE HomeInv'
  BY <1>7, CrashStep
<1>8. ASSUME NEW i \in Ids, Tell(i) PROVE HomeInv'
  BY <1>8, TellStep
<1>9. ASSUME NEW i \in Ids, Expire(i) PROVE HomeInv'
  BY <1>9, ExpireStep
<1> QED
  BY NextCases, <1>1, <1>2, <1>3, <1>4, <1>5, <1>6, <1>7, <1>8, <1>9

\* A row leaves the queue forwarded.
LEMMA AcceptedStep ==
    ASSUME TypeOK, DrainInv, AcceptedIsForwarded, Next
    PROVE  AcceptedIsForwarded'
<1> USE DEF AcceptedIsForwarded
<1>1. ASSUME NEW r \in Replicas, Still(r) PROVE AcceptedIsForwarded'
  BY <1>1, StillStep
<1>2. ASSUME NEW r \in Replicas, Move(r) PROVE AcceptedIsForwarded'
  BY <1>2, MoveStep
<1>3. ASSUME NEW r \in Replicas, Enqueue(r) PROVE AcceptedIsForwarded'
  BY <1>3, EnqueueStep
<1>4. ASSUME NEW r \in Replicas, Claim(r) PROVE AcceptedIsForwarded'
  <2>1. /\ \A j \in Ids : forwards'[j] \in Nat /\ forwards'[j] >= forwards[j]
        /\ \A j \in Ids : rows'[j].st = "deleted" => rows[j].st = "deleted"
    <3>1. CASE UNCHANGED <<rows, forwards>>
      BY <3>1 DEF TypeOK
    <3>2. CASE \E i \in Ids : /\ rows'[i].st = "poisoned" /\ UNCHANGED forwards
                              /\ \A j \in Ids : j # i => rows'[j] = rows[j]
      BY <3>2 DEF TypeOK
    <3>3. CASE \E i \in Ids : /\ rows'[i].st = rows[i].st
                              /\ (\A j \in Ids : j # i => rows'[j] = rows[j])
                              /\ forwards' = [forwards EXCEPT ![i] = forwards[i] + 1]
      BY <3>3 DEF TypeOK
    <3> QED BY <1>4, <3>1, <3>2, <3>3, ClaimStep
  <2> QED BY <2>1 DEF TypeOK
<1>5. ASSUME NEW r \in Replicas, Delete(r) PROVE AcceptedIsForwarded'
  BY <1>5, DeleteStep DEF DrainInv
<1>6. ASSUME NEW r \in Replicas, RenewFails(r) PROVE AcceptedIsForwarded'
  BY <1>6, RenewFailsStep
<1>7. ASSUME NEW r \in Replicas, Crash(r) PROVE AcceptedIsForwarded'
  BY <1>7, CrashStep
<1>8. ASSUME NEW i \in Ids, Tell(i) PROVE AcceptedIsForwarded'
  BY <1>8, TellStep
<1>9. ASSUME NEW i \in Ids, Expire(i) PROVE AcceptedIsForwarded'
  BY <1>9, ExpireStep
<1> QED
  BY NextCases, <1>1, <1>2, <1>3, <1>4, <1>5, <1>6, <1>7, <1>8, <1>9

\* The outcome of a delivery.
LEMMA OutcomeStep ==
    ASSUME TypeOK, DrainInv, HomeInv, OutcomeReachesCaller, Next
    PROVE  OutcomeReachesCaller'
<1> USE DEF OutcomeReachesCaller, HomeInv
<1>1. ASSUME NEW r \in Replicas, Still(r) PROVE OutcomeReachesCaller'
  BY <1>1, StillStep
<1>2. ASSUME NEW r \in Replicas, Move(r) PROVE OutcomeReachesCaller'
  <2>1. /\ UNCHANGED <<rows, home>>
        /\ \A v \in Replicas : v # r => drain'[v] = drain[v]
    BY <1>2, MoveStep
  <2>2. CASE Complete(r)
    <3>1. Told(r, drain[r].id, "answered")
      BY <2>2 DEF Complete
    <3>2. /\ \A j \in Ids : client'[j] = "waiting" => client[j] = "waiting"
          /\ \A j \in Ids : j = drain[r].id /\ home[j] = r => client'[j] # "waiting"
      BY <3>1 DEF Told, TypeOK, Ids
    <3> QED BY <2>1, <3>2
  <2>3. CASE ~Complete(r)
    <3>1. \A j \in Ids : client'[j] = "waiting" => client[j] = "waiting"
      BY <1>2, ToldTyped DEF Move, LoopDrain, EnsureActive, ClaimedNothing, ForwardReturns,
         Complete, CompleteErr, DrainFails, RequestDrain, callers
    <3>2. drain[r].pc # "complete"
      BY <1>2, <2>3 DEF Move, LoopDrain, EnsureActive, ClaimedNothing, ForwardReturns,
         CompleteErr, DrainFails,
                     RequestDrain, At
    <3> QED BY <2>1, <3>1, <3>2
  <2> QED BY <2>2, <2>3
<1>3. ASSUME NEW r \in Replicas, Enqueue(r) PROVE OutcomeReachesCaller'
  <2>1. PICK i \in Ids :
            /\ UNCHANGED drain /\ rows'[i].st = "queued"
            /\ \A j \in Ids : j # i => rows'[j] = rows[j]
            /\ home' = [home EXCEPT ![i] = r] /\ client' = [client EXCEPT ![i] = "waiting"]
    BY <1>3, EnqueueStep
  <2> QED BY <2>1 DEF TypeOK
<1>4. ASSUME NEW r \in Replicas, Claim(r) PROVE OutcomeReachesCaller'
  <2>1. /\ UNCHANGED <<home, client>> /\ drain[r].pc = "claim"
        /\ \A v \in Replicas : v # r => drain'[v] = drain[v]
    BY <1>4, ClaimStep
  <2>2. \A j \in Ids : rows'[j].st = "deleted" => rows'[j] = rows[j]
    BY <1>4, ClaimStep DEF Claimable, Queued
  <2> QED BY <2>1, <2>2
<1>5. ASSUME NEW r \in Replicas, Delete(r) PROVE OutcomeReachesCaller'
  <2>1. PICK i \in Ids :
            /\ UNCHANGED <<home, client>> /\ drain[r].pc = "delete"
            /\ \A v \in Replicas : v # r => drain'[v] = drain[v]
            /\ drain'[r].pc = "complete" /\ drain'[r].id = i
            /\ \A j \in Ids : j # i => rows'[j] = rows[j]
            /\ (Holds(r, i) /\ rows'[i].owner = rows[i].owner) \/ UNCHANGED rows
    BY <1>5, DeleteStep
  <2>2. rows'[i].st = "deleted" /\ ~UNCHANGED rows => rows'[i].owner = r
    BY <2>1 DEF Holds
  <2> QED BY <2>1, <2>2
<1>6. ASSUME NEW r \in Replicas, RenewFails(r) PROVE OutcomeReachesCaller'
  BY <1>6, RenewFailsStep
<1>7. ASSUME NEW r \in Replicas, Crash(r) PROVE OutcomeReachesCaller'
  BY <1>7, CrashStep
<1>8. ASSUME NEW i \in Ids, Tell(i) PROVE OutcomeReachesCaller'
  BY <1>8, TellStep
<1>9. ASSUME NEW i \in Ids, Expire(i) PROVE OutcomeReachesCaller'
  BY <1>9, ExpireStep
<1> QED
  BY NextCases, <1>1, <1>2, <1>3, <1>4, <1>5, <1>6, <1>7, <1>8, <1>9

-----------------------------------------------------------------------------
(* The theorems.                                                           *)

\* The empty queue satisfies the invariant.
LEMMA InvInit == Init => Inv
<1> SUFFICES ASSUME Init PROVE Inv
  OBVIOUS
<1>1. TypeOK
  <2>1. count \in 0..MaxRequests /\ foreign \subseteq Ids /\ troubles \in Nat
    BY SpoolAssumption DEF Init
  <2>4. active \in BOOLEAN
    BY Zenon DEF Init
  <2>2. rows \in [Ids -> RowRecords]
    BY DEF Init, RowRecords, Owners
  <2>3. drain \in [Replicas -> Drains]
    BY NoDrainTyped DEF Init
  <2> QED BY <2>1, <2>2, <2>3, <2>4 DEF Init, TypeOK, Owners
<1>2. FreshInv /\ DrainInv /\ OrderInv /\ HomeInv /\ AcceptedIsForwarded /\ OutcomeReachesCaller
  BY DEF Init, FreshInv, DrainInv, OrderInv, HomeInv, AcceptedIsForwarded, OutcomeReachesCaller,
     NoDrain
<1>3. PaidInv
  BY DEF Init, PaidInv
<1> QED BY <1>1, <1>2, <1>3 DEF Inv

\* Every step keeps it.
LEMMA InvStep == Inv /\ [Next]_vars => Inv'
<1> SUFFICES ASSUME Inv, [Next]_vars PROVE Inv'
  OBVIOUS
<1>1. CASE Next
  BY <1>1, TypeStep, FreshStep, DrainStep, OrderStep, PaidStep, HomeStep, AcceptedStep,
     OutcomeStep DEF Inv
<1>2. CASE UNCHANGED vars
  <2>1. TypeOK'
    BY <1>2 DEF Inv, vars, TypeOK
  <2>2. FreshInv' /\ DrainInv' /\ OrderInv' /\ HomeInv' /\ AcceptedIsForwarded'
        /\ OutcomeReachesCaller'
    BY <1>2 DEF Inv, vars, FreshInv, DrainInv, OrderInv, HomeInv, AcceptedIsForwarded,
       OutcomeReachesCaller
  <2>3. PaidInv'
    BY <1>2 DEF Inv, vars, PaidInv, Busy, Holds
  <2> QED BY <2>1, <2>2, <2>3 DEF Inv
<1> QED BY <1>1, <1>2

\* Who deletes row i handed it to the stack, and every older row before it.
LEMMA RemovalStep ==
    ASSUME Inv, [Next]_vars
    PROVE  \A i \in Ids : rows[i].st = "queued" /\ rows'[i].st = "deleted" =>
              \A j \in 1..(i - 1) : rows[j].st = "queued" => forwards[j] > 0
<1> SUFFICES ASSUME NEW i \in Ids, rows[i].st = "queued", rows'[i].st = "deleted",
                    NEW j \in 1..(i - 1), rows[j].st = "queued"
             PROVE  forwards[j] > 0
  OBVIOUS
<1>1. Inv'
  BY InvStep
<1>2. j \in Ids /\ j < i
  BY SpoolAssumption DEF Ids
<1>3. CASE \E r \in Replicas : Delete(r)
  <2>1. UNCHANGED forwards
    BY <1>3, DeleteStep DEF Inv
  <2>2. forwards[i] > 0
    BY <1>1, <2>1 DEF Inv, AcceptedIsForwarded
  <2> QED BY <1>2, <2>2 DEF Inv, OrderInv
<1>4. CASE ~\E r \in Replicas : Delete(r)
  <2>1. CASE Next
    <3>1. ASSUME NEW r \in Replicas, Claim(r) PROVE FALSE
      BY <3>1, ClaimStep DEF Inv
    <3>2. ASSUME NEW r \in Replicas, Enqueue(r) PROVE FALSE
      BY <3>2, EnqueueStep DEF Inv
    <3>3. ASSUME NEW r \in Replicas, Still(r) \/ Move(r) \/ RenewFails(r) \/ Crash(r) PROVE FALSE
      BY <3>3, StillStep, MoveStep, RenewFailsStep, CrashStep DEF Inv
    <3>4. ASSUME NEW k \in Ids, Tell(k) \/ Expire(k) PROVE FALSE
      BY <3>4, TellStep, ExpireStep DEF Inv
    <3> QED BY <1>4, <2>1, <3>1, <3>2, <3>3, <3>4, NextCases
  <2>2. CASE UNCHANGED vars
    BY <2>2 DEF vars
  <2> QED BY <2>1, <2>2
<1> QED BY <1>3, <1>4

\* The two counting properties follow from the invariant.
LEMMA InvImplies == Inv => DuplicatesAreFaults /\ AcceptedIsForwarded /\ OutcomeReachesCaller
BY DEF Inv, PaidInv, DuplicatesAreFaults

\* Every delivery of a request beyond the first is paid for by a fault.
THEOREM Duplicates == Spec => []DuplicatesAreFaults
BY InvInit, InvStep, InvImplies, PTL DEF Spec

\* No accepted request is deleted that was never handed to the stack.
THEOREM Accepted == Spec => []AcceptedIsForwarded
BY InvInit, InvStep, InvImplies, PTL DEF Spec

\* While its caller waits on the replica that deleted a request, that replica is
\* about to hand the outcome over.
THEOREM Outcome == Spec => []OutcomeReachesCaller
BY InvInit, InvStep, InvImplies, PTL DEF Spec

\* No request is deleted while an older one was never claimed.
THEOREM Order == Spec => OlderWereClaimed
<1>1. Inv /\ [Next]_vars =>
         [\A i \in Ids : rows[i].st = "queued" /\ rows'[i].st = "deleted" =>
             \A j \in 1..(i - 1) : rows[j].st = "queued" => forwards[j] > 0]_vars
  BY RemovalStep
<1> QED BY <1>1, InvInit, InvStep, PTL DEF Spec, OlderWereClaimed
=============================================================================

----------------------------- MODULE Controller -----------------------------
(***************************************************************************)
(* lifecycle.Controller over a shared control store.  Every activator      *)
(* process (a replica) holds a cached view of the durable record and       *)
(* applies each transition as a compare-and-swap from that view.  A lost   *)
(* swap reloads the view and changes nothing.  Controllers of different    *)
(* processes run concurrently; inside one process a mutex makes each       *)
(* method atomic, except that BeginWake reads the store and swaps in two   *)
(* statements between which another process may move the record.           *)
(***************************************************************************)
EXTENDS LifecycleRecord

CONSTANTS Controllers, \* controller processes that share one control store
          Fences,      \* the fences callers may present
          Selectable,  \* snapshot generations an operator may name
          Deadlines,   \* wake deadlines a scheduler may publish, 0 clears
          MaxGen,      \* bound on the fencing generation
          MaxNow       \* bound on the clock

ASSUME ControllerAssumption ==
    /\ Fences \subseteq Nat
    /\ Selectable \subseteq Nat \ {0}
    /\ Deadlines \subseteq Nat
    /\ MaxGen \in Nat
    /\ MaxNow \in Nat

VARIABLES store,     \* the durable record
          cache,     \* cache[r]: replica r's view of it
          electing,  \* replicas inside BeginWake, between Load and the swap
          now,       \* wall clock
          won        \* history: <<g, r>> when r was told it owns fence g

controllerVars == <<store, cache, electing, now, won>>

-----------------------------------------------------------------------------
ControllerTypeOK ==
    /\ store \in StateRecords
    /\ cache \in [Controllers -> StateRecords]
    /\ electing \subseteq Controllers
    /\ now \in Nat
    /\ won \subseteq Nat \X Controllers

ControllerInit ==
    /\ store = Seed
    /\ cache = [r \in Controllers |-> Seed]
    /\ electing = {}
    /\ now = 1
    /\ won = {}

-----------------------------------------------------------------------------
(* CompareAndSwap, persistLocked and reloadLocked.                         *)

Reloaded(r) == cache' = [cache EXCEPT ![r] = store]

\* Mutant: an unconditional write of the control store.
PersistWithoutCompare(r, next) ==
    /\ store' = next
    /\ cache' = [cache EXCEPT ![r] = next]

\* Mutant: a lost swap is reported without reloading the view, but counted as won.
WonUnchecked(r) == won' = won \cup {<<cache[r].gen + 1, r>>}

\* The durable record becomes next when the view of r is current; otherwise r
\* adopts the durable record and its caller gets ErrStateConflict.
Persist(r, next) ==
    IF cache[r] = store
    THEN /\ store' = next
         /\ cache' = [cache EXCEPT ![r] = next]
    ELSE /\ store' = store
         /\ Reloaded(r)

\* The swap moved the fence, and r was told that the new fence is its own.
Won(r) == won' = IF cache[r] = store
                 THEN won \cup {<<store.gen + 1, r>>} ELSE won

\* A transition that needs no election: fence and state are checked against
\* the cached view only.
Fenced(r, fence) == r \notin electing /\ fence = cache[r].gen

-----------------------------------------------------------------------------
(* The methods of Controller.                                              *)

\* NewPersistent: a process (re)starts and loads the record.
NewPersistent(r) ==
    /\ Reloaded(r)
    /\ electing' = electing \ {r}
    /\ UNCHANGED <<store, now, won>>

SetWakeDeadline(r, fence, d) ==
    /\ Fenced(r, fence)
    /\ Persist(r, DeadlineSet(cache[r], d))
    /\ UNCHANGED <<electing, now, won>>

\* The read-through of BeginWake: it goes on only out of a hibernated stack.
BeginWakeLoad(r) ==
    /\ r \notin electing
    /\ Reloaded(r)
    /\ electing' = IF CanWake(store) THEN electing \cup {r} ELSE electing
    /\ UNCHANGED <<store, now, won>>

BeginWakeSwap(r) ==
    /\ r \in electing
    /\ store.gen < MaxGen
    /\ Persist(r, WakeBegun(cache[r]))
    /\ Won(r)
    /\ electing' = electing \ {r}
    /\ UNCHANGED <<now>>

AcknowledgeFailure(r, fence) ==
    /\ Fenced(r, fence)
    /\ CanAcknowledge(cache[r])
    /\ store.gen < MaxGen
    /\ Persist(r, FailureAcknowledged(cache[r]))
    /\ Won(r)
    /\ UNCHANGED <<electing, now>>

BeginOperatorRestore(r, fence, g) ==
    /\ Fenced(r, fence)
    /\ CanOperatorRestore(cache[r])
    /\ store.gen < MaxGen
    /\ Persist(r, OperatorRestoreBegun(cache[r], g))
    /\ Won(r)
    /\ UNCHANGED <<electing, now>>

\* A view that already claims snapshot authority answers without a swap.
DeclareSnapshotAuthoritative(r, fence) ==
    /\ Fenced(r, fence)
    /\ CanDeclare(cache[r])
    /\ IF cache[r].sa
       THEN UNCHANGED <<store, cache>>
       ELSE Persist(r, SnapshotDeclared(cache[r]))
    /\ UNCHANGED <<electing, now, won>>

DeclareVolumeAuthoritative(r, fence) ==
    /\ Fenced(r, fence)
    /\ CanDeclare(cache[r])
    /\ IF cache[r].sa
       THEN Persist(r, VolumeDeclared(cache[r]))
       ELSE UNCHANGED <<store, cache>>
    /\ UNCHANGED <<electing, now, won>>

BeginRecovery(r, fence) ==
    /\ Fenced(r, fence)
    /\ CanRecover(cache[r])
    /\ Persist(r, RecoveryBegun(cache[r]))
    /\ UNCHANGED <<electing, now, won>>

Activate(r, fence) ==
    /\ Fenced(r, fence)
    /\ cache[r].state = "waking"
    /\ Persist(r, Activated(cache[r], now))
    /\ UNCHANGED <<electing, now, won>>

BeginHibernate(r, fence) ==
    /\ Fenced(r, fence)
    /\ cache[r].state = "active"
    /\ store.gen < MaxGen
    /\ Persist(r, HibernateBegun(cache[r]))
    /\ Won(r)
    /\ UNCHANGED <<electing, now>>

BeginSnapshot(r, fence) ==
    /\ Fenced(r, fence)
    /\ cache[r].state = "quiescing"
    /\ Persist(r, SnapshotBegun(cache[r]))
    /\ UNCHANGED <<electing, now, won>>

BeginStop(r, fence) ==
    /\ Fenced(r, fence)
    /\ cache[r].state = "snapshotting"
    /\ Persist(r, StopBegun(cache[r]))
    /\ UNCHANGED <<electing, now, won>>

CompleteHibernate(r, fence) ==
    /\ Fenced(r, fence)
    /\ cache[r].state = "stopping"
    /\ Persist(r, HibernateCompleted(cache[r]))
    /\ UNCHANGED <<electing, now, won>>

Fail(r, fence) ==
    /\ Fenced(r, fence)
    /\ CanFail(cache[r])
    /\ Persist(r, Failed(cache[r]))
    /\ UNCHANGED <<electing, now, won>>

Tick == /\ now < MaxNow
        /\ now' = now + 1
        /\ UNCHANGED <<store, cache, electing, won>>

FencedStep(r, fence) ==
    \/ \E d \in Deadlines : SetWakeDeadline(r, fence, d)
    \/ AcknowledgeFailure(r, fence)
    \/ \E g \in Selectable : BeginOperatorRestore(r, fence, g)
    \/ DeclareSnapshotAuthoritative(r, fence)
    \/ DeclareVolumeAuthoritative(r, fence)
    \/ BeginRecovery(r, fence)
    \/ Activate(r, fence)
    \/ BeginHibernate(r, fence)
    \/ BeginSnapshot(r, fence)
    \/ BeginStop(r, fence)
    \/ CompleteHibernate(r, fence)
    \/ Fail(r, fence)

ControllerNext ==
    \/ Tick
    \/ \E r \in Controllers :
         \/ NewPersistent(r) \/ BeginWakeLoad(r) \/ BeginWakeSwap(r)
         \/ \E fence \in Fences : FencedStep(r, fence)

ControllerSpec == ControllerInit /\ [][ControllerNext]_controllerVars

-----------------------------------------------------------------------------
(* Properties.                                                             *)

\* Every fence has one owner: however the loads and swaps of several processes
\* interleave, no two of them were told that they own the same generation.
FenceHasOneOwner == \A a, b \in won : a[1] = b[1] => a = b

\* No HIBERNATED, FAILED or settled record carries an operator's selection, so
\* no ordinary request inherits consent to overwrite the volume.
ConsentScoped == store.rg # 0 => store.state = "waking"

\* A settled stack is left only under a new fence, and never into FAILED: a
\* process with a stale view cannot knock over a stack another one settled.
SettledNeedsNewFence ==
    [][store'.state # store.state /\ store.state \in {"active", "hibernated", "failed"}
          => store'.gen = store.gen + 1 /\ store'.state # "failed"]_controllerVars

\* Authority changes hands only inside one attempt, under an unchanged fence:
\* when a wake declares it, when Activate settles it, or at BeginStop.  Waking,
\* failing, acknowledging and recovering carry it.
AuthorityCarried ==
    [][store'.sa # store.sa =>
          /\ store'.gen = store.gen
          /\ \/ store.state = "waking" /\ store'.state \in {"waking", "active"}
             \/ store.state = "snapshotting" /\ store'.state = "stopping"]_controllerVars
=============================================================================

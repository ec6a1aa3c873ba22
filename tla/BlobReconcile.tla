--------------------------- MODULE BlobReconcile ---------------------------
(***************************************************************************)
(* Bytes and the rows that refer to them.  The chat service writes an      *)
(* object first and commits a reference later (UploadFile, the external    *)
(* upload tickets, drafts and scheduled messages of service/messages.go);  *)
(* cmd/blobgc audits objects against references (blob/reconcile.go over    *)
(* collectBlobReferences of the SQL store), enqueues deletions, and its    *)
(* cleanup workers (blob/cleanup.go) carry them out under a lease.         *)
(*                                                                         *)
(* Photos and custom emoji, which are replaced in one transaction like a   *)
(* deleted file, the result limits of an audit and staging files are left  *)
(* out.                                                                    *)
(***************************************************************************)
EXTENDS Integers, FiniteSets

CONSTANTS Uploads,     \* external upload tickets, each the key of its object
          Plain,       \* files.upload objects
          Writers,     \* requests that write bytes
          Cleaners,    \* cleanup workers
          Window,      \* the ticket lifetime, ExternalUploadWindow
          MinAge,      \* the grace period -min-orphan-age
          MaxTime,     \* bound on the clock
          MaxFaults    \* bound on crashes, lapsed leases and provider errors

None == "none"

ASSUME BlobAssumption ==
    /\ IsFiniteSet(Uploads \cup Plain) /\ Uploads \cap Plain = {}
    /\ None \notin Uploads \cup Plain \cup Cleaners
    /\ Window \in Nat \ {0} /\ MaxTime \in Nat /\ MaxFaults \in Nat
    /\ MinAge \in Nat /\ MinAge >= Window    \* NewReconciler refuses less

Keys   == Uploads \cup Plain
Absent == -1

VARIABLES
    clock,
    object,     \* object[k]: modification time of the object, or Absent
    ticket,     \* ticket[u]: row of external_uploads
    file,       \* file[k]: the files row under this key
    draft,      \* uploads in draft_attachments
    scheduled,  \* uploads of undelivered scheduled messages
    saving,     \* saving[u]: a save that passed normalizeComposerAttachments
    fresh,      \* keys of direct uploads NewFileID has not handed out yet
    writer,     \* writer[w]: where the upload request stands
    audit,      \* the audit of blobgc
    queue,      \* keys with an undelivered deletion event
    lease,      \* lease[k]: the cleaner that holds the event of k
    cleaner,    \* cleaner[c]: where RunOnce stands
    stale,      \* uploads referenced again after nothing had kept them
    torn,       \* uploads whose reference moved while the audit read them
    faults

refs == <<ticket, file, draft, scheduled, saving>>
gc   == <<queue, lease, cleaner>>
vars == <<clock, object, refs, fresh, writer, audit, gc, stale, torn, faults>>

Times == 0..MaxTime

TypeOK ==
    /\ clock \in Times
    /\ object \in [Keys -> Times \cup {Absent}]
    /\ ticket \in [Uploads -> [status : {None, "pending", "uploaded", "completed"},
                               expires : 0..(MaxTime + Window)]]
    /\ file \in [Keys -> {None, "live", "deleted"}]
    /\ draft \in SUBSET Uploads /\ scheduled \in SUBSET Uploads
    /\ saving \in [Uploads -> {None, "draft", "scheduled"}]
    /\ fresh \in SUBSET Plain
    /\ writer \in [Writers -> [at : {"idle", "put", "commit"},
                               key : Keys \cup {None}]]
    /\ audit \in [at : {"idle", "objects", "files", "drafts", "scheduled", "confirm",
                        "enqueue"},
                  cutoff : Times, seen : [Keys -> Times \cup {Absent}],
                  refs : SUBSET Keys, todo : SUBSET Keys, missing : SUBSET Keys]
    /\ queue \in SUBSET Keys
    /\ lease \in [Keys -> Cleaners \cup {None}]
    /\ cleaner \in [Cleaners -> [at : {"idle", "delete", "ack"},
                                 key : Keys \cup {None}]]
    /\ stale \in SUBSET Uploads /\ torn \in SUBSET Uploads
    /\ faults \in 0..MaxFaults

IdleAudit == [at |-> "idle", cutoff |-> 0, seen |-> [k \in Keys |-> Absent],
              refs |-> {}, todo |-> {}, missing |-> {}]

Init ==
    /\ clock = 0
    /\ object = [k \in Keys |-> Absent]
    /\ ticket = [u \in Uploads |-> [status |-> None, expires |-> 0]]
    /\ file = [k \in Keys |-> None]
    /\ draft = {} /\ scheduled = {}
    /\ saving = [u \in Uploads |-> None]
    /\ fresh = Plain
    /\ writer = [w \in Writers |-> [at |-> "idle", key |-> None]]
    /\ audit = IdleAudit
    /\ queue = {} /\ lease = [k \in Keys |-> None]
    /\ cleaner = [c \in Cleaners |-> [at |-> "idle", key |-> None]]
    /\ stale = {} /\ torn = {} /\ faults = 0

-----------------------------------------------------------------------------
Fault == faults < MaxFaults /\ faults' = faults + 1

InTime(u) == ticket[u].expires > clock

\* PendingUploadReferenceExists, and the same test in completeExternalUploads.
Owned(u) == u \in draft \cup scheduled

\* What the state store counts as a reference (WalkBlobReferences).
Live(k) == \/ file[k] = "live"
           \/ k \in draft \cup scheduled /\ ticket[k].status = "uploaded"

\* The audit stands between the queries of collectBlobReferences.
Reading == audit.at \in {"drafts", "scheduled"}
Moved(u) == torn' = IF Reading THEN torn \cup {u} ELSE torn

Tick == /\ clock < MaxTime /\ clock' = clock + 1
        /\ UNCHANGED <<object, refs, fresh, writer, audit, gc, stale, torn, faults>>

-----------------------------------------------------------------------------
(* Uploads.                                                                *)

\* Every key beyond the first uses up a fault of the budget.
Begin(k) == LET begun == (Plain \ fresh) \cup {u \in Uploads : ticket[u].status # None} IN
            IF begun = {} \/ k \in begun THEN UNCHANGED faults ELSE Fault

CreateExternalUpload(u) ==
    /\ ticket[u].status = None
    /\ Begin(u)
    /\ ticket' = [ticket EXCEPT ![u] = [status |-> "pending", expires |-> clock + Window]]
    /\ UNCHANGED <<clock, object, file, draft, scheduled, saving, fresh, writer, audit, gc,
                   stale, torn>>

\* UploadExternalFile up to Put, and UploadFile with its fresh key.
StartPut(w, k) ==
    /\ writer[w].at = "idle"
    /\ IF k \in Uploads THEN ticket[k].status = "pending" /\ InTime(k)
       ELSE k \in fresh
    /\ fresh' = fresh \ {k}
    /\ Begin(k)
    /\ writer' = [writer EXCEPT ![w] = [at |-> "put", key |-> k]]
    /\ UNCHANGED <<clock, object, refs, audit, gc, stale, torn>>

\* Put ends: the object appears whole, with the time it was finished.
Put(w) ==
    /\ writer[w].at = "put"
    /\ object' = [object EXCEPT ![writer[w].key] = clock]
    /\ writer' = [writer EXCEPT ![w].at = "commit"]
    /\ UNCHANGED <<clock, refs, fresh, audit, gc, stale, torn, faults>>

Idle(w) == writer' = [writer EXCEPT ![w] = [at |-> "idle", key |-> None]]

\* MarkExternalUploadUploaded, whose conditions are those of its UPDATE.
MarkUploaded(w) ==
    LET u == writer[w].key IN
    /\ writer[w].at = "commit" /\ u \in Uploads
    /\ ticket' = IF ticket[u].status = "pending" /\ InTime(u)
                 THEN [ticket EXCEPT ![u].status = "uploaded"] ELSE ticket
    /\ Idle(w)
    /\ UNCHANGED <<clock, object, file, draft, scheduled, saving, fresh, audit, gc, stale,
                   torn, faults>>

\* CreateFile, within the grace period the operator chose for its uploads.
CreateFile(w) ==
    LET k == writer[w].key IN
    /\ writer[w].at = "commit" /\ k \in Plain
    /\ clock - object[k] < MinAge
    /\ file' = [file EXCEPT ![k] = "live"]
    /\ Idle(w)
    /\ UNCHANGED <<clock, object, ticket, draft, scheduled, saving, fresh, audit, gc, stale,
                   torn, faults>>

\* CreateFile fails; the bytes are taken back.
RefuseFile(w) ==
    LET k == writer[w].key IN
    /\ writer[w].at = "commit" /\ k \in Plain
    /\ Fault
    /\ object' = [object EXCEPT ![k] = Absent]
    /\ Idle(w)
    /\ UNCHANGED <<clock, refs, fresh, audit, gc, stale, torn>>

\* The process dies: what it wrote stays, what it would have committed does not.
WriterDies(w) ==
    /\ writer[w].at # "idle"
    /\ Fault
    /\ Idle(w)
    /\ UNCHANGED <<clock, object, refs, fresh, audit, gc, stale, torn>>

-----------------------------------------------------------------------------
(* References.                                                             *)

\* Mutant: completion only asks that the bytes arrived.
CompleteAnyTime(u) ==
    /\ ticket[u].status = "uploaded"
    /\ ticket' = [ticket EXCEPT ![u].status = "completed"]
    /\ file' = [file EXCEPT ![u] = "live"]
    /\ Moved(u)
    /\ UNCHANGED <<clock, object, draft, scheduled, saving, fresh, writer, audit, gc, stale,
                   faults>>

\* completeExternalUploads, which sends and delivers drafts and schedules too.
CompleteExternalUpload(u) ==
    /\ ticket[u].status = "uploaded" /\ (InTime(u) \/ Owned(u))
    /\ ticket' = [ticket EXCEPT ![u].status = "completed"]
    /\ file' = [file EXCEPT ![u] = "live"]
    /\ Moved(u)
    /\ UNCHANGED <<clock, object, draft, scheduled, saving, fresh, writer, audit, gc, stale,
                   faults>>

\* normalizeComposerAttachments, before the transaction of the save.
CheckAttachment(u, h) ==
    /\ saving[u] = None
    /\ ticket[u].status = "uploaded" /\ (InTime(u) \/ Owned(u))
    /\ saving' = [saving EXCEPT ![u] = h]
    /\ UNCHANGED <<clock, object, ticket, file, draft, scheduled, fresh, writer, audit, gc,
                   stale, torn, faults>>

\* UpsertDraft and insertScheduledMessageFiles: only the status is looked at.
SaveAttachment(u) ==
    /\ saving[u] # None
    /\ saving' = [saving EXCEPT ![u] = None]
    /\ IF ticket[u].status = "uploaded"
       THEN /\ draft' = IF saving[u] = "draft" THEN draft \cup {u} ELSE draft
            /\ scheduled' = IF saving[u] = "scheduled" THEN scheduled \cup {u} ELSE scheduled
            /\ Moved(u)
            /\ stale' = IF InTime(u) \/ Owned(u) THEN stale ELSE stale \cup {u}
       ELSE UNCHANGED <<draft, scheduled, torn, stale>>
    /\ UNCHANGED <<clock, object, ticket, file, fresh, writer, audit, gc, faults>>

\* DeleteDraft, or a later save without the file.
DropDraft(u) ==
    /\ u \in draft /\ draft' = draft \ {u}
    /\ UNCHANGED <<clock, object, ticket, file, scheduled, saving, fresh, writer, audit, gc,
                   stale, torn, faults>>

\* DeleteScheduledMessage, or the message is marked delivered.
DropScheduled(u) ==
    /\ u \in scheduled /\ scheduled' = scheduled \ {u}
    /\ UNCHANGED <<clock, object, ticket, file, draft, saving, fresh, writer, audit, gc, stale,
                   torn, faults>>

\* DeleteFile: the tombstone and the deletion event commit together.
DeleteFile(k) ==
    /\ file[k] = "live" /\ file' = [file EXCEPT ![k] = "deleted"]
    /\ queue' = queue \cup {k}
    /\ UNCHANGED <<clock, object, ticket, draft, scheduled, saving, fresh, writer, audit, lease,
                   cleaner, stale, torn, faults>>

-----------------------------------------------------------------------------
(* The audit of cmd/blobgc.                                                *)

AuditStart ==
    /\ audit.at = "idle"
    /\ audit' = [IdleAudit EXCEPT !.at = "objects", !.cutoff = clock]
    /\ UNCHANGED <<clock, object, refs, fresh, writer, gc, stale, torn, faults>>

WalkObjects ==
    /\ audit.at = "objects"
    /\ audit' = [audit EXCEPT !.at = "files", !.seen = object]
    /\ UNCHANGED <<clock, object, refs, fresh, writer, gc, stale, torn, faults>>

\* collectBlobReferences: one query after another, not one snapshot.
ReadFiles ==
    /\ audit.at = "files"
    /\ audit' = [audit EXCEPT !.at = "drafts", !.refs = {k \in Keys : file[k] = "live"}]
    /\ UNCHANGED <<clock, object, refs, fresh, writer, gc, stale, torn, faults>>

Pending(S) == {u \in S : ticket[u].status = "uploaded"}

ReadDrafts ==
    /\ audit.at = "drafts"
    /\ audit' = [audit EXCEPT !.at = "scheduled", !.refs = @ \cup Pending(draft)]
    /\ UNCHANGED <<clock, object, refs, fresh, writer, gc, stale, torn, faults>>

OldEnough(k) == audit.seen[k] # Absent /\ audit.cutoff - audit.seen[k] >= MinAge

\* The last query, and the comparison that follows it.
ReadScheduled ==
    /\ audit.at = "scheduled"
    /\ LET all == audit.refs \cup Pending(scheduled) IN
          audit' = [audit EXCEPT !.at = "confirm", !.refs = {},
                       !.seen = IdleAudit.seen,
                       !.todo = {k \in Keys \ all : OldEnough(k)},
                       !.missing = {k \in all : audit.seen[k] = Absent}]
    /\ UNCHANGED <<clock, object, refs, fresh, writer, gc, stale, torn, faults>>

\* Mutant: what the walk did not list is reported without a second look.
ConfirmNothing ==
    /\ audit.at = "confirm"
    /\ audit' = [audit EXCEPT !.at = "enqueue"]
    /\ UNCHANGED <<clock, object, refs, fresh, writer, gc, stale, torn, faults>>

\* confirmMissing asks the provider again for what the walk did not list.
ConfirmMissing ==
    /\ audit.at = "confirm"
    /\ audit' = [audit EXCEPT !.at = "enqueue",
                    !.missing = {k \in @ : object[k] = Absent}]
    /\ UNCHANGED <<clock, object, refs, fresh, writer, gc, stale, torn, faults>>

\* EnqueueOrphans: one event after another, none if a reference is missing.
EnqueueOrphan(k) ==
    /\ audit.at = "enqueue" /\ audit.missing = {}
    /\ k \in audit.todo
    /\ audit' = [audit EXCEPT !.todo = @ \ {k}]
    /\ queue' = queue \cup {k}
    /\ UNCHANGED <<clock, object, refs, fresh, writer, lease, cleaner, stale, torn, faults>>

AuditEnd ==
    /\ audit.at = "enqueue" /\ (audit.todo = {} \/ audit.missing # {})
    /\ audit' = IdleAudit
    /\ UNCHANGED <<clock, object, refs, fresh, writer, gc, stale, torn, faults>>

\* The audit fails on a store or provider error, or is killed.
AuditDies ==
    /\ audit.at # "idle"
    /\ Fault /\ audit' = IdleAudit
    /\ UNCHANGED <<clock, object, refs, fresh, writer, gc, stale, torn>>

-----------------------------------------------------------------------------
(* The cleanup worker.                                                     *)

Working(c, l) == cleaner' = [cleaner EXCEPT ![c].at = l]
Unlease(c)    == lease' = [k \in Keys |-> IF lease[k] = c THEN None ELSE lease[k]]
Finish(c)     == cleaner' = [cleaner EXCEPT ![c] = [at |-> "idle", key |-> None]]

\* ClaimEventsForTopic.
Claim(c, k) ==
    /\ cleaner[c].at = "idle" /\ k \in queue /\ lease[k] = None
    /\ lease' = [lease EXCEPT ![k] = c]
    /\ cleaner' = [cleaner EXCEPT ![c] = [at |-> "delete", key |-> k]]
    /\ UNCHANGED <<clock, object, refs, fresh, writer, audit, queue, stale, torn, faults>>

\* deleteWithLease; an object that is gone counts as deleted, a lost lease as an error.
Delete(c) ==
    /\ cleaner[c].at = "delete"
    /\ object' = [object EXCEPT ![cleaner[c].key] = Absent]
    /\ IF lease[cleaner[c].key] = c THEN Working(c, "ack") ELSE Finish(c)
    /\ UNCHANGED <<clock, refs, fresh, writer, audit, queue, lease, stale, torn, faults>>

\* Mutant: the event is acknowledged although the deletion failed.
DeleteFailsAcked(c) ==
    /\ cleaner[c].at = "delete"
    /\ Fault
    /\ queue' = queue \ {cleaner[c].key}
    /\ Unlease(c) /\ Finish(c)
    /\ UNCHANGED <<clock, object, refs, fresh, writer, audit, stale, torn>>

\* The provider fails: ReleaseEvents returns the event to the queue.
DeleteFails(c) ==
    /\ cleaner[c].at = "delete"
    /\ Fault
    /\ Unlease(c) /\ Finish(c)
    /\ UNCHANGED <<clock, object, refs, fresh, writer, audit, queue, stale, torn>>

\* AckEvents, under the lease.
Ack(c) ==
    /\ cleaner[c].at = "ack"
    /\ queue' = IF lease[cleaner[c].key] = c THEN queue \ {cleaner[c].key} ELSE queue
    /\ Unlease(c) /\ Finish(c)
    /\ UNCHANGED <<clock, object, refs, fresh, writer, audit, stale, torn, faults>>

\* A stalled worker loses its lease and goes on; a dead one is gone with it.
LeaseLapses(c, died) ==
    /\ cleaner[c].at # "idle"
    /\ Fault
    /\ Unlease(c)
    /\ IF died THEN Finish(c) ELSE lease[cleaner[c].key] = c /\ UNCHANGED cleaner
    /\ UNCHANGED <<clock, object, refs, fresh, writer, audit, queue, stale, torn>>

-----------------------------------------------------------------------------
Upload(w) == \/ \E k \in Keys : StartPut(w, k)
             \/ Put(w) \/ MarkUploaded(w) \/ CreateFile(w)
             \/ RefuseFile(w) \/ WriterDies(w)

Reference(u) == \/ CreateExternalUpload(u) \/ CompleteExternalUpload(u)
                \/ \E h \in {"draft", "scheduled"} : CheckAttachment(u, h)
                \/ SaveAttachment(u)
                \/ DropDraft(u) \/ DropScheduled(u)

Audit == \/ AuditStart \/ WalkObjects \/ ReadFiles \/ ReadDrafts \/ ReadScheduled
         \/ ConfirmMissing \/ AuditEnd
         \/ \E k \in Keys : EnqueueOrphan(k)

Clean(c) == \/ \E k \in Keys : Claim(c, k)
            \/ Delete(c) \/ Ack(c)

Next ==
    \/ Tick
    \/ \E w \in Writers : Upload(w)
    \/ \E u \in Uploads : Reference(u)
    \/ \E k \in Keys : DeleteFile(k)
    \/ Audit \/ AuditDies
    \/ \E c \in Cleaners : \/ Clean(c) \/ DeleteFails(c)
                           \/ \E died \in BOOLEAN : LeaseLapses(c, died)

Spec == Init /\ [][Next]_vars

\* Time passes, the cleanup workers poll, and the operator keeps auditing.
FairSpec == /\ Spec /\ WF_vars(Tick) /\ WF_vars(Audit)
            /\ \A c \in Cleaners : WF_vars(Clean(c))

-----------------------------------------------------------------------------
\* Every key the store counts as a reference still has its bytes, whatever audits,
\* workers and uploads did, unless its reference moved between two queries of one
\* reference walk or was saved after nothing had kept the upload any more.
LiveBytesKept ==
    TypeOK /\ \A k \in Keys : Live(k) => object[k] # Absent \/ k \in stale \cup torn

\* An upload that a draft or a schedule took over before its ticket ran out keeps its
\* bytes until it is released, also while it is sent or delivered during an audit.
OwnedUploadKept == \A u \in Uploads : Live(u) => object[u] # Absent \/ u \in stale

\* A key the audit reports missing (and which makes blobgc refuse to clean up) was
\* really without its bytes: lost, or deleted by its owner during the audit.  Only an
\* upload that had lost them while referenced may be given new ones by a second
\* request on its ticket that was still writing.
MissingIsReal ==
    audit.at = "enqueue" => \A k \in audit.missing :
        \/ file[k] = "deleted"
        \/ object[k] = Absent /\ Live(k)
        \/ k \in Uploads /\ (~Live(k) \/ k \in stale \cup torn)

\* The bytes of a file its owner deleted do not stay: the tombstone's event survives
\* failed deletions, lapsed leases and dead workers.
DeletedBytesReclaimed ==
    \A k \in Plain : (file[k] = "deleted") ~> (object[k] = Absent)

\* Bytes nothing refers to and no request will commit are reclaimed by the audits that
\* follow, unless a live reference has lost its bytes and stops every cleanup.
AbandonedBytesReclaimed ==
    \A k \in Keys :
        []<>(\/ object[k] = Absent \/ Live(k)
             \/ \E w \in Writers : writer[w].key = k
             \/ k \in Uploads /\ (InTime(k) \/ saving[k] # None)
             \/ clock - object[k] < MinAge
             \/ \E j \in Keys : Live(j) /\ object[j] = Absent)

\* Together: no bytes outlive the file, the upload or the failed request they were for.
DeadBytesReclaimed == DeletedBytesReclaimed /\ AbandonedBytesReclaimed
=============================================================================

------------------------- MODULE BlobReconcileProofs -------------------------
(***************************************************************************)
(* Proofs about BlobReconcile for any uploads, writers and cleanup         *)
(* workers, any grace period that is at least the ticket lifetime and any  *)
(* number of faults: no referenced bytes are deleted, and what an audit    *)
(* reports as missing is missing.                                          *)
(***************************************************************************)
EXTENDS BlobReconcile, TLAPS

-----------------------------------------------------------------------------
(* The inductive invariant.                                                *)

Excused(k) == k \in stale \cup torn

Writing(w, l, k) == writer[w].at = l /\ writer[w].key = k

\* Whoever works works on a key.
ShapeInv ==
    /\ \A w \in Writers : IF writer[w].at = "idle" THEN writer[w].key = None
                          ELSE writer[w].key \in Keys
    /\ \A c \in Cleaners : cleaner[c].at = "delete" => cleaner[c].key \in Keys

\* A key of a direct upload is used by one request, once.
PlainInv ==
    \A k \in Plain :
        /\ k \in fresh => object[k] = Absent /\ file[k] = None
        /\ k \in fresh \/ file[k] # None => \A w \in Writers : writer[w].key # k
        /\ \A v, w \in Writers : writer[v].key = k /\ writer[w].key = k => v = w
        /\ \A w \in Writers : Writing(w, "put", k) => object[k] = Absent
        /\ \A w \in Writers : Writing(w, "commit", k) =>
              object[k] # Absent \/ clock >= MinAge

\* An upload's ticket runs out at most its lifetime after its bytes were written,
\* and until then they stay.
UploadInv ==
    \A u \in Uploads :
        /\ ticket[u].status = "completed" <=> file[u] # None
        /\ Owned(u) => ticket[u].status \in {"uploaded", "completed"}
        /\ ticket[u].expires <= clock + Window
        /\ object[u] # Absent =>
              ticket[u].status # None /\ ticket[u].expires <= object[u] + Window
        /\ \A w \in Writers : writer[w].key = u => ticket[u].status # None
        /\ InTime(u) /\ (\/ ticket[u].status = "uploaded"
                         \/ ticket[u].status = "pending"
                            /\ \E w \in Writers : Writing(w, "commit", u))
              => object[u] # Absent \/ Excused(u)

\* Nothing can refer to the key any more, unless a save turns up that was checked
\* before.
Gone(k) ==
    \/ file[k] = "deleted"
    \/ /\ k \in Plain /\ k \notin fresh /\ file[k] = None
       /\ clock >= MinAge /\ (object[k] = Absent \/ clock - object[k] >= MinAge)
       /\ \A w \in Writers : ~Writing(w, "put", k)
    \/ /\ k \in Uploads /\ file[k] = None /\ ticket[k].status # None
       /\ ~InTime(k) /\ ~Owned(k)

\* An object the audit saw, with its time, is the one a plain key has had since;
\* the time of the audit is past.
SeenInv ==
    /\ audit.cutoff <= clock
    /\ \A k \in Keys : audit.seen[k] # Absent =>
          IF k \in Plain
          THEN /\ k \notin fresh /\ object[k] \in {audit.seen[k], Absent}
               /\ \A w \in Writers : ~Writing(w, "put", k)
          ELSE ticket[k].status # None /\ ticket[k].expires <= audit.seen[k] + Window

\* What the queries made so far did not find is not a reference of their kind now.
ReadInv ==
    \A k \in Keys : OldEnough(k) /\ k \notin audit.refs /\ ~Excused(k) =>
        /\ Reading => file[k] # "live"
        /\ audit.at = "scheduled" /\ k \in Uploads => k \notin draft \/ file[k] = "deleted"

\* Bytes that are about to be deleted are gone for good.
Doomed(k) ==
    \/ k \in queue
    \/ audit.at \in {"confirm", "enqueue"} /\ k \in audit.todo
    \/ \E c \in Cleaners : cleaner[c].at = "delete" /\ cleaner[c].key = k

DoomInv == \A k \in Keys : Doomed(k) /\ ~Excused(k) => Gone(k)

\* What was found as a reference was one.
FoundInv ==
    \A k \in audit.refs \cup audit.missing :
        IF k \in Plain THEN file[k] # None
        ELSE ticket[k].status \in {"uploaded", "completed"}

\* What is reported missing has no bytes, or nothing refers to it any more.
MissingInv ==
    audit.at = "enqueue" => \A k \in audit.missing :
        IF k \in Plain THEN object[k] = Absent ELSE Excused(k) \/ Gone(k)

Inv == /\ LiveBytesKept /\ ShapeInv /\ PlainInv /\ UploadInv /\ SeenInv
       /\ ReadInv /\ DoomInv /\ FoundInv /\ MissingInv

-----------------------------------------------------------------------------
(* The kinds of step there are.                                            *)

Becomes(w, l, k) ==
    /\ writer'[w].at = l /\ writer'[w].key = k
    /\ \A v \in Writers : v # w => writer'[v] = writer[v]

OtherTickets(u) == \A v \in Uploads : v # u => ticket'[v] = ticket[v]
OtherFiles(k)   == \A j \in Keys : j # k => file'[j] = file[j]
OtherObjects(k) == \A j \in Keys : j # k => object'[j] = object[j]

Ticks ==
    /\ clock' = clock + 1
    /\ UNCHANGED <<object, ticket, file, draft, scheduled, fresh, writer, audit, queue,
                   cleaner, stale, torn>>

Issues(u) ==
    /\ ticket[u].status = None
    /\ ticket'[u].status = "pending" /\ ticket'[u].expires = clock + Window /\ OtherTickets(u)
    /\ UNCHANGED <<clock, object, file, draft, scheduled, fresh, writer, audit, queue, cleaner,
                   stale, torn>>

StartsPut(w, k) ==
    /\ writer[w].at = "idle"
    /\ IF k \in Uploads THEN ticket[k].status = "pending" ELSE k \in fresh
    /\ fresh' = fresh \ {k} /\ Becomes(w, "put", k)
    /\ UNCHANGED <<clock, object, ticket, file, draft, scheduled, audit, queue, cleaner, stale,
                   torn>>

Puts(w, k) ==
    /\ Writing(w, "put", k) /\ Becomes(w, "commit", k)
    /\ object'[k] = clock /\ OtherObjects(k)
    /\ UNCHANGED <<clock, ticket, file, draft, scheduled, fresh, audit, queue, cleaner, stale,
                   torn>>

Marks(w, u) ==
    /\ Writing(w, "commit", u) /\ Becomes(w, "idle", None)
    /\ ticket'[u].expires = ticket[u].expires /\ OtherTickets(u)
    /\ \/ ticket[u].status = "pending" /\ InTime(u) /\ ticket'[u].status = "uploaded"
       \/ ticket'[u].status = ticket[u].status
    /\ UNCHANGED <<clock, object, file, draft, scheduled, fresh, audit, queue, cleaner, stale,
                   torn>>

Creates(w, k) ==
    /\ Writing(w, "commit", k) /\ Becomes(w, "idle", None)
    /\ clock - object[k] < MinAge
    /\ file'[k] = "live" /\ OtherFiles(k)
    /\ UNCHANGED <<clock, object, ticket, draft, scheduled, fresh, audit, queue, cleaner,
                   stale, torn>>

\* A request ends without a reference; it may take back the bytes of a plain key.
Quits(w) ==
    /\ writer[w].at # "idle" /\ Becomes(w, "idle", None)
    /\ \A k \in Keys : object'[k] # object[k] =>
          object'[k] = Absent /\ k \in Plain /\ writer[w].key = k
    /\ UNCHANGED <<clock, ticket, file, draft, scheduled, fresh, audit, queue, cleaner, stale,
                   torn>>

Completes(u) ==
    /\ ticket[u].status = "uploaded" /\ (InTime(u) \/ Owned(u))
    /\ ticket'[u].status = "completed" /\ ticket'[u].expires = ticket[u].expires
    /\ OtherTickets(u)
    /\ file'[u] = "live" /\ OtherFiles(u)
    /\ torn' = IF Reading THEN torn \cup {u} ELSE torn
    /\ UNCHANGED <<clock, object, draft, scheduled, fresh, writer, audit, queue, cleaner, stale>>

Saves(u) ==
    /\ ticket[u].status = "uploaded"
    /\ draft' \subseteq draft \cup {u} /\ draft \subseteq draft'
    /\ scheduled' \subseteq scheduled \cup {u} /\ scheduled \subseteq scheduled'
    /\ torn' = IF Reading THEN torn \cup {u} ELSE torn
    /\ stale' = IF InTime(u) \/ Owned(u) THEN stale ELSE stale \cup {u}
    /\ UNCHANGED <<clock, object, ticket, file, fresh, writer, audit, queue, cleaner>>

\* A draft or a schedule lets go of files, or nothing of all this changes.
Drops ==
    /\ draft' \subseteq draft /\ scheduled' \subseteq scheduled
    /\ UNCHANGED <<clock, object, ticket, file, fresh, writer, audit, queue, cleaner, stale, torn>>

Tombstones(k) ==
    /\ file[k] = "live" /\ file'[k] = "deleted" /\ OtherFiles(k)
    /\ queue' = queue \cup {k}
    /\ UNCHANGED <<clock, object, ticket, draft, scheduled, fresh, writer, audit, cleaner,
                   stale, torn>>

Auditing ==
    UNCHANGED <<clock, object, ticket, file, draft, scheduled, fresh, writer, cleaner, stale, torn>>

Resets ==
    /\ audit'.at \in {"idle", "objects"} /\ audit'.cutoff \in {0, clock}
    /\ \A k \in Keys : audit'.seen[k] = Absent
    /\ audit'.refs = {} /\ audit'.todo = {} /\ audit'.missing = {}
    /\ Auditing /\ UNCHANGED queue

Walks ==
    /\ audit.at = "objects" /\ audit'.at = "files" /\ audit'.cutoff = audit.cutoff
    /\ audit'.seen = object /\ audit'.refs = audit.refs /\ audit'.missing = audit.missing
    /\ Auditing /\ UNCHANGED queue

FilesRead ==
    /\ audit.at = "files" /\ audit'.at = "drafts" /\ audit'.cutoff = audit.cutoff
    /\ audit'.seen = audit.seen /\ audit'.refs = {k \in Keys : file[k] = "live"}
    /\ audit'.missing = audit.missing
    /\ Auditing /\ UNCHANGED queue

DraftsRead ==
    /\ audit.at = "drafts" /\ audit'.at = "scheduled" /\ audit'.cutoff = audit.cutoff
    /\ audit'.seen = audit.seen /\ audit'.refs = audit.refs \cup Pending(draft)
    /\ audit'.missing = audit.missing
    /\ Auditing /\ UNCHANGED queue

ScheduledRead ==
    /\ audit.at = "scheduled" /\ audit'.at = "confirm" /\ audit'.cutoff = audit.cutoff
    /\ \A k \in Keys : audit'.seen[k] = Absent
    /\ audit'.refs = {} /\ audit'.missing \subseteq audit.refs \cup Pending(scheduled)
    /\ \A k \in audit'.todo : /\ k \in Keys /\ k \notin audit.refs /\ k \notin Pending(scheduled)
                              /\ OldEnough(k)
    /\ Auditing /\ UNCHANGED queue

Confirms ==
    /\ audit.at = "confirm" /\ audit'.at = "enqueue" /\ audit'.cutoff = audit.cutoff
    /\ audit'.seen = audit.seen /\ audit'.refs = audit.refs /\ audit'.todo = audit.todo
    /\ audit'.missing = {k \in audit.missing : object[k] = Absent}
    /\ Auditing /\ UNCHANGED queue

Enqueues(k) ==
    /\ audit.at = "enqueue" /\ audit'.at = "enqueue" /\ audit'.cutoff = audit.cutoff
    /\ audit'.seen = audit.seen /\ audit'.refs = audit.refs /\ audit'.missing = audit.missing
    /\ k \in audit.todo /\ audit'.todo = audit.todo \ {k} /\ queue' = queue \cup {k}
    /\ Auditing

Cleaning(c, k) == cleaner[c].at = "delete" /\ cleaner[c].key = k

\* A cleaner deletes what it was about to, and takes its next work from the queue.
Cleans ==
    /\ queue' \subseteq queue
    /\ \A c \in Cleaners, k \in Keys : Cleaning(c, k)' => Cleaning(c, k) \/ k \in queue
    /\ \A c \in Cleaners : cleaner'[c].at = "delete" => cleaner'[c].key \in Keys
    /\ \A k \in Keys : object'[k] # object[k] =>
          object'[k] = Absent /\ \E c \in Cleaners : Cleaning(c, k)
    /\ UNCHANGED <<clock, ticket, file, draft, scheduled, fresh, writer, audit, stale, torn>>

Kind ==
    \/ Ticks \/ Drops \/ Cleans
    \/ \E u \in Uploads : Issues(u) \/ Completes(u) \/ Saves(u)
    \/ \E w \in Writers : \/ Quits(w)
                          \/ \E k \in Keys : StartsPut(w, k) \/ Puts(w, k)
                          \/ \E u \in Uploads : Marks(w, u)
                          \/ \E k \in Plain : Creates(w, k)
    \/ \E k \in Keys : Tombstones(k) \/ Enqueues(k)
    \/ Resets \/ Walks \/ FilesRead \/ DraftsRead \/ ScheduledRead \/ Confirms

\* The constants, as the proofs use them.
LEMMA Constants ==
    /\ Window \in Nat /\ MinAge \in Nat /\ MinAge >= Window /\ MaxTime \in Nat
    /\ MaxFaults \in Nat
    /\ Window > 0
    /\ None \notin Keys /\ None \notin Cleaners /\ \A k \in Plain : k \in Keys /\ k \notin Uploads
    /\ \A u \in Uploads : u \in Keys /\ u \notin Plain
    /\ \A k \in Keys : k \notin Plain => k \in Uploads
    /\ Absent = -1
BY BlobAssumption DEF Keys, Absent

Tickets == [status : {None, "pending", "uploaded", "completed"}, expires : 0..(MaxTime + Window)]
WriterRecords == [at : {"idle", "put", "commit"}, key : Keys \cup {None}]
CleanerRecords == [at : {"idle", "delete", "ack"}, key : Keys \cup {None}]
Audits == [at : {"idle", "objects", "files", "drafts", "scheduled", "confirm", "enqueue"},
           cutoff : Times, seen : [Keys -> Times \cup {Absent}],
           refs : SUBSET Keys, todo : SUBSET Keys, missing : SUBSET Keys]

\* Typing, record by record.
LEMMA Typed ==
    ASSUME TypeOK
    PROVE  /\ clock \in Nat /\ clock \in Times /\ object \in [Keys -> Times \cup {Absent}]
           /\ ticket \in [Uploads -> Tickets] /\ writer \in [Writers -> WriterRecords]
           /\ cleaner \in [Cleaners -> CleanerRecords] /\ audit \in Audits
           /\ file \in [Keys -> {None, "live", "deleted"}]
           /\ draft \subseteq Uploads /\ scheduled \subseteq Uploads
           /\ stale \subseteq Uploads /\ torn \subseteq Uploads
BY Constants DEF TypeOK, Tickets, WriterRecords, CleanerRecords, Audits, Times

LEMMA CreateExternalUploadKind ==
    ASSUME TypeOK, NEW u \in Uploads, CreateExternalUpload(u)
    PROVE  Issues(u) /\ ticket' \in [Uploads -> Tickets]
<1> DEFINE t == [status |-> "pending", expires |-> clock + Window]
<1>1. clock + Window \in 0..(MaxTime + Window)
  BY Typed, Constants DEF Times
<1>2. t \in Tickets /\ t.status = "pending" /\ t.expires = clock + Window
  BY <1>1 DEF Tickets
<1>3. ticket' = [ticket EXCEPT ![u] = t]
  BY DEF CreateExternalUpload
<1> HIDE DEF t
<1>4. ticket'[u] = t /\ OtherTickets(u) /\ ticket' \in [Uploads -> Tickets]
  BY <1>2, <1>3, Typed DEF OtherTickets
<1> QED BY <1>2, <1>4 DEF CreateExternalUpload, Issues, gc

LEMMA StartPutKind ==
    ASSUME TypeOK, NEW w \in Writers, NEW k \in Keys, StartPut(w, k)
    PROVE  StartsPut(w, k) /\ writer' \in [Writers -> WriterRecords]
<1> DEFINE r == [at |-> "put", key |-> k]
<1>1. r \in WriterRecords /\ r.at = "put" /\ r.key = k
  BY DEF WriterRecords
<1>2. writer' = [writer EXCEPT ![w] = r]
  BY DEF StartPut
<1> HIDE DEF r
<1>3. Becomes(w, "put", k) /\ writer' \in [Writers -> WriterRecords]
  BY <1>1, <1>2, Typed DEF Becomes
<1> QED BY <1>3 DEF StartPut, StartsPut, gc, refs

\* A request that ends.
LEMMA IdleKind ==
    ASSUME TypeOK, NEW w \in Writers, Idle(w)
    PROVE  Becomes(w, "idle", None) /\ writer' \in [Writers -> WriterRecords]
<1> DEFINE r == [at |-> "idle", key |-> None]
<1>1. r \in WriterRecords /\ r.at = "idle" /\ r.key = None
  BY DEF WriterRecords
<1>2. writer' = [writer EXCEPT ![w] = r]
  BY DEF Idle
<1> HIDE DEF r
<1> QED BY <1>1, <1>2, Typed DEF Becomes

LEMMA PutKind ==
    ASSUME TypeOK, ShapeInv, NEW w \in Writers, Put(w)
    PROVE  /\ writer[w].key \in Keys /\ Puts(w, writer[w].key)
           /\ writer' \in [Writers -> WriterRecords]
           /\ object' \in [Keys -> Times \cup {Absent}]
<1>1. writer[w].at = "put" /\ writer[w].key \in Keys /\ writer[w] \in WriterRecords
  BY Typed DEF Put, ShapeInv
<1> DEFINE r == [writer[w] EXCEPT !.at = "commit"]
<1>2. r \in WriterRecords /\ r.at = "commit" /\ r.key = writer[w].key
  BY <1>1 DEF WriterRecords
<1>3. writer' = [writer EXCEPT ![w] = r]
  BY DEF Put
<1> HIDE DEF r
<1>4. Becomes(w, "commit", writer[w].key) /\ writer' \in [Writers -> WriterRecords]
  BY <1>2, <1>3, Typed DEF Becomes
<1>5. object' = [object EXCEPT ![writer[w].key] = clock]
  BY DEF Put
<1>6. object'[writer[w].key] = clock /\ OtherObjects(writer[w].key)
      /\ object' \in [Keys -> Times \cup {Absent}]
  BY <1>1, <1>5, Typed DEF OtherObjects
<1> QED BY <1>1, <1>4, <1>6 DEF Put, Puts, Writing, refs, gc

LEMMA MarkUploadedKind ==
    ASSUME TypeOK, NEW w \in Writers, MarkUploaded(w)
    PROVE  /\ writer[w].key \in Uploads /\ Marks(w, writer[w].key)
           /\ writer' \in [Writers -> WriterRecords]
           /\ ticket' \in [Uploads -> Tickets]
<1> DEFINE u == writer[w].key
<1>1. writer[w].at = "commit" /\ u \in Uploads
  BY DEF MarkUploaded
<1>2. Becomes(w, "idle", None) /\ writer' \in [Writers -> WriterRecords]
  BY IdleKind DEF MarkUploaded
<1>3. UNCHANGED <<clock, object, file, draft, scheduled, fresh, audit, queue, cleaner, stale, torn>>
  BY DEF MarkUploaded, gc
<1>4. CASE ticket[u].status = "pending" /\ InTime(u)
  <2> DEFINE t == [ticket[u] EXCEPT !.status = "uploaded"]
  <2>1. ticket[u] \in Tickets
    BY <1>1, Typed
  <2>2. t \in Tickets /\ t.status = "uploaded" /\ t.expires = ticket[u].expires
    BY <2>1 DEF Tickets
  <2>3. ticket' = [ticket EXCEPT ![u] = t]
    BY <1>4 DEF MarkUploaded
  <2> HIDE DEF t
  <2>4. ticket'[u] = t /\ OtherTickets(u) /\ ticket' \in [Uploads -> Tickets]
    BY <1>1, <2>2, <2>3, Typed DEF OtherTickets
  <2> QED BY <1>1, <1>2, <1>3, <1>4, <2>2, <2>4 DEF Marks, Writing
<1>5. CASE ~(ticket[u].status = "pending" /\ InTime(u))
  <2>1. UNCHANGED ticket
    BY <1>5 DEF MarkUploaded
  <2> QED BY <1>1, <1>2, <1>3, <2>1, Typed DEF Marks, Writing, OtherTickets
<1> QED BY <1>4, <1>5

LEMMA CreateFileKind ==
    ASSUME TypeOK, NEW w \in Writers, CreateFile(w)
    PROVE  /\ writer[w].key \in Plain /\ Creates(w, writer[w].key)
           /\ writer' \in [Writers -> WriterRecords]
           /\ file' \in [Keys -> {None, "live", "deleted"}]
<1>1. writer[w].at = "commit" /\ writer[w].key \in Plain /\ writer[w].key \in Keys
      /\ clock - object[writer[w].key] < MinAge
  BY Constants DEF CreateFile
<1>2. Becomes(w, "idle", None) /\ writer' \in [Writers -> WriterRecords]
  BY IdleKind DEF CreateFile
<1>3. file' = [file EXCEPT ![writer[w].key] = "live"]
  BY DEF CreateFile
<1>4. /\ file'[writer[w].key] = "live" /\ OtherFiles(writer[w].key)
      /\ file' \in [Keys -> {None, "live", "deleted"}]
  BY <1>1, <1>3, Typed DEF OtherFiles
<1> QED BY <1>1, <1>2, <1>4 DEF CreateFile, Creates, Writing, gc

LEMMA RefuseFileKind ==
    ASSUME TypeOK, NEW w \in Writers, RefuseFile(w)
    PROVE  /\ Quits(w) /\ writer' \in [Writers -> WriterRecords]
           /\ object' \in [Keys -> Times \cup {Absent}]
<1>1. writer[w].at = "commit" /\ writer[w].key \in Plain /\ writer[w].key \in Keys
  BY Constants DEF RefuseFile
<1>2. Becomes(w, "idle", None) /\ writer' \in [Writers -> WriterRecords]
  BY IdleKind DEF RefuseFile
<1>3. object' = [object EXCEPT ![writer[w].key] = Absent]
  BY DEF RefuseFile
<1>4. /\ \A k \in Keys : object'[k] # object[k] => object'[k] = Absent /\ k \in Plain
          /\ writer[w].key = k
      /\ object' \in [Keys -> Times \cup {Absent}]
  BY <1>1, <1>3, Typed
<1> QED BY <1>1, <1>2, <1>4 DEF RefuseFile, Quits, refs, gc

LEMMA WriterDiesKind ==
    ASSUME TypeOK, NEW w \in Writers, WriterDies(w)
    PROVE  Quits(w) /\ writer' \in [Writers -> WriterRecords]
<1>1. Becomes(w, "idle", None) /\ writer' \in [Writers -> WriterRecords]
  BY IdleKind DEF WriterDies
<1> QED BY <1>1 DEF WriterDies, Quits, refs, gc

LEMMA CompleteKind ==
    ASSUME TypeOK, NEW u \in Uploads, CompleteExternalUpload(u)
    PROVE  /\ Completes(u) /\ ticket' \in [Uploads -> Tickets]
           /\ file' \in [Keys -> {None, "live", "deleted"}]
<1> DEFINE t == [ticket[u] EXCEPT !.status = "completed"]
<1>1. ticket[u] \in Tickets /\ u \in Keys
  BY Typed, Constants
<1>2. t \in Tickets /\ t.status = "completed" /\ t.expires = ticket[u].expires
  BY <1>1 DEF Tickets
<1>3. ticket' = [ticket EXCEPT ![u] = t] /\ file' = [file EXCEPT ![u] = "live"]
  BY DEF CompleteExternalUpload
<1> HIDE DEF t
<1>4. ticket'[u] = t /\ OtherTickets(u) /\ ticket' \in [Uploads -> Tickets]
  BY <1>2, <1>3, Typed DEF OtherTickets
<1>5. file'[u] = "live" /\ OtherFiles(u) /\ file' \in [Keys -> {None, "live", "deleted"}]
  BY <1>1, <1>3, Typed DEF OtherFiles
<1> QED BY <1>2, <1>4, <1>5 DEF CompleteExternalUpload, Completes, Moved, gc

LEMMA SaveKind ==
    ASSUME TypeOK, NEW u \in Uploads, SaveAttachment(u)
    PROVE  Saves(u) \/ Drops
<1>1. CASE ticket[u].status = "uploaded"
  BY <1>1 DEF SaveAttachment, Saves, Moved, gc
<1>2. CASE ticket[u].status # "uploaded"
  BY <1>2 DEF SaveAttachment, Drops, gc
<1> QED BY <1>1, <1>2

LEMMA DropKind ==
    ASSUME NEW u \in Uploads, NEW h, CheckAttachment(u, h) \/ DropDraft(u) \/ DropScheduled(u)
    PROVE  Drops
BY DEF CheckAttachment, DropDraft, DropScheduled, Drops, gc

LEMMA DeleteFileKind ==
    ASSUME TypeOK, NEW k \in Keys, DeleteFile(k)
    PROVE  Tombstones(k) /\ file' \in [Keys -> {None, "live", "deleted"}]
<1>1. file' = [file EXCEPT ![k] = "deleted"]
  BY DEF DeleteFile
<1>2. file'[k] = "deleted" /\ OtherFiles(k) /\ file' \in [Keys -> {None, "live", "deleted"}]
  BY <1>1, Typed DEF OtherFiles
<1> QED BY <1>2 DEF DeleteFile, Tombstones

\* The audit starts, ends or dies.
LEMMA ResetKind ==
    ASSUME TypeOK, AuditStart \/ AuditEnd \/ AuditDies
    PROVE  Resets /\ audit' \in Audits
<1>1. IdleAudit \in Audits
  BY Constants DEF IdleAudit, Audits, Times
<1>2. /\ IdleAudit.at = "idle" /\ IdleAudit.cutoff = 0
          /\ \A k \in Keys : IdleAudit.seen[k] = Absent
      /\ IdleAudit.refs = {} /\ IdleAudit.todo = {} /\ IdleAudit.missing = {}
  BY DEF IdleAudit
<1>3. Auditing /\ UNCHANGED queue
  BY DEF AuditStart, AuditEnd, AuditDies, Auditing, refs, gc
<1>4. CASE audit' = IdleAudit
  BY <1>1, <1>2, <1>3, <1>4 DEF Resets
<1>5. CASE AuditStart
  <2> DEFINE a == [IdleAudit EXCEPT !.at = "objects", !.cutoff = clock]
  <2>1. clock \in Times
    BY Typed
  <2>2. /\ a \in Audits /\ a.at = "objects" /\ a.cutoff = clock /\ a.seen = IdleAudit.seen
        /\ a.refs = IdleAudit.refs /\ a.todo = IdleAudit.todo /\ a.missing = IdleAudit.missing
    BY <1>1, <2>1 DEF Audits
  <2>3. audit' = a
    BY <1>5 DEF AuditStart
  <2> HIDE DEF a
  <2> QED BY <1>2, <1>3, <2>2, <2>3 DEF Resets
<1> QED BY <1>4, <1>5 DEF AuditEnd, AuditDies

LEMMA WalkKind ==
    ASSUME TypeOK, WalkObjects
    PROVE  Walks /\ audit' \in Audits
<1> DEFINE a == [audit EXCEPT !.at = "files", !.seen = object]
<1>1. audit \in Audits /\ object \in [Keys -> Times \cup {Absent}]
  BY Typed
<1>2. /\ a \in Audits /\ a.at = "files" /\ a.cutoff = audit.cutoff /\ a.seen = object
      /\ a.refs = audit.refs /\ a.missing = audit.missing
  BY <1>1 DEF Audits
<1>3. audit' = a
  BY DEF WalkObjects
<1> HIDE DEF a
<1> QED BY <1>2, <1>3 DEF WalkObjects, Walks, Auditing, refs, gc

LEMMA ReadFilesKind ==
    ASSUME TypeOK, ReadFiles
    PROVE  FilesRead /\ audit' \in Audits
<1> DEFINE L == {k \in Keys : file[k] = "live"}
           a == [audit EXCEPT !.at = "drafts", !.refs = L]
<1>1. audit \in Audits /\ L \in SUBSET Keys
  BY Typed
<1>2. /\ a \in Audits /\ a.at = "drafts" /\ a.cutoff = audit.cutoff /\ a.seen = audit.seen
      /\ a.refs = L /\ a.missing = audit.missing
  <2> HIDE DEF L
  <2> QED BY <1>1 DEF Audits
<1>3. audit' = a
  BY DEF ReadFiles
<1> HIDE DEF a
<1> QED BY <1>2, <1>3 DEF ReadFiles, FilesRead, Auditing, refs, gc

LEMMA ReadDraftsKind ==
    ASSUME TypeOK, ReadDrafts
    PROVE  DraftsRead /\ audit' \in Audits
<1> DEFINE L == audit.refs \cup Pending(draft)
           a == [audit EXCEPT !.at = "scheduled", !.refs = L]
<1>1. audit \in Audits /\ L \in SUBSET Keys
  BY Typed, Constants DEF Audits, Pending, TypeOK
<1>2. /\ a \in Audits /\ a.at = "scheduled" /\ a.cutoff = audit.cutoff /\ a.seen = audit.seen
      /\ a.refs = L /\ a.missing = audit.missing
  <2> HIDE DEF L
  <2> QED BY <1>1 DEF Audits
<1>3. audit' = a
  BY DEF ReadDrafts
<1> HIDE DEF a
<1> QED BY <1>2, <1>3 DEF ReadDrafts, DraftsRead, Auditing, refs, gc

LEMMA ReadScheduledKind ==
    ASSUME TypeOK, ReadScheduled
    PROVE  ScheduledRead /\ audit' \in Audits
<1> DEFINE all == audit.refs \cup Pending(scheduled)
           T == {k \in Keys \ all : OldEnough(k)}
           M == {k \in all : audit.seen[k] = Absent}
           N == IdleAudit.seen
           a == [audit EXCEPT !.at = "confirm", !.refs = {}, !.seen = N, !.todo = T, !.missing = M]
<1>1. audit \in Audits /\ all \in SUBSET Keys
  BY Typed, Constants DEF Audits, Pending, TypeOK
<1>2. T \in SUBSET Keys /\ M \in SUBSET Keys /\ M \subseteq all
      /\ N \in [Keys -> Times \cup {Absent}] /\ \A k \in Keys : N[k] = Absent
  BY <1>1 DEF IdleAudit
<1>3. \A k \in T : k \in Keys /\ k \notin audit.refs /\ k \notin Pending(scheduled)
      /\ OldEnough(k)
  OBVIOUS
<1>4. audit' = a
  BY DEF ReadScheduled
<1>5. M \subseteq audit.refs \cup Pending(scheduled)
  OBVIOUS
<1> HIDE DEF T, M, N, all
<1>6. /\ a \in Audits /\ a.at = "confirm" /\ a.cutoff = audit.cutoff /\ a.seen = N
      /\ a.refs = {} /\ a.todo = T /\ a.missing = M
  BY <1>1, <1>2 DEF Audits
<1> HIDE DEF a
<1> QED BY <1>2, <1>3, <1>4, <1>5, <1>6 DEF ReadScheduled, ScheduledRead, Auditing, refs, gc

LEMMA ConfirmKind ==
    ASSUME TypeOK, ConfirmMissing
    PROVE  Confirms /\ audit' \in Audits
<1> DEFINE M == {k \in audit.missing : object[k] = Absent}
           a == [audit EXCEPT !.at = "enqueue", !.missing = M]
<1>1. audit \in Audits /\ M \in SUBSET Keys
  BY Typed DEF Audits
<1>2. audit' = a
  BY DEF ConfirmMissing
<1>3. /\ a \in Audits /\ a.at = "enqueue" /\ a.cutoff = audit.cutoff /\ a.seen = audit.seen
      /\ a.refs = audit.refs /\ a.todo = audit.todo /\ a.missing = M
  <2> HIDE DEF M
  <2> QED BY <1>1 DEF Audits
<1> HIDE DEF a
<1> QED BY <1>2, <1>3 DEF ConfirmMissing, Confirms, Auditing, refs, gc

LEMMA EnqueueKind ==
    ASSUME TypeOK, NEW k \in Keys, EnqueueOrphan(k)
    PROVE  Enqueues(k) /\ audit' \in Audits
<1> DEFINE T == audit.todo \ {k}
           a == [audit EXCEPT !.todo = T]
<1>1. audit \in Audits /\ T \in SUBSET Keys
  BY Typed DEF Audits
<1>2. audit' = a
  BY DEF EnqueueOrphan
<1>3. /\ a \in Audits /\ a.at = audit.at /\ a.cutoff = audit.cutoff /\ a.seen = audit.seen
      /\ a.refs = audit.refs /\ a.todo = T /\ a.missing = audit.missing
  <2> HIDE DEF T
  <2> QED BY <1>1 DEF Audits
<1> HIDE DEF a
<1> QED BY <1>2, <1>3 DEF EnqueueOrphan, Enqueues, Auditing, refs

\* What a cleaner's record becomes.
LEMMA CleanerBecomes ==
    ASSUME TypeOK, NEW c \in Cleaners, NEW r \in CleanerRecords,
           cleaner' = [cleaner EXCEPT ![c] = r]
    PROVE  /\ cleaner' \in [Cleaners -> CleanerRecords] /\ cleaner'[c] = r
           /\ \A d \in Cleaners : d # c => cleaner'[d] = cleaner[d]
BY Typed

LEMMA FinishKind ==
    ASSUME TypeOK, NEW c \in Cleaners, Finish(c)
    PROVE  /\ cleaner' \in [Cleaners -> CleanerRecords] /\ cleaner'[c].at = "idle"
           /\ \A d \in Cleaners : d # c => cleaner'[d] = cleaner[d]
<1> DEFINE r == [at |-> "idle", key |-> None]
<1>1. r \in CleanerRecords /\ r.at = "idle"
  BY DEF CleanerRecords
<1>2. cleaner' = [cleaner EXCEPT ![c] = r]
  BY DEF Finish
<1> HIDE DEF r
<1> QED BY <1>1, <1>2, CleanerBecomes

LEMMA UnleaseTyped ==
    ASSUME TypeOK, NEW c \in Cleaners, Unlease(c)
    PROVE  lease' \in [Keys -> Cleaners \cup {None}]
BY DEF TypeOK, Unlease

LEMMA ClaimKind ==
    ASSUME TypeOK, ShapeInv, NEW c \in Cleaners, NEW k \in Keys, Claim(c, k)
    PROVE  Cleans /\ cleaner' \in [Cleaners -> CleanerRecords]
<1> DEFINE r == [at |-> "delete", key |-> k]
<1>1. r \in CleanerRecords /\ r.key = k
  BY DEF CleanerRecords
<1>2. cleaner' = [cleaner EXCEPT ![c] = r] /\ k \in queue
  BY DEF Claim
<1> HIDE DEF r
<1>3. /\ cleaner' \in [Cleaners -> CleanerRecords] /\ cleaner'[c] = r
      /\ \A d \in Cleaners : d # c => cleaner'[d] = cleaner[d]
  BY <1>1, <1>2, CleanerBecomes
<1>4. \A d \in Cleaners, j \in Keys : Cleaning(d, j)' => Cleaning(d, j) \/ j \in queue
  BY <1>1, <1>2, <1>3 DEF Cleaning
<1>5. \A d \in Cleaners : cleaner'[d].at = "delete" => cleaner'[d].key \in Keys
  BY <1>1, <1>3 DEF ShapeInv
<1> QED BY <1>3, <1>4, <1>5 DEF Claim, Cleans, refs

\* A worker that stops, or goes on to acknowledge, deletes nothing from then on.
LEMMA DeleteKind ==
    ASSUME TypeOK, ShapeInv, NEW c \in Cleaners, Delete(c)
    PROVE  /\ Cleans /\ cleaner' \in [Cleaners -> CleanerRecords]
           /\ object' \in [Keys -> Times \cup {Absent}]
<1>1. cleaner[c].at = "delete" /\ cleaner[c].key \in Keys /\ cleaner[c] \in CleanerRecords
  BY Typed DEF Delete, ShapeInv
<1>2. object' = [object EXCEPT ![cleaner[c].key] = Absent]
  BY DEF Delete
<1>3. /\ object' \in [Keys -> Times \cup {Absent}]
      /\ \A k \in Keys : object'[k] # object[k] => object'[k] = Absent /\ Cleaning(c, k)
  BY <1>1, <1>2, Typed DEF Cleaning
<1>4. /\ cleaner' \in [Cleaners -> CleanerRecords] /\ cleaner'[c].at # "delete"
      /\ \A d \in Cleaners : d # c => cleaner'[d] = cleaner[d]
  <2>1. CASE Finish(c)
    BY <2>1, FinishKind
  <2>2. CASE Working(c, "ack")
    <3> DEFINE r == [cleaner[c] EXCEPT !.at = "ack"]
    <3>1. r \in CleanerRecords /\ r.at = "ack"
      BY <1>1 DEF CleanerRecords
    <3>2. cleaner' = [cleaner EXCEPT ![c] = r]
      BY <2>2 DEF Working
    <3> HIDE DEF r
    <3> QED BY <3>1, <3>2, CleanerBecomes
  <2> QED BY <2>1, <2>2 DEF Delete
<1>5. \A d \in Cleaners, j \in Keys : Cleaning(d, j)' => Cleaning(d, j) \/ j \in queue
  BY <1>4 DEF Cleaning
<1>6. \A d \in Cleaners : cleaner'[d].at = "delete" => cleaner'[d].key \in Keys
  BY <1>4 DEF ShapeInv
<1> QED BY <1>3, <1>4, <1>5, <1>6 DEF Delete, Cleans, refs

LEMMA StopKind ==
    ASSUME TypeOK, ShapeInv, NEW c \in Cleaners, NEW died \in BOOLEAN,
           DeleteFails(c) \/ Ack(c) \/ LeaseLapses(c, died)
    PROVE  /\ Cleans /\ cleaner' \in [Cleaners -> CleanerRecords]
           /\ lease' \in [Keys -> Cleaners \cup {None}]
<1>1. \/ Finish(c)
      \/ UNCHANGED cleaner
  BY DEF DeleteFails, Ack, LeaseLapses
<1>2. /\ cleaner' \in [Cleaners -> CleanerRecords]
      /\ \A d \in Cleaners : cleaner'[d].at # "delete" \/ cleaner'[d] = cleaner[d]
  BY <1>1, FinishKind, Typed
<1>3. \A d \in Cleaners, j \in Keys : Cleaning(d, j)' => Cleaning(d, j) \/ j \in queue
  BY <1>2 DEF Cleaning
<1>4. \A d \in Cleaners : cleaner'[d].at = "delete" => cleaner'[d].key \in Keys
  BY <1>2 DEF ShapeInv
<1>5. lease' \in [Keys -> Cleaners \cup {None}]
  BY UnleaseTyped DEF DeleteFails, Ack, LeaseLapses
<1> QED BY <1>2, <1>3, <1>4, <1>5 DEF DeleteFails, Ack, LeaseLapses, Cleans, refs

\* Every step is of one of the kinds.
LEMMA StepKind ==
    ASSUME TypeOK, ShapeInv, Next
    PROVE  Kind
<1>1. CASE Tick
  BY <1>1 DEF Tick, Ticks, Kind, refs, gc
<1>2. ASSUME NEW w \in Writers, Upload(w) PROVE Kind
  <2>1. CASE \E k \in Keys : StartPut(w, k)
    BY <2>1, StartPutKind DEF Kind
  <2>2. CASE Put(w)
    BY <2>2, PutKind DEF Kind
  <2>3. CASE MarkUploaded(w)
    BY <2>3, MarkUploadedKind DEF Kind
  <2>4. CASE CreateFile(w)
    BY <2>4, CreateFileKind DEF Kind
  <2>5. CASE RefuseFile(w) \/ WriterDies(w)
    BY <2>5, RefuseFileKind, WriterDiesKind DEF Kind
  <2> QED BY <1>2, <2>1, <2>2, <2>3, <2>4, <2>5 DEF Upload
<1>3. ASSUME NEW u \in Uploads, Reference(u) PROVE Kind
  BY <1>3, CreateExternalUploadKind, CompleteKind, SaveKind, DropKind DEF Reference, Kind
<1>4. ASSUME NEW k \in Keys, DeleteFile(k) PROVE Kind
  BY <1>4, DeleteFileKind DEF Kind
<1>5. CASE Audit \/ AuditDies
  BY <1>5, ResetKind, WalkKind, ReadFilesKind, ReadDraftsKind, ReadScheduledKind, ConfirmKind,
     EnqueueKind DEF Audit, Kind
<1>6. ASSUME NEW c \in Cleaners,
             Clean(c) \/ DeleteFails(c) \/ \E died \in BOOLEAN : LeaseLapses(c, died)
      PROVE  Kind
  <2>1. CASE \E k \in Keys : Claim(c, k)
    BY <2>1, ClaimKind DEF Kind
  <2>2. CASE Delete(c)
    BY <2>2, DeleteKind DEF Kind
  <2>3. CASE DeleteFails(c) \/ Ack(c) \/ \E died \in BOOLEAN : LeaseLapses(c, died)
    BY <2>3, StopKind DEF Kind
  <2> QED BY <1>6, <2>1, <2>2, <2>3 DEF Clean
<1> QED BY <1>1, <1>2, <1>3, <1>4, <1>5, <1>6 DEF Next

-----------------------------------------------------------------------------
(* Typing.                                                                 *)

LEMMA FaultTyped == ASSUME TypeOK, Fault PROVE faults' \in 0..MaxFaults
BY Constants DEF TypeOK, Fault

LEMMA BeginTyped == ASSUME TypeOK, NEW k, Begin(k) PROVE faults' \in 0..MaxFaults
BY FaultTyped DEF Begin, TypeOK

LEMMA TypeStep ==
    ASSUME TypeOK, ShapeInv, Next
    PROVE  TypeOK'
<1> USE DEF TypeOK, Tickets, WriterRecords, CleanerRecords, Audits, refs, gc
<1>1. CASE Tick
  BY <1>1, Constants DEF Tick, Times
<1>2. ASSUME NEW w \in Writers, Upload(w) PROVE TypeOK'
  <2>1. ASSUME NEW k \in Keys, StartPut(w, k) PROVE TypeOK'
    BY <2>1, StartPutKind, BeginTyped DEF StartPut
  <2>2. CASE Put(w)
    BY <2>2, PutKind DEF Put
  <2>3. CASE MarkUploaded(w)
    BY <2>3, MarkUploadedKind DEF MarkUploaded
  <2>4. CASE CreateFile(w)
    BY <2>4, CreateFileKind DEF CreateFile
  <2>5. CASE RefuseFile(w)
    BY <2>5, RefuseFileKind, FaultTyped DEF RefuseFile
  <2>6. CASE WriterDies(w)
    BY <2>6, WriterDiesKind, FaultTyped DEF WriterDies
  <2> QED BY <1>2, <2>1, <2>2, <2>3, <2>4, <2>5, <2>6 DEF Upload
<1>3. ASSUME NEW u \in Uploads, Reference(u) PROVE TypeOK'
  <2>1. CASE CreateExternalUpload(u)
    BY <2>1, CreateExternalUploadKind, BeginTyped DEF CreateExternalUpload
  <2>2. CASE CompleteExternalUpload(u)
    BY <2>2, CompleteKind DEF CompleteExternalUpload, Moved
  <2>3. ASSUME NEW h \in {"draft", "scheduled"}, CheckAttachment(u, h) PROVE TypeOK'
    BY <2>3 DEF CheckAttachment
  <2>4. CASE SaveAttachment(u)
    <3>1. CASE ticket[u].status = "uploaded"
      BY <2>4, <3>1 DEF SaveAttachment, Moved
    <3>2. CASE ticket[u].status # "uploaded"
      BY <2>4, <3>2 DEF SaveAttachment
    <3> QED BY <3>1, <3>2
  <2>5. CASE DropDraft(u) \/ DropScheduled(u)
    BY <2>5 DEF DropDraft, DropScheduled
  <2> QED BY <1>3, <2>1, <2>2, <2>3, <2>4, <2>5 DEF Reference
<1>4. ASSUME NEW k \in Keys, DeleteFile(k) PROVE TypeOK'
  BY <1>4, DeleteFileKind DEF DeleteFile
<1>5. CASE Audit \/ AuditDies
  <2>1. CASE AuditStart \/ AuditEnd
    BY <2>1, ResetKind DEF AuditStart, AuditEnd
  <2>2. CASE AuditDies
    BY <2>2, ResetKind, FaultTyped DEF AuditDies
  <2>3. CASE WalkObjects
    BY <2>3, WalkKind DEF WalkObjects
  <2>4. CASE ReadFiles
    BY <2>4, ReadFilesKind DEF ReadFiles
  <2>5. CASE ReadDrafts
    BY <2>5, ReadDraftsKind DEF ReadDrafts
  <2>6. CASE ReadScheduled
    BY <2>6, ReadScheduledKind DEF ReadScheduled
  <2>7. CASE ConfirmMissing
    BY <2>7, ConfirmKind DEF ConfirmMissing
  <2>8. ASSUME NEW k \in Keys, EnqueueOrphan(k) PROVE TypeOK'
    BY <2>8, EnqueueKind DEF EnqueueOrphan
  <2> QED BY <1>5, <2>1, <2>2, <2>3, <2>4, <2>5, <2>6, <2>7, <2>8 DEF Audit
<1>6. ASSUME NEW c \in Cleaners, Clean(c) \/ DeleteFails(c)
             \/ \E died \in BOOLEAN : LeaseLapses(c, died)
      PROVE  TypeOK'
  <2>1. ASSUME NEW k \in Keys, Claim(c, k) PROVE TypeOK'
    BY <2>1, ClaimKind DEF Claim
  <2>2. CASE Delete(c)
    BY <2>2, DeleteKind DEF Delete
  <2>3. CASE DeleteFails(c)
    BY <2>3, StopKind, FaultTyped DEF DeleteFails
  <2>4. CASE Ack(c)
    BY <2>4, StopKind DEF Ack
  <2>5. ASSUME NEW died \in BOOLEAN, LeaseLapses(c, died) PROVE TypeOK'
    BY <2>5, StopKind, FaultTyped DEF LeaseLapses
  <2> QED BY <1>6, <2>1, <2>2, <2>3, <2>4, <2>5 DEF Clean
<1> QED BY <1>1, <1>2, <1>3, <1>4, <1>5, <1>6 DEF Next

-----------------------------------------------------------------------------
(* Every kind of step keeps every part of the invariant.                   *)

\* Keys of workers.
LEMMA ShapeStep ==
    ASSUME TypeOK, ShapeInv, Next
    PROVE  ShapeInv'
<1> USE DEF Writing
<1>1. CASE Ticks
  BY <1>1, Typed, Constants DEF Ticks, ShapeInv
<1>2. CASE Drops
  BY <1>2, Typed, Constants DEF Drops, ShapeInv
<1>3. CASE Cleans
  BY <1>3, Typed, Constants DEF Cleans, Cleaning, ShapeInv
<1>4. ASSUME NEW u \in Uploads, Issues(u) PROVE ShapeInv'
  BY <1>4, Typed, Constants DEF Issues, OtherTickets, ShapeInv
<1>5. ASSUME NEW u \in Uploads, Completes(u) PROVE ShapeInv'
  BY <1>5, Typed, Constants DEF Completes, OtherTickets, OtherFiles, ShapeInv
<1>6. ASSUME NEW u \in Uploads, Saves(u) PROVE ShapeInv'
  BY <1>6, Typed, Constants DEF Saves, ShapeInv
<1>7. ASSUME NEW w \in Writers, Quits(w) PROVE ShapeInv'
  BY <1>7, Typed, Constants DEF Quits, Becomes, ShapeInv
<1>8. ASSUME NEW w \in Writers, NEW k \in Keys, StartsPut(w, k) PROVE ShapeInv'
  BY <1>8, Typed, Constants DEF StartsPut, Becomes, ShapeInv
<1>9. ASSUME NEW w \in Writers, NEW k \in Keys, Puts(w, k) PROVE ShapeInv'
  BY <1>9, Typed, Constants DEF Puts, Becomes, OtherObjects, ShapeInv
<1>10. ASSUME NEW w \in Writers, NEW u \in Uploads, Marks(w, u) PROVE ShapeInv'
  BY <1>10, Typed, Constants DEF Marks, Becomes, OtherTickets, ShapeInv
<1>11. ASSUME NEW w \in Writers, NEW k \in Plain, Creates(w, k) PROVE ShapeInv'
  BY <1>11, Typed, Constants DEF Creates, Becomes, OtherFiles, ShapeInv
<1>12. ASSUME NEW k \in Keys, Tombstones(k) PROVE ShapeInv'
  BY <1>12, Typed, Constants DEF Tombstones, OtherFiles, ShapeInv
<1>13. ASSUME NEW k \in Keys, Enqueues(k) PROVE ShapeInv'
  BY <1>13, Typed, Constants DEF Enqueues, Auditing, ShapeInv
<1>14. CASE Resets
  BY <1>14, Typed, Constants DEF Resets, Auditing, ShapeInv
<1>15. CASE Walks
  BY <1>15, Typed, Constants DEF Walks, Auditing, ShapeInv
<1>16. CASE FilesRead
  BY <1>16, Typed, Constants DEF FilesRead, Auditing, ShapeInv
<1>17. CASE DraftsRead
  BY <1>17, Typed, Constants DEF DraftsRead, Auditing, ShapeInv
<1>18. CASE ScheduledRead
  BY <1>18, Typed, Constants DEF ScheduledRead, Auditing, ShapeInv
<1>19. CASE Confirms
  BY <1>19, Typed, Constants DEF Confirms, Auditing, ShapeInv
<1> QED
  BY <1>1, <1>2, <1>3, <1>4, <1>5, <1>6, <1>7, <1>8, <1>9, <1>10,
     <1>11, <1>12, <1>13, <1>14, <1>15, <1>16, <1>17, <1>18, <1>19, StepKind DEF Kind

\* Direct uploads.
LEMMA PlainStep ==
    ASSUME TypeOK, ShapeInv, PlainInv, DoomInv, Next
    PROVE  PlainInv'
<1> USE DEF Writing
<1>1. CASE Ticks
  BY <1>1, Typed, Constants DEF Ticks, PlainInv, ShapeInv, Tickets, WriterRecords, Times, None
<1>2. CASE Drops
  BY <1>2, Typed, Constants DEF Drops, PlainInv, ShapeInv, Tickets, WriterRecords, Times, None
<1>3. CASE Cleans
  BY <1>3, Typed, Constants DEF Cleans, Cleaning, PlainInv, ShapeInv, Tickets, WriterRecords,
     Times, None, DoomInv, Doomed, Gone, Excused, TypeOK
<1>4. ASSUME NEW u \in Uploads, Issues(u) PROVE PlainInv'
  BY <1>4, Typed, Constants DEF Issues, OtherTickets, PlainInv, ShapeInv, Tickets, WriterRecords,
     Times, None
<1>5. ASSUME NEW u \in Uploads, Completes(u) PROVE PlainInv'
  BY <1>5, Typed, Constants DEF Completes, OtherTickets, OtherFiles, PlainInv, ShapeInv, Tickets,
     WriterRecords, Times, None
<1>6. ASSUME NEW u \in Uploads, Saves(u) PROVE PlainInv'
  BY <1>6, Typed, Constants DEF Saves, PlainInv, ShapeInv, Tickets, WriterRecords, Times, None
<1>7. ASSUME NEW w \in Writers, Quits(w) PROVE PlainInv'
  <2>1. /\ \A v \in Writers : v # w => writer'[v] = writer[v]
        /\ \A j \in Plain : writer'[w].key # j
    BY <1>7, Constants DEF Quits, Becomes
  <2>2. UNCHANGED <<clock, file, fresh>>
    BY <1>7 DEF Quits
  <2>3. \A j \in Plain : object'[j] = object[j] \/ (object'[j] = Absent /\ writer[w].key = j)
    BY <1>7, Constants DEF Quits
  <2> QED BY <2>1, <2>2, <2>3 DEF PlainInv
<1>8. ASSUME NEW w \in Writers, NEW k \in Keys, StartsPut(w, k) PROVE PlainInv'
  <2>1. /\ writer'[w].at = "put" /\ writer'[w].key = k /\ \A v \in Writers : v # w
            => writer'[v] = writer[v]
        /\ fresh' = fresh \ {k} /\ UNCHANGED <<clock, object, file>>
    BY <1>8 DEF StartsPut, Becomes
  <2>2. k \in Plain => k \in fresh
    BY <1>8, Constants DEF StartsPut
  <2>3. ASSUME NEW j \in Plain, j # k
        PROVE  \A v \in Writers : writer'[v].key = j => v # w /\ writer'[v] = writer[v]
    BY <2>1, <2>3
  <2>4. CASE k \in Plain
    <3>1. object[k] = Absent /\ file[k] = None /\ \A v \in Writers : writer[v].key # k
      BY <2>2, <2>4 DEF PlainInv
    <3> QED BY <2>1, <2>3, <3>1 DEF PlainInv
  <2>5. CASE k \notin Plain
    BY <2>1, <2>3, <2>5 DEF PlainInv
  <2> QED BY <2>4, <2>5
<1>9. ASSUME NEW w \in Writers, NEW k \in Keys, Puts(w, k) PROVE PlainInv'
  BY <1>9, Typed, Constants DEF Puts, Becomes, OtherObjects, PlainInv, ShapeInv, Tickets,
     WriterRecords, Times, None
<1>10. ASSUME NEW w \in Writers, NEW u \in Uploads, Marks(w, u) PROVE PlainInv'
  <2>1. /\ \A v \in Writers : v # w => writer'[v] = writer[v]
        /\ \A j \in Plain : writer'[w].key # j
    BY <1>10, Constants DEF Marks, Becomes
  <2>2. UNCHANGED <<clock, file, fresh>>
    BY <1>10 DEF Marks
  <2>3. \A j \in Plain : object'[j] = object[j] \/ (object'[j] = Absent /\ writer[w].key = j)
    BY <1>10, Constants DEF Marks
  <2> QED BY <2>1, <2>2, <2>3 DEF PlainInv
<1>11. ASSUME NEW w \in Writers, NEW k \in Plain, Creates(w, k) PROVE PlainInv'
  BY <1>11, Typed, Constants, SMTT(30) DEF Creates, Becomes, OtherFiles, PlainInv, ShapeInv,
     Tickets, WriterRecords, Times, None
<1>12. ASSUME NEW k \in Keys, Tombstones(k) PROVE PlainInv'
  BY <1>12, Typed, Constants DEF Tombstones, OtherFiles, PlainInv, ShapeInv, Tickets,
     WriterRecords, Times, None
<1>13. ASSUME NEW k \in Keys, Enqueues(k) PROVE PlainInv'
  BY <1>13, Typed, Constants DEF Enqueues, Auditing, PlainInv, ShapeInv, Tickets, WriterRecords,
     Times, None
<1>14. CASE Resets
  BY <1>14, Typed, Constants DEF Resets, Auditing, PlainInv, ShapeInv, Tickets, WriterRecords,
     Times, None
<1>15. CASE Walks
  BY <1>15, Typed, Constants DEF Walks, Auditing, PlainInv, ShapeInv, Tickets, WriterRecords,
     Times, None
<1>16. CASE FilesRead
  BY <1>16, Typed, Constants DEF FilesRead, Auditing, PlainInv, ShapeInv, Tickets, WriterRecords,
     Times, None
<1>17. CASE DraftsRead
  BY <1>17, Typed, Constants DEF DraftsRead, Auditing, PlainInv, ShapeInv, Tickets, WriterRecords,
     Times, None
<1>18. CASE ScheduledRead
  BY <1>18, Typed, Constants DEF ScheduledRead, Auditing, PlainInv, ShapeInv, Tickets,
     WriterRecords, Times, None
<1>19. CASE Confirms
  BY <1>19, Typed, Constants DEF Confirms, Auditing, PlainInv, ShapeInv, Tickets, WriterRecords,
     Times, None
<1> QED
  BY <1>1, <1>2, <1>3, <1>4, <1>5, <1>6, <1>7, <1>8, <1>9, <1>10,
     <1>11, <1>12, <1>13, <1>14, <1>15, <1>16, <1>17, <1>18, <1>19, StepKind DEF Kind

\* External uploads.
LEMMA UploadStep ==
    ASSUME TypeOK, ShapeInv, UploadInv, DoomInv, Next
    PROVE  UploadInv'
<1> USE DEF Writing
<1>1. CASE Ticks
  BY <1>1, Typed, Constants DEF Ticks, UploadInv, ShapeInv, Owned, InTime, Excused, Tickets,
     WriterRecords, Times, None
<1>2. CASE Drops
  BY <1>2, Typed, Constants DEF Drops, UploadInv, ShapeInv, Owned, InTime, Excused, Tickets,
     WriterRecords, Times, None
<1>3. CASE Cleans
  BY <1>3, Typed, Constants DEF Cleans, Cleaning, UploadInv, ShapeInv, Owned, InTime, Excused,
     Tickets, WriterRecords, Times, None, DoomInv, Doomed, Gone
<1>4. ASSUME NEW u \in Uploads, Issues(u) PROVE UploadInv'
  BY <1>4, Typed, Constants DEF Issues, OtherTickets, UploadInv, ShapeInv, Owned, InTime, Excused,
     Tickets, WriterRecords, Times, None
<1>5. ASSUME NEW u \in Uploads, Completes(u) PROVE UploadInv'
  BY <1>5, Typed, Constants DEF Completes, OtherTickets, OtherFiles, UploadInv, ShapeInv, Owned,
     InTime, Excused, Tickets, WriterRecords, Times, None
<1>6. ASSUME NEW u \in Uploads, Saves(u) PROVE UploadInv'
  BY <1>6, Typed, Constants DEF Saves, UploadInv, ShapeInv, Owned, InTime, Excused, Tickets,
     WriterRecords, Times, None
<1>7. ASSUME NEW w \in Writers, Quits(w) PROVE UploadInv'
  BY <1>7, Typed, Constants DEF Quits, Becomes, UploadInv, ShapeInv, Owned, InTime, Excused,
     Tickets, WriterRecords, Times, None
<1>8. ASSUME NEW w \in Writers, NEW k \in Keys, StartsPut(w, k) PROVE UploadInv'
  BY <1>8, Typed, Constants DEF StartsPut, Becomes, UploadInv, ShapeInv, Owned, InTime, Excused,
     Tickets, WriterRecords, Times, None
<1>9. ASSUME NEW w \in Writers, NEW k \in Keys, Puts(w, k) PROVE UploadInv'
  BY <1>9, Typed, Constants DEF Puts, Becomes, OtherObjects, UploadInv, ShapeInv, Owned, InTime,
     Excused, Tickets, WriterRecords, Times, None
<1>10. ASSUME NEW w \in Writers, NEW u \in Uploads, Marks(w, u) PROVE UploadInv'
  BY <1>10, Typed, Constants, SMTT(30) DEF Marks, Becomes, OtherTickets, UploadInv, ShapeInv,
     Owned, InTime, Excused, Tickets, WriterRecords, Times, None
<1>11. ASSUME NEW w \in Writers, NEW k \in Plain, Creates(w, k) PROVE UploadInv'
  BY <1>11, Typed, Constants DEF Creates, Becomes, OtherFiles, UploadInv, ShapeInv, Owned, InTime,
     Excused, Tickets, WriterRecords, Times, None
<1>12. ASSUME NEW k \in Keys, Tombstones(k) PROVE UploadInv'
  BY <1>12, Typed, Constants DEF Tombstones, OtherFiles, UploadInv, ShapeInv, Owned, InTime,
     Excused, Tickets, WriterRecords, Times, None
<1>13. ASSUME NEW k \in Keys, Enqueues(k) PROVE UploadInv'
  BY <1>13, Typed, Constants DEF Enqueues, Auditing, UploadInv, ShapeInv, Owned, InTime, Excused,
     Tickets, WriterRecords, Times, None
<1>14. CASE Resets
  BY <1>14, Typed, Constants DEF Resets, Auditing, UploadInv, ShapeInv, Owned, InTime, Excused,
     Tickets, WriterRecords, Times, None
<1>15. CASE Walks
  BY <1>15, Typed, Constants DEF Walks, Auditing, UploadInv, ShapeInv, Owned, InTime, Excused,
     Tickets, WriterRecords, Times, None
<1>16. CASE FilesRead
  BY <1>16, Typed, Constants DEF FilesRead, Auditing, UploadInv, ShapeInv, Owned, InTime, Excused,
     Tickets, WriterRecords, Times, None
<1>17. CASE DraftsRead
  BY <1>17, Typed, Constants DEF DraftsRead, Auditing, UploadInv, ShapeInv, Owned, InTime,
     Excused, Tickets, WriterRecords, Times, None
<1>18. CASE ScheduledRead
  BY <1>18, Typed, Constants DEF ScheduledRead, Auditing, UploadInv, ShapeInv, Owned, InTime,
     Excused, Tickets, WriterRecords, Times, None
<1>19. CASE Confirms
  BY <1>19, Typed, Constants DEF Confirms, Auditing, UploadInv, ShapeInv, Owned, InTime, Excused,
     Tickets, WriterRecords, Times, None
<1> QED
  BY <1>1, <1>2, <1>3, <1>4, <1>5, <1>6, <1>7, <1>8, <1>9, <1>10,
     <1>11, <1>12, <1>13, <1>14, <1>15, <1>16, <1>17, <1>18, <1>19, StepKind DEF Kind

\* What is gone stays gone, unless a stale save brings it back.
LEMMA GoneStep ==
    ASSUME TypeOK, ShapeInv, PlainInv, UploadInv, NEW k0 \in Keys, Gone(k0), ~Excused(k0)', Next
    PROVE  Gone(k0)'
<1> USE DEF Writing
<1>1. CASE Ticks
  BY <1>1, Typed, Constants DEF Ticks, PlainInv, UploadInv, Gone, Excused, Owned, InTime, Tickets,
     WriterRecords, Times, None
<1>2. CASE Drops
  BY <1>2, Typed, Constants DEF Drops, PlainInv, UploadInv, Gone, Excused, Owned, InTime, Tickets,
     WriterRecords, Times, None
<1>3. CASE Cleans
  BY <1>3, Typed, Constants DEF Cleans, Cleaning, PlainInv, UploadInv, Gone, Excused, Owned,
     InTime, Tickets, WriterRecords, Times, None
<1>4. ASSUME NEW u \in Uploads, Issues(u) PROVE Gone(k0)'
  BY <1>4, Typed, Constants DEF Issues, OtherTickets, PlainInv, UploadInv, Gone, Excused, Owned,
     InTime, Tickets, WriterRecords, Times, None
<1>5. ASSUME NEW u \in Uploads, Completes(u) PROVE Gone(k0)'
  BY <1>5, Typed, Constants DEF Completes, OtherTickets, OtherFiles, PlainInv, UploadInv, Gone,
     Excused, Owned, InTime, Tickets, WriterRecords, Times, None
<1>6. ASSUME NEW u \in Uploads, Saves(u) PROVE Gone(k0)'
  BY <1>6, Typed, Constants DEF Saves, PlainInv, UploadInv, Gone, Excused, Owned, InTime, Tickets,
     WriterRecords, Times, None
<1>7. ASSUME NEW w \in Writers, Quits(w) PROVE Gone(k0)'
  BY <1>7, Typed, Constants DEF Quits, Becomes, PlainInv, UploadInv, Gone, Excused, Owned, InTime,
     Tickets, WriterRecords, Times, None
<1>8. ASSUME NEW w \in Writers, NEW k \in Keys, StartsPut(w, k) PROVE Gone(k0)'
  BY <1>8, Typed, Constants DEF StartsPut, Becomes, PlainInv, UploadInv, Gone, Excused, Owned,
     InTime, Tickets, WriterRecords, Times, None
<1>9. ASSUME NEW w \in Writers, NEW k \in Keys, Puts(w, k) PROVE Gone(k0)'
  BY <1>9, Typed, Constants DEF Puts, Becomes, OtherObjects, PlainInv, UploadInv, Gone, Excused,
     Owned, InTime, Tickets, WriterRecords, Times, None
<1>10. ASSUME NEW w \in Writers, NEW u \in Uploads, Marks(w, u) PROVE Gone(k0)'
  BY <1>10, Typed, Constants DEF Marks, Becomes, OtherTickets, PlainInv, UploadInv, Gone, Excused,
     Owned, InTime, Tickets, WriterRecords, Times, None
<1>11. ASSUME NEW w \in Writers, NEW k \in Plain, Creates(w, k) PROVE Gone(k0)'
  BY <1>11, Typed, Constants DEF Creates, Becomes, OtherFiles, PlainInv, UploadInv, Gone, Excused,
     Owned, InTime, Tickets, WriterRecords, Times, None
<1>12. ASSUME NEW k \in Keys, Tombstones(k) PROVE Gone(k0)'
  BY <1>12, Typed, Constants DEF Tombstones, OtherFiles, PlainInv, UploadInv, Gone, Excused,
     Owned, InTime, Tickets, WriterRecords, Times, None
<1>13. ASSUME NEW k \in Keys, Enqueues(k) PROVE Gone(k0)'
  BY <1>13, Typed, Constants DEF Enqueues, Auditing, PlainInv, UploadInv, Gone, Excused, Owned,
     InTime, Tickets, WriterRecords, Times, None
<1>14. CASE Resets
  BY <1>14, Typed, Constants DEF Resets, Auditing, PlainInv, UploadInv, Gone, Excused, Owned,
     InTime, Tickets, WriterRecords, Times, None
<1>15. CASE Walks
  BY <1>15, Typed, Constants DEF Walks, Auditing, PlainInv, UploadInv, Gone, Excused, Owned,
     InTime, Tickets, WriterRecords, Times, None
<1>16. CASE FilesRead
  BY <1>16, Typed, Constants DEF FilesRead, Auditing, PlainInv, UploadInv, Gone, Excused, Owned,
     InTime, Tickets, WriterRecords, Times, None
<1>17. CASE DraftsRead
  BY <1>17, Typed, Constants DEF DraftsRead, Auditing, PlainInv, UploadInv, Gone, Excused, Owned,
     InTime, Tickets, WriterRecords, Times, None
<1>18. CASE ScheduledRead
  BY <1>18, Typed, Constants DEF ScheduledRead, Auditing, PlainInv, UploadInv, Gone, Excused,
     Owned, InTime, Tickets, WriterRecords, Times, None
<1>19. CASE Confirms
  BY <1>19, Typed, Constants DEF Confirms, Auditing, PlainInv, UploadInv, Gone, Excused, Owned,
     InTime, Tickets, WriterRecords, Times, None
<1> QED
  BY <1>1, <1>2, <1>3, <1>4, <1>5, <1>6, <1>7, <1>8, <1>9, <1>10,
     <1>11, <1>12, <1>13, <1>14, <1>15, <1>16, <1>17, <1>18, <1>19, StepKind DEF Kind

\* Referenced bytes.
LEMMA LiveStep ==
    ASSUME TypeOK, ShapeInv, PlainInv, UploadInv, DoomInv, \A k \in Keys : Live(k)
           => object[k] # Absent \/ Excused(k), Next
    PROVE  \A j \in Keys : Live(j)' => object'[j] # Absent \/ Excused(j)'
<1> USE DEF Writing
<1>1. CASE Ticks
  BY <1>1, Typed, Constants DEF Ticks, Live, Excused, PlainInv, UploadInv, Owned, InTime, Tickets,
     WriterRecords, Times, None
<1>2. CASE Drops
  BY <1>2, Typed, Constants DEF Drops, Live, Excused, PlainInv, UploadInv, Owned, InTime, Tickets,
     WriterRecords, Times, None
<1>3. CASE Cleans
  BY <1>3, Typed, Constants DEF Cleans, Cleaning, Live, Excused, PlainInv, UploadInv, Owned,
     InTime, Tickets, WriterRecords, Times, None, DoomInv, Doomed, Gone
<1>4. ASSUME NEW u \in Uploads, Issues(u)
      PROVE \A j \in Keys : Live(j)' => object'[j] # Absent \/ Excused(j)'
  BY <1>4, Typed, Constants DEF Issues, OtherTickets, Live, Excused, PlainInv, UploadInv, Owned,
     InTime, Tickets, WriterRecords, Times, None
<1>5. ASSUME NEW u \in Uploads, Completes(u)
      PROVE \A j \in Keys : Live(j)' => object'[j] # Absent \/ Excused(j)'
  BY <1>5, Typed, Constants DEF Completes, OtherTickets, OtherFiles, Live, Excused, PlainInv,
     UploadInv, Owned, InTime, Tickets, WriterRecords, Times, None
<1>6. ASSUME NEW u \in Uploads, Saves(u)
      PROVE \A j \in Keys : Live(j)' => object'[j] # Absent \/ Excused(j)'
  BY <1>6, Typed, Constants DEF Saves, Live, Excused, PlainInv, UploadInv, Owned, InTime, Tickets,
     WriterRecords, Times, None
<1>7. ASSUME NEW w \in Writers, Quits(w)
      PROVE \A j \in Keys : Live(j)' => object'[j] # Absent \/ Excused(j)'
  BY <1>7, Typed, Constants DEF Quits, Becomes, Live, Excused, PlainInv, UploadInv, Owned, InTime,
     Tickets, WriterRecords, Times, None
<1>8. ASSUME NEW w \in Writers, NEW k \in Keys, StartsPut(w, k)
      PROVE \A j \in Keys : Live(j)' => object'[j] # Absent \/ Excused(j)'
  BY <1>8, Typed, Constants DEF StartsPut, Becomes, Live, Excused, PlainInv, UploadInv, Owned,
     InTime, Tickets, WriterRecords, Times, None
<1>9. ASSUME NEW w \in Writers, NEW k \in Keys, Puts(w, k)
      PROVE \A j \in Keys : Live(j)' => object'[j] # Absent \/ Excused(j)'
  BY <1>9, Typed, Constants DEF Puts, Becomes, OtherObjects, Live, Excused, PlainInv, UploadInv,
     Owned, InTime, Tickets, WriterRecords, Times, None
<1>10. ASSUME NEW w \in Writers, NEW u \in Uploads, Marks(w, u)
       PROVE \A j \in Keys : Live(j)' => object'[j] # Absent \/ Excused(j)'
  BY <1>10, Typed, Constants DEF Marks, Becomes, OtherTickets, Live, Excused, PlainInv, UploadInv,
     Owned, InTime, Tickets, WriterRecords, Times, None
<1>11. ASSUME NEW w \in Writers, NEW k \in Plain, Creates(w, k)
       PROVE \A j \in Keys : Live(j)' => object'[j] # Absent \/ Excused(j)'
  BY <1>11, Typed, Constants DEF Creates, Becomes, OtherFiles, Live, Excused, PlainInv, UploadInv,
     Owned, InTime, Tickets, WriterRecords, Times, None
<1>12. ASSUME NEW k \in Keys, Tombstones(k)
       PROVE \A j \in Keys : Live(j)' => object'[j] # Absent \/ Excused(j)'
  BY <1>12, Typed, Constants DEF Tombstones, OtherFiles, Live, Excused, PlainInv, UploadInv,
     Owned, InTime, Tickets, WriterRecords, Times, None
<1>13. ASSUME NEW k \in Keys, Enqueues(k)
       PROVE \A j \in Keys : Live(j)' => object'[j] # Absent \/ Excused(j)'
  BY <1>13, Typed, Constants DEF Enqueues, Auditing, Live, Excused, PlainInv, UploadInv, Owned,
     InTime, Tickets, WriterRecords, Times, None
<1>14. CASE Resets
  BY <1>14, Typed, Constants DEF Resets, Auditing, Live, Excused, PlainInv, UploadInv, Owned,
     InTime, Tickets, WriterRecords, Times, None
<1>15. CASE Walks
  BY <1>15, Typed, Constants DEF Walks, Auditing, Live, Excused, PlainInv, UploadInv, Owned,
     InTime, Tickets, WriterRecords, Times, None
<1>16. CASE FilesRead
  BY <1>16, Typed, Constants DEF FilesRead, Auditing, Live, Excused, PlainInv, UploadInv, Owned,
     InTime, Tickets, WriterRecords, Times, None
<1>17. CASE DraftsRead
  BY <1>17, Typed, Constants DEF DraftsRead, Auditing, Live, Excused, PlainInv, UploadInv, Owned,
     InTime, Tickets, WriterRecords, Times, None
<1>18. CASE ScheduledRead
  BY <1>18, Typed, Constants DEF ScheduledRead, Auditing, Live, Excused, PlainInv, UploadInv,
     Owned, InTime, Tickets, WriterRecords, Times, None
<1>19. CASE Confirms
  BY <1>19, Typed, Constants DEF Confirms, Auditing, Live, Excused, PlainInv, UploadInv, Owned,
     InTime, Tickets, WriterRecords, Times, None
<1> QED
  BY <1>1, <1>2, <1>3, <1>4, <1>5, <1>6, <1>7, <1>8, <1>9, <1>10,
     <1>11, <1>12, <1>13, <1>14, <1>15, <1>16, <1>17, <1>18, <1>19, StepKind DEF Kind

\* What the audit saw.
LEMMA SeenStep ==
    ASSUME TypeOK, ShapeInv, PlainInv, UploadInv, SeenInv, Next
    PROVE  SeenInv'
<1> USE DEF Writing
<1>1. CASE Ticks
  BY <1>1, Typed, Constants DEF Ticks, SeenInv, PlainInv, UploadInv, Tickets, WriterRecords,
     Times, None, Audits
<1>2. CASE Drops
  BY <1>2, Typed, Constants DEF Drops, SeenInv, PlainInv, UploadInv, Tickets, WriterRecords,
     Times, None, Audits
<1>3. CASE Cleans
  BY <1>3, Typed, Constants DEF Cleans, Cleaning, SeenInv, PlainInv, UploadInv, Tickets,
     WriterRecords, Times, None, Audits
<1>4. ASSUME NEW u \in Uploads, Issues(u) PROVE SeenInv'
  BY <1>4, Typed, Constants DEF Issues, OtherTickets, SeenInv, PlainInv, UploadInv, Tickets,
     WriterRecords, Times, None, Audits
<1>5. ASSUME NEW u \in Uploads, Completes(u) PROVE SeenInv'
  BY <1>5, Typed, Constants DEF Completes, OtherTickets, OtherFiles, SeenInv, PlainInv, UploadInv,
     Tickets, WriterRecords, Times, None, Audits
<1>6. ASSUME NEW u \in Uploads, Saves(u) PROVE SeenInv'
  BY <1>6, Typed, Constants DEF Saves, SeenInv, PlainInv, UploadInv, Tickets, WriterRecords,
     Times, None, Audits
<1>7. ASSUME NEW w \in Writers, Quits(w) PROVE SeenInv'
  BY <1>7, Typed, Constants DEF Quits, Becomes, SeenInv, PlainInv, UploadInv, Tickets,
     WriterRecords, Times, None, Audits
<1>8. ASSUME NEW w \in Writers, NEW k \in Keys, StartsPut(w, k) PROVE SeenInv'
  BY <1>8, Typed, Constants DEF StartsPut, Becomes, SeenInv, PlainInv, UploadInv, Tickets,
     WriterRecords, Times, None, Audits
<1>9. ASSUME NEW w \in Writers, NEW k \in Keys, Puts(w, k) PROVE SeenInv'
  <2>1. UNCHANGED <<clock, ticket, fresh, audit>>
    BY <1>9 DEF Puts
  <2>2. \A j \in Keys : j # k => object'[j] = object[j]
    BY <1>9 DEF Puts, OtherObjects
  <2>3. k \in Plain => audit.seen[k] = Absent
    BY <1>9 DEF Puts, SeenInv
  <2>4. \A v \in Writers, j \in Keys : Writing(v, "put", j)' => Writing(v, "put", j)
    BY <1>9 DEF Puts, Becomes
  <2> QED BY <2>1, <2>2, <2>3, <2>4 DEF SeenInv
<1>10. ASSUME NEW w \in Writers, NEW u \in Uploads, Marks(w, u) PROVE SeenInv'
  <2>1. UNCHANGED <<clock, object, fresh, audit>>
    BY <1>10 DEF Marks
  <2>2. \A v \in Uploads : (ticket'[v].expires = ticket[v].expires)
                             /\ (ticket[v].status # None => ticket'[v].status # None)
    BY <1>10 DEF Marks, OtherTickets, None
  <2>3. \A v \in Writers, j \in Keys : Writing(v, "put", j)' => Writing(v, "put", j)
    BY <1>10 DEF Marks, Becomes
  <2>4. audit'.cutoff <= clock'
    BY <2>1 DEF SeenInv
  <2>5. ASSUME NEW j \in Plain, audit'.seen[j] # Absent
        PROVE  /\ j \notin fresh' /\ object'[j] \in {audit'.seen[j], Absent}
               /\ \A v \in Writers : ~Writing(v, "put", j)'
    BY <2>1, <2>3, <2>5, Constants DEF SeenInv
  <2>6. ASSUME NEW v \in Uploads, audit'.seen[v] # Absent
        PROVE  ticket'[v].status # None /\ ticket'[v].expires <= audit'.seen[v] + Window
    <3>1. v \in Keys /\ v \notin Plain /\ audit.seen[v] # Absent
      BY <2>1, <2>6, Constants
    <3>2. ticket[v].status # None /\ ticket[v].expires <= audit.seen[v] + Window
      BY <3>1 DEF SeenInv
    <3> QED BY <2>1, <2>2, <3>2
  <2> QED BY <2>4, <2>5, <2>6, Constants DEF SeenInv
<1>11. ASSUME NEW w \in Writers, NEW k \in Plain, Creates(w, k) PROVE SeenInv'
  <2>1. UNCHANGED <<clock, object, ticket, fresh, audit>>
    BY <1>11 DEF Creates
  <2>2. \A v \in Writers, j \in Keys : Writing(v, "put", j)' => Writing(v, "put", j)
    BY <1>11 DEF Creates, Becomes
  <2> QED BY <2>1, <2>2 DEF SeenInv
<1>12. ASSUME NEW k \in Keys, Tombstones(k) PROVE SeenInv'
  BY <1>12, Typed, Constants DEF Tombstones, OtherFiles, SeenInv, PlainInv, UploadInv, Tickets,
     WriterRecords, Times, None, Audits
<1>13. ASSUME NEW k \in Keys, Enqueues(k) PROVE SeenInv'
  BY <1>13, Typed, Constants DEF Enqueues, Auditing, SeenInv, PlainInv, UploadInv, Tickets,
     WriterRecords, Times, None, Audits
<1>14. CASE Resets
  BY <1>14, Typed, Constants DEF Resets, Auditing, SeenInv, PlainInv, UploadInv, Tickets,
     WriterRecords, Times, None, Audits
<1>15. CASE Walks
  BY <1>15, Typed, Constants DEF Walks, Auditing, SeenInv, PlainInv, UploadInv, Tickets,
     WriterRecords, Times, None, Audits
<1>16. CASE FilesRead
  BY <1>16, Typed, Constants DEF FilesRead, Auditing, SeenInv, PlainInv, UploadInv, Tickets,
     WriterRecords, Times, None, Audits
<1>17. CASE DraftsRead
  BY <1>17, Typed, Constants DEF DraftsRead, Auditing, SeenInv, PlainInv, UploadInv, Tickets,
     WriterRecords, Times, None, Audits
<1>18. CASE ScheduledRead
  BY <1>18, Typed, Constants DEF ScheduledRead, Auditing, SeenInv, PlainInv, UploadInv, Tickets,
     WriterRecords, Times, None, Audits
<1>19. CASE Confirms
  BY <1>19, Typed, Constants DEF Confirms, Auditing, SeenInv, PlainInv, UploadInv, Tickets,
     WriterRecords, Times, None, Audits
<1> QED
  BY <1>1, <1>2, <1>3, <1>4, <1>5, <1>6, <1>7, <1>8, <1>9, <1>10,
     <1>11, <1>12, <1>13, <1>14, <1>15, <1>16, <1>17, <1>18, <1>19, StepKind DEF Kind

\* What the queries did not find.
LEMMA ReadStep ==
    ASSUME TypeOK, ShapeInv, PlainInv, UploadInv, SeenInv, ReadInv, Next
    PROVE  ReadInv'
<1> USE DEF Writing
<1>1. CASE Ticks
  BY <1>1, Typed, Constants DEF Ticks, ReadInv, SeenInv, OldEnough, Reading, Excused, PlainInv,
     UploadInv, InTime, Owned, Pending, Tickets, WriterRecords, Times, None, Audits
<1>2. CASE Drops
  BY <1>2, Typed, Constants DEF Drops, ReadInv, SeenInv, OldEnough, Reading, Excused, PlainInv,
     UploadInv, InTime, Owned, Pending, Tickets, WriterRecords, Times, None, Audits
<1>3. CASE Cleans
  BY <1>3, Typed, Constants DEF Cleans, Cleaning, ReadInv, SeenInv, OldEnough, Reading, Excused,
     PlainInv, UploadInv, InTime, Owned, Pending, Tickets, WriterRecords, Times, None, Audits
<1>4. ASSUME NEW u \in Uploads, Issues(u) PROVE ReadInv'
  BY <1>4, Typed, Constants DEF Issues, OtherTickets, ReadInv, SeenInv, OldEnough, Reading,
     Excused, PlainInv, UploadInv, InTime, Owned, Pending, Tickets, WriterRecords, Times, None,
     Audits
<1>5. ASSUME NEW u \in Uploads, Completes(u) PROVE ReadInv'
  BY <1>5, Typed, Constants DEF Completes, OtherTickets, OtherFiles, ReadInv, SeenInv, OldEnough,
     Reading, Excused, PlainInv, UploadInv, InTime, Owned, Pending, Tickets, WriterRecords, Times,
     None, Audits
<1>6. ASSUME NEW u \in Uploads, Saves(u) PROVE ReadInv'
  BY <1>6, Typed, Constants DEF Saves, ReadInv, SeenInv, OldEnough, Reading, Excused, PlainInv,
     UploadInv, InTime, Owned, Pending, Tickets, WriterRecords, Times, None, Audits
<1>7. ASSUME NEW w \in Writers, Quits(w) PROVE ReadInv'
  BY <1>7, Typed, Constants DEF Quits, Becomes, ReadInv, SeenInv, OldEnough, Reading, Excused,
     PlainInv, UploadInv, InTime, Owned, Pending, Tickets, WriterRecords, Times, None, Audits
<1>8. ASSUME NEW w \in Writers, NEW k \in Keys, StartsPut(w, k) PROVE ReadInv'
  BY <1>8, Typed, Constants DEF StartsPut, Becomes, ReadInv, SeenInv, OldEnough, Reading, Excused,
     PlainInv, UploadInv, InTime, Owned, Pending, Tickets, WriterRecords, Times, None, Audits
<1>9. ASSUME NEW w \in Writers, NEW k \in Keys, Puts(w, k) PROVE ReadInv'
  BY <1>9, Typed, Constants DEF Puts, Becomes, OtherObjects, ReadInv, SeenInv, OldEnough, Reading,
     Excused, PlainInv, UploadInv, InTime, Owned, Pending, Tickets, WriterRecords, Times, None,
     Audits
<1>10. ASSUME NEW w \in Writers, NEW u \in Uploads, Marks(w, u) PROVE ReadInv'
  BY <1>10, Typed, Constants DEF Marks, Becomes, OtherTickets, ReadInv, SeenInv, OldEnough,
     Reading, Excused, PlainInv, UploadInv, InTime, Owned, Pending, Tickets, WriterRecords, Times,
     None, Audits
<1>11. ASSUME NEW w \in Writers, NEW k \in Plain, Creates(w, k) PROVE ReadInv'
  BY <1>11, Typed, Constants DEF Creates, Becomes, OtherFiles, ReadInv, SeenInv, OldEnough,
     Reading, Excused, PlainInv, UploadInv, InTime, Owned, Pending, Tickets, WriterRecords, Times,
     None, Audits
<1>12. ASSUME NEW k \in Keys, Tombstones(k) PROVE ReadInv'
  BY <1>12, Typed, Constants DEF Tombstones, OtherFiles, ReadInv, SeenInv, OldEnough, Reading,
     Excused, PlainInv, UploadInv, InTime, Owned, Pending, Tickets, WriterRecords, Times, None,
     Audits
<1>13. ASSUME NEW k \in Keys, Enqueues(k) PROVE ReadInv'
  BY <1>13, Typed, Constants DEF Enqueues, Auditing, ReadInv, SeenInv, OldEnough, Reading,
     Excused, PlainInv, UploadInv, InTime, Owned, Pending, Tickets, WriterRecords, Times, None,
     Audits
<1>14. CASE Resets
  BY <1>14, Typed, Constants DEF Resets, Auditing, ReadInv, SeenInv, OldEnough, Reading, Excused,
     PlainInv, UploadInv, InTime, Owned, Pending, Tickets, WriterRecords, Times, None, Audits
<1>15. CASE Walks
  BY <1>15, Typed, Constants DEF Walks, Auditing, ReadInv, SeenInv, OldEnough, Reading, Excused,
     PlainInv, UploadInv, InTime, Owned, Pending, Tickets, WriterRecords, Times, None, Audits
<1>16. CASE FilesRead
  BY <1>16, Typed, Constants DEF FilesRead, Auditing, ReadInv, SeenInv, OldEnough, Reading,
     Excused, PlainInv, UploadInv, InTime, Owned, Pending, Tickets, WriterRecords, Times, None,
     Audits
<1>17. CASE DraftsRead
  BY <1>17, Typed, Constants DEF DraftsRead, Auditing, ReadInv, SeenInv, OldEnough, Reading,
     Excused, PlainInv, UploadInv, InTime, Owned, Pending, Tickets, WriterRecords, Times, None,
     Audits
<1>18. CASE ScheduledRead
  BY <1>18, Typed, Constants DEF ScheduledRead, Auditing, ReadInv, SeenInv, OldEnough, Reading,
     Excused, PlainInv, UploadInv, InTime, Owned, Pending, Tickets, WriterRecords, Times, None,
     Audits
<1>19. CASE Confirms
  BY <1>19, Typed, Constants DEF Confirms, Auditing, ReadInv, SeenInv, OldEnough, Reading,
     Excused, PlainInv, UploadInv, InTime, Owned, Pending, Tickets, WriterRecords, Times, None,
     Audits
<1> QED
  BY <1>1, <1>2, <1>3, <1>4, <1>5, <1>6, <1>7, <1>8, <1>9, <1>10,
     <1>11, <1>12, <1>13, <1>14, <1>15, <1>16, <1>17, <1>18, <1>19, StepKind DEF Kind

\* Deletions to come.
LEMMA DoomStep ==
    ASSUME TypeOK, ShapeInv, PlainInv, UploadInv, SeenInv, ReadInv, DoomInv, Next
    PROVE  DoomInv'
<1> USE DEF Writing
<1>1. CASE Ticks
  BY <1>1, Typed, Constants, GoneStep DEF Ticks, DoomInv, Doomed, Excused, Cleaning, Tickets,
     WriterRecords, Times, None, Audits
<1>2. CASE Drops
  BY <1>2, Typed, Constants, GoneStep DEF Drops, DoomInv, Doomed, Excused, Cleaning, Tickets,
     WriterRecords, Times, None, Audits
<1>3. CASE Cleans
  BY <1>3, Typed, Constants, GoneStep DEF Cleans, Cleaning, DoomInv, Doomed, Excused, Cleaning,
     Tickets, WriterRecords, Times, None, Audits
<1>4. ASSUME NEW u \in Uploads, Issues(u) PROVE DoomInv'
  BY <1>4, Typed, Constants, GoneStep DEF Issues, OtherTickets, DoomInv, Doomed, Excused,
     Cleaning, Tickets, WriterRecords, Times, None, Audits
<1>5. ASSUME NEW u \in Uploads, Completes(u) PROVE DoomInv'
  BY <1>5, Typed, Constants, GoneStep DEF Completes, OtherTickets, OtherFiles, DoomInv, Doomed,
     Excused, Cleaning, Tickets, WriterRecords, Times, None, Audits
<1>6. ASSUME NEW u \in Uploads, Saves(u) PROVE DoomInv'
  BY <1>6, Typed, Constants, GoneStep DEF Saves, DoomInv, Doomed, Excused, Cleaning, Tickets,
     WriterRecords, Times, None, Audits
<1>7. ASSUME NEW w \in Writers, Quits(w) PROVE DoomInv'
  BY <1>7, Typed, Constants, GoneStep DEF Quits, Becomes, DoomInv, Doomed, Excused, Cleaning,
     Tickets, WriterRecords, Times, None, Audits
<1>8. ASSUME NEW w \in Writers, NEW k \in Keys, StartsPut(w, k) PROVE DoomInv'
  BY <1>8, Typed, Constants, GoneStep DEF StartsPut, Becomes, DoomInv, Doomed, Excused, Cleaning,
     Tickets, WriterRecords, Times, None, Audits
<1>9. ASSUME NEW w \in Writers, NEW k \in Keys, Puts(w, k) PROVE DoomInv'
  BY <1>9, Typed, Constants, GoneStep DEF Puts, Becomes, OtherObjects, DoomInv, Doomed, Excused,
     Cleaning, Tickets, WriterRecords, Times, None, Audits
<1>10. ASSUME NEW w \in Writers, NEW u \in Uploads, Marks(w, u) PROVE DoomInv'
  BY <1>10, Typed, Constants, GoneStep DEF Marks, Becomes, OtherTickets, DoomInv, Doomed, Excused,
     Cleaning, Tickets, WriterRecords, Times, None, Audits
<1>11. ASSUME NEW w \in Writers, NEW k \in Plain, Creates(w, k) PROVE DoomInv'
  BY <1>11, Typed, Constants, GoneStep DEF Creates, Becomes, OtherFiles, DoomInv, Doomed, Excused,
     Cleaning, Tickets, WriterRecords, Times, None, Audits
<1>12. ASSUME NEW k \in Keys, Tombstones(k) PROVE DoomInv'
  BY <1>12, Typed, Constants, GoneStep DEF Tombstones, OtherFiles, DoomInv, Doomed, Excused,
     Cleaning, Tickets, WriterRecords, Times, None, Audits, Gone
<1>13. ASSUME NEW k \in Keys, Enqueues(k) PROVE DoomInv'
  BY <1>13, Typed, Constants, GoneStep DEF Enqueues, Auditing, DoomInv, Doomed, Excused, Cleaning,
     Tickets, WriterRecords, Times, None, Audits
<1>14. CASE Resets
  BY <1>14, Typed, Constants, GoneStep DEF Resets, Auditing, DoomInv, Doomed, Excused, Cleaning,
     Tickets, WriterRecords, Times, None, Audits
<1>15. CASE Walks
  BY <1>15, Typed, Constants, GoneStep DEF Walks, Auditing, DoomInv, Doomed, Excused, Cleaning,
     Tickets, WriterRecords, Times, None, Audits
<1>16. CASE FilesRead
  BY <1>16, Typed, Constants, GoneStep DEF FilesRead, Auditing, DoomInv, Doomed, Excused,
     Cleaning, Tickets, WriterRecords, Times, None, Audits
<1>17. CASE DraftsRead
  BY <1>17, Typed, Constants, GoneStep DEF DraftsRead, Auditing, DoomInv, Doomed, Excused,
     Cleaning, Tickets, WriterRecords, Times, None, Audits
<1>18. CASE ScheduledRead
  BY <1>18, Typed, Constants, GoneStep DEF ScheduledRead, Auditing, DoomInv, Doomed, Excused,
     Cleaning, Tickets, WriterRecords, Times, None, Audits, Gone, ReadInv, SeenInv, UploadInv,
     PlainInv, Owned, InTime, OldEnough, Reading, Pending
<1>19. CASE Confirms
  BY <1>19, Typed, Constants, GoneStep DEF Confirms, Auditing, DoomInv, Doomed, Excused, Cleaning,
     Tickets, WriterRecords, Times, None, Audits
<1> QED
  BY <1>1, <1>2, <1>3, <1>4, <1>5, <1>6, <1>7, <1>8, <1>9, <1>10,
     <1>11, <1>12, <1>13, <1>14, <1>15, <1>16, <1>17, <1>18, <1>19, StepKind DEF Kind

\* What the queries found.
LEMMA FoundStep ==
    ASSUME TypeOK, ShapeInv, UploadInv, FoundInv, Next
    PROVE  FoundInv'
<1> USE DEF Writing
<1>1. CASE Ticks
  BY <1>1, Typed, Constants DEF Ticks, FoundInv, UploadInv, Pending, Tickets, WriterRecords,
     Times, None, Audits
<1>2. CASE Drops
  BY <1>2, Typed, Constants DEF Drops, FoundInv, UploadInv, Pending, Tickets, WriterRecords,
     Times, None, Audits
<1>3. CASE Cleans
  BY <1>3, Typed, Constants DEF Cleans, Cleaning, FoundInv, UploadInv, Pending, Tickets,
     WriterRecords, Times, None, Audits
<1>4. ASSUME NEW u \in Uploads, Issues(u) PROVE FoundInv'
  BY <1>4, Typed, Constants DEF Issues, OtherTickets, FoundInv, UploadInv, Pending, Tickets,
     WriterRecords, Times, None, Audits
<1>5. ASSUME NEW u \in Uploads, Completes(u) PROVE FoundInv'
  BY <1>5, Typed, Constants DEF Completes, OtherTickets, OtherFiles, FoundInv, UploadInv, Pending,
     Tickets, WriterRecords, Times, None, Audits
<1>6. ASSUME NEW u \in Uploads, Saves(u) PROVE FoundInv'
  BY <1>6, Typed, Constants DEF Saves, FoundInv, UploadInv, Pending, Tickets, WriterRecords,
     Times, None, Audits
<1>7. ASSUME NEW w \in Writers, Quits(w) PROVE FoundInv'
  BY <1>7, Typed, Constants DEF Quits, Becomes, FoundInv, UploadInv, Pending, Tickets,
     WriterRecords, Times, None, Audits
<1>8. ASSUME NEW w \in Writers, NEW k \in Keys, StartsPut(w, k) PROVE FoundInv'
  BY <1>8, Typed, Constants DEF StartsPut, Becomes, FoundInv, UploadInv, Pending, Tickets,
     WriterRecords, Times, None, Audits
<1>9. ASSUME NEW w \in Writers, NEW k \in Keys, Puts(w, k) PROVE FoundInv'
  BY <1>9, Typed, Constants DEF Puts, Becomes, OtherObjects, FoundInv, UploadInv, Pending,
     Tickets, WriterRecords, Times, None, Audits
<1>10. ASSUME NEW w \in Writers, NEW u \in Uploads, Marks(w, u) PROVE FoundInv'
  BY <1>10, Typed, Constants, SMTT(30) DEF Marks, Becomes, OtherTickets, FoundInv, UploadInv,
     Pending, Tickets, WriterRecords, Times, None, Audits
<1>11. ASSUME NEW w \in Writers, NEW k \in Plain, Creates(w, k) PROVE FoundInv'
  BY <1>11, Typed, Constants DEF Creates, Becomes, OtherFiles, FoundInv, UploadInv, Pending,
     Tickets, WriterRecords, Times, None, Audits
<1>12. ASSUME NEW k \in Keys, Tombstones(k) PROVE FoundInv'
  BY <1>12, Typed, Constants DEF Tombstones, OtherFiles, FoundInv, UploadInv, Pending, Tickets,
     WriterRecords, Times, None, Audits
<1>13. ASSUME NEW k \in Keys, Enqueues(k) PROVE FoundInv'
  BY <1>13, Typed, Constants DEF Enqueues, Auditing, FoundInv, UploadInv, Pending, Tickets,
     WriterRecords, Times, None, Audits
<1>14. CASE Resets
  BY <1>14, Typed, Constants DEF Resets, Auditing, FoundInv, UploadInv, Pending, Tickets,
     WriterRecords, Times, None, Audits
<1>15. CASE Walks
  BY <1>15, Typed, Constants DEF Walks, Auditing, FoundInv, UploadInv, Pending, Tickets,
     WriterRecords, Times, None, Audits
<1>16. CASE FilesRead
  BY <1>16, Typed, Constants DEF FilesRead, Auditing, FoundInv, UploadInv, Pending, Tickets,
     WriterRecords, Times, None, Audits
<1>17. CASE DraftsRead
  BY <1>17, Typed, Constants DEF DraftsRead, Auditing, FoundInv, UploadInv, Pending, Tickets,
     WriterRecords, Times, None, Audits
<1>18. CASE ScheduledRead
  BY <1>18, Typed, Constants DEF ScheduledRead, Auditing, FoundInv, UploadInv, Pending, Tickets,
     WriterRecords, Times, None, Audits
<1>19. CASE Confirms
  BY <1>19, Typed, Constants DEF Confirms, Auditing, FoundInv, UploadInv, Pending, Tickets,
     WriterRecords, Times, None, Audits
<1> QED
  BY <1>1, <1>2, <1>3, <1>4, <1>5, <1>6, <1>7, <1>8, <1>9, <1>10,
     <1>11, <1>12, <1>13, <1>14, <1>15, <1>16, <1>17, <1>18, <1>19, StepKind DEF Kind

\* What is reported missing.
LEMMA MissingStep ==
    ASSUME TypeOK, ShapeInv, PlainInv, UploadInv, FoundInv, MissingInv, \A k \in Keys : Live(k)
           => object[k] # Absent \/ Excused(k), Next
    PROVE  MissingInv'
<1> USE DEF Writing
<1>1. CASE Ticks
  BY <1>1, Typed, Constants, GoneStep DEF Ticks, MissingInv, FoundInv, PlainInv, Excused, Tickets,
     WriterRecords, Times, None, Audits
<1>2. CASE Drops
  BY <1>2, Typed, Constants, GoneStep DEF Drops, MissingInv, FoundInv, PlainInv, Excused, Tickets,
     WriterRecords, Times, None, Audits
<1>3. CASE Cleans
  BY <1>3, Typed, Constants, GoneStep DEF Cleans, Cleaning, MissingInv, FoundInv, PlainInv,
     Excused, Tickets, WriterRecords, Times, None, Audits
<1>4. ASSUME NEW u \in Uploads, Issues(u) PROVE MissingInv'
  BY <1>4, Typed, Constants, GoneStep DEF Issues, OtherTickets, MissingInv, FoundInv, PlainInv,
     Excused, Tickets, WriterRecords, Times, None, Audits
<1>5. ASSUME NEW u \in Uploads, Completes(u) PROVE MissingInv'
  BY <1>5, Typed, Constants, GoneStep DEF Completes, OtherTickets, OtherFiles, MissingInv,
     FoundInv, PlainInv, Excused, Tickets, WriterRecords, Times, None, Audits
<1>6. ASSUME NEW u \in Uploads, Saves(u) PROVE MissingInv'
  BY <1>6, Typed, Constants, GoneStep DEF Saves, MissingInv, FoundInv, PlainInv, Excused, Tickets,
     WriterRecords, Times, None, Audits
<1>7. ASSUME NEW w \in Writers, Quits(w) PROVE MissingInv'
  BY <1>7, Typed, Constants, GoneStep DEF Quits, Becomes, MissingInv, FoundInv, PlainInv, Excused,
     Tickets, WriterRecords, Times, None, Audits
<1>8. ASSUME NEW w \in Writers, NEW k \in Keys, StartsPut(w, k) PROVE MissingInv'
  BY <1>8, Typed, Constants, GoneStep DEF StartsPut, Becomes, MissingInv, FoundInv, PlainInv,
     Excused, Tickets, WriterRecords, Times, None, Audits
<1>9. ASSUME NEW w \in Writers, NEW k \in Keys, Puts(w, k) PROVE MissingInv'
  BY <1>9, Typed, Constants, GoneStep DEF Puts, Becomes, OtherObjects, MissingInv, FoundInv,
     PlainInv, Excused, Tickets, WriterRecords, Times, None, Audits
<1>10. ASSUME NEW w \in Writers, NEW u \in Uploads, Marks(w, u) PROVE MissingInv'
  BY <1>10, Typed, Constants, GoneStep DEF Marks, Becomes, OtherTickets, MissingInv, FoundInv,
     PlainInv, Excused, Tickets, WriterRecords, Times, None, Audits
<1>11. ASSUME NEW w \in Writers, NEW k \in Plain, Creates(w, k) PROVE MissingInv'
  BY <1>11, Typed, Constants, GoneStep DEF Creates, Becomes, OtherFiles, MissingInv, FoundInv,
     PlainInv, Excused, Tickets, WriterRecords, Times, None, Audits
<1>12. ASSUME NEW k \in Keys, Tombstones(k) PROVE MissingInv'
  BY <1>12, Typed, Constants, GoneStep DEF Tombstones, OtherFiles, MissingInv, FoundInv, PlainInv,
     Excused, Tickets, WriterRecords, Times, None, Audits
<1>13. ASSUME NEW k \in Keys, Enqueues(k) PROVE MissingInv'
  BY <1>13, Typed, Constants, GoneStep DEF Enqueues, Auditing, MissingInv, FoundInv, PlainInv,
     Excused, Tickets, WriterRecords, Times, None, Audits
<1>14. CASE Resets
  BY <1>14, Typed, Constants, GoneStep DEF Resets, Auditing, MissingInv, FoundInv, PlainInv,
     Excused, Tickets, WriterRecords, Times, None, Audits
<1>15. CASE Walks
  BY <1>15, Typed, Constants, GoneStep DEF Walks, Auditing, MissingInv, FoundInv, PlainInv,
     Excused, Tickets, WriterRecords, Times, None, Audits
<1>16. CASE FilesRead
  BY <1>16, Typed, Constants, GoneStep DEF FilesRead, Auditing, MissingInv, FoundInv, PlainInv,
     Excused, Tickets, WriterRecords, Times, None, Audits
<1>17. CASE DraftsRead
  BY <1>17, Typed, Constants, GoneStep DEF DraftsRead, Auditing, MissingInv, FoundInv, PlainInv,
     Excused, Tickets, WriterRecords, Times, None, Audits
<1>18. CASE ScheduledRead
  BY <1>18, Typed, Constants, GoneStep DEF ScheduledRead, Auditing, MissingInv, FoundInv,
     PlainInv, Excused, Tickets, WriterRecords, Times, None, Audits
<1>19. CASE Confirms
  BY <1>19, Typed, Constants, GoneStep DEF Confirms, Auditing, MissingInv, FoundInv, PlainInv,
     Excused, Tickets, WriterRecords, Times, None, Audits, Gone, Live, UploadInv, Owned, InTime
<1> QED
  BY <1>1, <1>2, <1>3, <1>4, <1>5, <1>6, <1>7, <1>8, <1>9, <1>10,
     <1>11, <1>12, <1>13, <1>14, <1>15, <1>16, <1>17, <1>18, <1>19, StepKind DEF Kind

-----------------------------------------------------------------------------
(* The invariant is inductive.                                             *)

LEMMA InvInit == Init => Inv
<1> SUFFICES ASSUME Init PROVE Inv OBVIOUS
<1>1. /\ IdleAudit \in Audits /\ IdleAudit.at = "idle" /\ IdleAudit.cutoff = 0
      /\ \A k \in Keys : IdleAudit.seen[k] = Absent
      /\ IdleAudit.refs = {} /\ IdleAudit.todo = {} /\ IdleAudit.missing = {}
  BY Constants DEF IdleAudit, Audits, Times
<1>2. audit = IdleAudit /\ clock = 0
  BY DEF Init
<1>3. \A u \in Uploads : ticket[u].status = None /\ ticket[u].expires = 0
  BY DEF Init
<1>4. \A w \in Writers : writer[w].at = "idle" /\ writer[w].key = None
  BY DEF Init
<1>5. \A c \in Cleaners : cleaner[c].at = "idle"
  BY DEF Init
<1>6. \A k \in Keys : object[k] = Absent /\ file[k] = None
  BY DEF Init
<1>7. draft = {} /\ scheduled = {} /\ queue = {} /\ stale = {} /\ torn = {} /\ fresh = Plain
  BY DEF Init
<1>8. TypeOK
  <2>1. audit \in Audits
    BY <1>1, <1>2
  <2>2. /\ ticket \in [Uploads -> Tickets] /\ writer \in [Writers -> WriterRecords]
        /\ cleaner \in [Cleaners -> CleanerRecords]
    BY Constants DEF Init, Tickets, WriterRecords, CleanerRecords
  <2> QED BY <2>1, <2>2, Constants DEF Init, TypeOK, Tickets, WriterRecords, CleanerRecords,
      Audits, Times
<1>9. LiveBytesKept
  BY <1>6, <1>7, <1>8 DEF LiveBytesKept, Live, None
<1>10. ShapeInv /\ PlainInv
  BY <1>4, <1>5, <1>6, <1>7, Constants DEF ShapeInv, PlainInv, Writing
<1>11. UploadInv
  BY <1>2, <1>3, <1>4, <1>6, <1>7, Constants DEF UploadInv, Owned, InTime, Writing, None
<1>12. SeenInv /\ ReadInv /\ FoundInv /\ MissingInv
  BY <1>1, <1>2 DEF SeenInv, ReadInv, OldEnough, FoundInv, MissingInv
<1>13. DoomInv
  BY <1>1, <1>2, <1>5, <1>7 DEF DoomInv, Doomed
<1> QED BY <1>9, <1>10, <1>11, <1>12, <1>13 DEF Inv

LEMMA InvStep == Inv /\ [Next]_vars => Inv'
<1> SUFFICES ASSUME Inv, [Next]_vars PROVE Inv' OBVIOUS
<1>1. TypeOK /\ \A k \in Keys : Live(k) => object[k] # Absent \/ Excused(k)
  BY DEF Inv, LiveBytesKept, Excused
<1>2. CASE Next
  <2>1. TypeOK' /\ ShapeInv' /\ PlainInv' /\ UploadInv'
    BY <1>1, <1>2, TypeStep, ShapeStep, PlainStep, UploadStep DEF Inv
  <2>2. \A k \in Keys : Live(k)' => object'[k] # Absent \/ Excused(k)'
    BY <1>1, <1>2, LiveStep DEF Inv
  <2>3. SeenInv' /\ ReadInv' /\ DoomInv'
    BY <1>1, <1>2, SeenStep, ReadStep, DoomStep DEF Inv
  <2>4. FoundInv' /\ MissingInv'
    BY <1>1, <1>2, FoundStep, MissingStep DEF Inv
  <2>5. LiveBytesKept'
    BY <2>1, <2>2 DEF LiveBytesKept, Excused
  <2> QED BY <2>1, <2>3, <2>4, <2>5 DEF Inv
<1>3. CASE UNCHANGED vars
  <2> USE DEF vars, refs, gc
  <2>1. LiveBytesKept'
    BY <1>3 DEF Inv, LiveBytesKept, TypeOK, Live
  <2>2. ShapeInv' /\ PlainInv'
    BY <1>3 DEF Inv, ShapeInv, PlainInv, Writing
  <2>3. UploadInv'
    BY <1>3 DEF Inv, UploadInv, Owned, InTime, Writing, Excused
  <2>4. SeenInv' /\ ReadInv' /\ FoundInv'
    BY <1>3 DEF Inv, SeenInv, ReadInv, FoundInv, OldEnough, Reading, Excused, Writing
  <2>5. DoomInv' /\ MissingInv'
    BY <1>3 DEF Inv, DoomInv, Doomed, MissingInv, Gone, Excused, Writing, InTime, Owned
  <2> QED BY <2>1, <2>2, <2>3, <2>4, <2>5 DEF Inv
<1> QED BY <1>2, <1>3

\* Nothing gone is referenced, so the bytes of a live key are there.
LEMMA InvMissing == Inv => MissingIsReal
<1> SUFFICES ASSUME Inv, audit.at = "enqueue", NEW k \in audit.missing
             PROVE  \/ file[k] = "deleted"
                    \/ object[k] = Absent /\ Live(k)
                    \/ k \in Uploads /\ (~Live(k) \/ k \in stale \cup torn)
  BY DEF MissingIsReal
<1>1. k \in Keys /\ TypeOK
  BY DEF Inv, LiveBytesKept, TypeOK
<1>2. CASE k \in Plain
  <2>1. object[k] = Absent /\ file[k] # None
    BY <1>2 DEF Inv, MissingInv, FoundInv
  <2> QED BY <1>1, <2>1, Typed DEF Live
<1>3. CASE k \in Uploads /\ ~Excused(k)
  <2>1. Gone(k)
    BY <1>3, Constants DEF Inv, MissingInv
  <2>2. file[k] = "deleted" \/ ~Live(k)
    BY <1>3, <2>1, Constants DEF Gone, Live, Owned, None
  <2> QED BY <1>3, <2>2
<1> QED BY <1>1, <1>2, <1>3, Constants DEF Excused

-----------------------------------------------------------------------------
(* The theorems.                                                           *)

\* No audit, cleanup worker or failed upload takes the bytes of a key the store
\* refers to, whatever runs beside it, as long as the grace period of blobgc is at
\* least the lifetime of an upload ticket (NewReconciler); the exceptions are a
\* reference that moved between two queries of one walk, and a save that was
\* checked while the upload was kept and committed when nothing kept it any more.
THEOREM ReferencedBytesStay == Spec => []LiveBytesKept
<1>1. Inv => LiveBytesKept
  BY DEF Inv
<1> QED BY <1>1, InvInit, InvStep, PTL DEF Spec

\* A key an audit reports missing had no bytes when confirmMissing asked again: it
\* is a reference without bytes, or the reference was withdrawn meanwhile.
THEOREM ReportedIsMissing == Spec => []MissingIsReal
BY InvInit, InvStep, InvMissing, PTL DEF Spec
=============================================================================

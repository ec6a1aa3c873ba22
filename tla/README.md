# Formal model of SameOldChat

TLA+ models of the parts of this repository whose correctness depends on the
order of events: scale to zero (the lifecycle controller, the coordinator, the
activator), the cold-request spool, the event outbox, timed messages and
reminders, uploaded bytes and their garbage collection, Socket Mode delivery,
collaborative canvas text and huddle rooms. TLC checks the models on small
instances; TLAPS proves their safety properties for every instance.

## The system and its hard parts

SameOldChat is a Slack-compatible chat server. `docs/architecture.md` splits it
into processes over one store; this is what each part keeps and does.

| Part | State | Operations | Interacts with | What is hard |
|---|---|---|---|---|
| Lifecycle controller, `internal/lifecycle/state.go`, `sqlite_state.go` | one durable record: state, fencing generation, wake deadline, snapshot authority, restore selection; a cached copy per process | fourteen fenced transitions, each a compare-and-swap | coordinator, activator | several processes with stale caches |
| Coordinator and snapshots, `coordinator.go`, `snapshot.go`, `file_snapshotter.go`, `directory_snapshotter.go` | artifacts, manifests, `current.json`, the active volume | wake, hibernate, restore, recover | controller, command driver | a crash between any two stages, commands that fail after their effect |
| Activator, `cmd/activator`, `internal/activator/handler.go` | the wake in progress, waiters, the drained flag | wake on request, scheduled wake, control endpoints, direct proxying | controller, coordinator, spool | SIGTERM, retries, refused writes |
| Request spool, `internal/activator/spool.go` | rows with owner, lease, quarantine | enqueue, claim, renew, delete, pending | handler, other replicas | concurrent drains, lapsing leases, replaced keys, capacity |
| Event outbox, `internal/outbox`, the outbox queries of `internal/store/sqlstore` | rows with owner, lease, retry time; a batch per worker | claim, deliver, renew, acknowledge, release | every service (writes events), deliveries | the renewal goroutine against the delivery loop, lost leases, partial batches |
| Scheduler, `internal/scheduler` | leased scheduled messages, reminders, statuses, triggers; the published deadline | claim, post, mark, release, publish the deadline | chat service, activator | a post that succeeds and is not marked |
| Blobs, `internal/blob`, `cmd/blobgc` | objects, references, delete events | put, delete, audit, enqueue orphans | outbox | uploads during an audit, references read in several queries |
| Socket Mode, `internal/socketmode` | connections, leased envelopes, retry counts | open, send, acknowledge, time out | outbox, apps | late acknowledgements, several connections of one app |
| Realtime, `internal/realtime` | stream cursors, typing, presence | page, send, resume | outbox | cursors and lost connections |
| Canvas text, `internal/crdt`, `internal/service/canvas_text.go`, the editor script of `internal/web` | characters with tombstones, held operations; an unsent queue per open page | type, send, merge, receive, fetch anew | outbox, store | any order of delivery, a resent batch, a fetch racing an edit |
| Huddle SFU, `internal/huddlesfu` | rooms, peers, tracks, the negotiation of each peer | join, publish, synchronize, offer, answer, leave, close | browsers, WebRTC callbacks | a change during a negotiation, a room closed while someone joins |
| Chat service, stores, APIs, web, auth, transports | database rows | request handlers | each other | mostly sequential; the stores' transactions |

`PROJECT.json` lists every part, modelled or not, and the hazards of the code
with the line where each one bites.

What makes the modelled parts correct:

* one process at a time owns a fencing generation, and a settled stack is
  disturbed only by taking a new one;
* no accepted write is lost by hibernating, waking, failing or recovering, unless
  an operator chose to restore an older snapshot;
* wakes, hibernations and deadlines are settled in the end;
* an accepted request or event is delivered at least once, repeated only when
  something went wrong around its delivery, and never dropped;
* a scheduled message or an occurrence of a reminder is posted once, never after
  it was called off, and what is due is dealt with in the end, unless it is
  refused for as long as anyone tries and with no failure code;
* bytes that something refers to are kept, bytes that nothing refers to go;
* an app is sent an envelope as often as promised, an acknowledgement counts
  once and is its own;
* editors of a canvas end with the same text, and nothing typed disappears;
* a huddle's participants are offered exactly the tracks of the others, and
  nothing of those who left stays.

## Modules

| Module | Models |
|---|---|
| `LifecycleRecord` | the durable record, the guard and the successor record of every transition of `Controller` |
| `Controller` | the transitions run by several processes over one store: caches, compare-and-swap, reload, the two statements of `BeginWake` |
| `DurableCopy` | abstract specification: the newest accepted version is held by the copy that the record names, until an operator overrides it |
| `Stack` | one activator process, the coordinator's stages, snapshots, the volume and the running stack, with crashes, SIGTERM, failing commands and a failing store |
| `RequestSpool` | replicas of the activator over one spool: `serveDurable`, `drainLoop`, `processSpool`, claims, leases, waiters, the drained flag |
| `Outbox` | outbox workers, each with its delivery loop and its renewal goroutine, over the leased rows |
| `Scheduler` | scheduled messages, channel reminders and the Web API's reminders: workers, leases, send now, reschedule, cancel, the idempotency key of a post |
| `BlobReconcile` | objects, tickets, files, drafts and scheduled messages that refer to them, the audit of `blobgc`, the cleanup workers |
| `SocketMode` | the connections of one app, their slots, the leased items, acknowledgements, retries |
| `TextSequence` | the replicated text: a pure data type with insert, delete, replace, apply and load |
| `CanvasText` | one canvas, its stored text and the record of its writes, and the open pages, over `TextSequence` |
| `HuddleRoom` | one room: peers, tracks, negotiation, callbacks, close |
| `ActivatorProofs` | what activator processes share: the theorems about `Controller` and about `RequestSpool` |
| `StackProofs` | the theorems about `Stack`, and that it implements `DurableCopy` |
| `OutboxProofs`, `SchedulerProofs`, `BlobReconcileProofs`, `SocketModeProofs`, `HuddleRoomProofs` | the inductive invariant of each module and its theorems |
| `CanvasTextProofs` | what the replicated text computes (`TextSequence`), and the theorems about `CanvasText` |
| `MCController`, `MCStack`, `MCRequestSpool`, `MCOutbox`, `MCScheduler`, `MCBlobReconcile`, `MCSocketMode`, `MCCanvasText`, `MCHuddleRoom` | instances for TLC |

`Controller` and `Stack` both extend `LifecycleRecord`, so a transition is
written once: `Controller` asks what happens when several processes race over
it, `Stack` what happens to the data when one process is interrupted anywhere.

### How state and actions correspond to the code

`LifecycleRecord`: a record has the fields of `StateRecord`; `sa` is
`SnapshotAuthoritative`, `rg` is `RestoreGeneration`. `Can...` operators are the
state checks at the head of a method, the others build `next` from
`carryLocked`.

`Controller`: `store` is the row of `lifecycle_state`, `cache[r]` the fields of
one `Controller`. `Persist` is `CompareAndSwap` with `persistLocked`: equal to
the cached view, replace both; else reload. A method is one step, because its
mutex is held and one statement touches the store. `BeginWake` is two steps.
`won` is history: who was told that it owns a fence.

`Stack`: `drv` is the operation under way: `op` says who drives it (a request,
an operator's restore, start-up recovery, a hibernation), `pc` names the next
stage of `wakeAtManifest` or `Hibernate`, `tries` counts the attempts of
`driveWake`. Each stage is an action; a stage that runs a command may also fail,
before or after its effect (`Erred`). `RestoreBegin` and `RestoreEnd` are the
two halves of a restore: between them the volume is incomplete. Data is a
version number: every write of the running stack produces a new one, an artifact
holds the version it was taken from. `latest` is the newest accepted write and
`consent` records that an operator asked for an older snapshot.

`RequestSpool`: `rows` is the table, in the order of acceptance; `lock` is
`queueMu` between `Enqueue` and the registration of the waiter; `drain[r]` is the
`processSpool` call that holds `drainMu`; `sawEmpty` is the point of `drainLoop`
between `Pending` and the flag. When `processSpool` returns an error, `drainMu`
is free at once and the goroutine refuses its own caller afterwards
(`refusing`). `forwardSpoolRequest` cannot fail to build its request, because
method and URL come from one that was parsed. `active` is the lifecycle state as far as the
handler sees it. A lease lapses for free when nobody renews it any more, and as
a counted fault while its owner works.

`Outbox`: `hold[w]` is `leaseHold.sequences`, `lock[w]` its renewal mutex. An
acknowledgement is two steps under that mutex, because a renewal that ran
between them would see a record the worker no longer owns. `excuses` and `hurt`
are history that the properties compare with.

`Scheduler`: `rows[i]` is the row of an item with its lease columns; a process is
a worker or a call of `SendScheduledMessageNow`. `Claim` leases a batch (`todo`),
`Begin` and `Commit` are the reading and the committing half of
`PostScheduledMessage`, the steps after them mark, advance or release the item
under its lease. `posts` is what was posted, with the idempotency key it was
posted under. `barred` are the messages that would be refused with an error
`permanentFailureCode` does not list: the parent of the thread was deleted,
posting is restricted, an upload has expired. `Restrict` lets such a refusal come
and go, or last; the worker releases the message and tries again.
Web reminders have no lease: `MarkReminderDelivered` is a
compare-and-set. A recurrence is daily: the calendar is left out.

`BlobReconcile`: `object[k]` is the age of the bytes under a key; `ticket`,
`file`, `draft` and `scheduled` are the rows that may refer to it. A request
writes bytes in one step and commits a reference in another. The audit is the
sequence of `Reconcile`: list the objects, read the files, the drafts and the
scheduled messages in separate queries, confirm, enqueue. A deletion event is a
member of `queue`, as a second event for a key changes nothing more. The commit
of `CreateFile` is assumed to come within the grace period, which is what the
grace period is for. A `CreateFile` that is refused (`RefuseFile`) has not
committed: `UploadFile` deletes the bytes on any error (`messages.go:529`), so an
error after the commit would leave a file without bytes, and that fault is not
modelled. `stale` and `torn` are history: uploads saved again after
nothing had kept them, and those whose reference moved from a table that the
audit had still to read to one that it had read.

`SocketMode`: `slot` and `up` are the row and the goroutine of a connection,
`held` and `remaining` are the handler's pending maps, `row` and `cursor` the
store's view. The handler is one goroutine, so each branch of its loop is a step;
the store calls of a branch that can fail separately fail in `ConsumeFails`.
`offers`, `hurt` and `resent` are history.

`TextSequence` and `CanvasText`: a document is a sequence of characters, each
named by a clock and a replica, deleted ones included. `Skip` is the loop of
`integrateInsert` that passes greater names, `Apply` the loop that tries held
operations again. `journal` is what the event stream tells pages of the writes,
in order; a write that is too big for its record tells them to fetch. A page's
`queue` is what was typed and not acknowledged. `editCanvasText` is two steps
around the read, so that a conflicting write fits between. A page sends its
whole queue; the editor sends at most 200 operations at a time, which
is a beginning of that queue and reached by no instance. The other end of a
lost request is `StrayArrives`.

`HuddleRoom`: each section under the room's lock is a step. `sync`, `marking`
and `offering` say that some goroutine has still to run `synchronize`, to change
the senders of a peer, or to offer to it. `offer[c]` follows one negotiation;
`described` and `agreed` are the tracks in the offer that is out and in the last
one answered. `closing` are the connections that `Leave` or `Close` took out of the
room and close after the unlock. `SignalAnswer` is the answer to the offer that is
out, `SignalStrayAnswer` one that is late or from a second page of the
participant: both clear `negotiating`. `hurt` are the peers that lost an offer or an
answer, until one applies; `crossed` those that got a stray answer.

## Runs

Each run answers one question. Where several statements answer it together,
they are named parts of one property.

| Run | Instance | States | Shows |
|---|---|---|---|
| `controller` | 2 processes, generations up to 4 | 76,000 | each fence has one owner; settled records need a new fence; consent to a restore stays in scope |
| `stack` | 4 generations, 2 writes, 1 crash, 1 store error, 2 attempts, a clock of 3 instants, a margin of 1 | 539,000 | nothing accepted is lost; a volume called authoritative is complete, nothing writes under snapshot authority, a served stack is whole (`CopiesAreSound`); artifacts never change; `Stack` implements `DurableCopy`; wakes and hibernations settle; a deadline is kept until it has passed, and one that the clock brings within the margin wakes a hibernated stack |
| `spool` | 2 replicas, 2 requests, 1 crash or fault, symmetric | 2,194,000 | duplicates have a cause, outcomes reach their callers, the oldest go first |
| `spool_solo` | 1 replica, 3 requests, a queue of 2, 1 crash or fault | 201,000 | every accepted request is delivered or quarantined, none disappears; a replica whose queue is empty serves directly again |
| `outbox` | 2 workers, 2 events in one batch, 2 faults | 66,000 | acknowledged means sent, repetition has a cause, no self-inflicted loss of a lease, no stranded tail, every event delivered |
| `scheduler` | 2 workers, a send-now call, a message, two channel reminders or a Web reminder, 2 faults | 224,000 | one post per occurrence, none that was called off, none recorded without a post; no occurrence of a channel reminder is skipped; what is due is dealt with unless it is lastingly refused; a post that was not recorded is recorded later |
| `blob` | an upload ticket, a direct upload, one writer, one cleaner, 1 fault | 528,000 | referenced bytes are kept, a key reported missing is missing, dead bytes are reclaimed |
| `socketmode` | 3 connections for a limit of 2, a record of two envelopes, one of none, an interaction, 1 retry, 1 fault | 282,000 | the limit holds, retries are as promised, acknowledgements count once, every item ends |
| `canvas` | 2 pages, one opened late, 2 edits, 2 failed requests or oversized writes | 1,498,000 | replicas order and read the same, what was typed is kept until saved and saved is stored, nothing a page sends is refused |
| `huddle` | 2 participants, one of whom rejoins, a camera, a screen, 1 fault | 2,181,000 | a closed room is empty, no change is lost between offers, no track outlives its participant |

Two runs are expected to find a violation. Each states what a comment or a
document of the repository says and shows a behaviour of the code that does
otherwise; `findings` in `PROJECT.json` quotes the lines.

| Run | What TLC finds |
|---|---|
| `stack_refused_restore` | an operator's restore is refused before it writes; the authority declared for it stays, and the next ordinary wake restores over the newer volume |
| `blob_torn_walk` | the reference to an upload moves, while an audit runs, from a table that it has still to read to one that it has read (a scheduled message is delivered, say); the audit sees neither and the bytes are reclaimed |

### Bounds

Bounds are constants, each named in its module. Two processes suffice for a race
over one store, since a compare-and-swap involves the winner and one loser.
Four generations let a deployment be woken, hibernated, woken and fail or be
restored; two writes tell "newest" from "older"; a crash may hit any stage, and
the store error may then hit its recovery. The clock runs
from 0 to 2: with a margin of one, a deadline of 2 set at the start lies outside the
margin, and only the passing of time brings it in. Two spool replicas and two requests
show overtaking, takeover and retry; three requests over a queue of two reach
its limit. Two events make a batch with a tail.

In `Scheduler` a second item uses up the fault budget (`Together` lists which
items may coexist): the properties of a pair concern a batch and the leases of
its tail, those of one item its faults. A direct upload and a ticket share keys
in no action of `BlobReconcile`, so one of each shows what either can do while
the audit runs; `MinAge` equals `Window`, the least that `NewReconciler`
accepts. In `SocketMode` the third connection (`Spare`) and a fault are
alternatives; it is there to exceed the limit. In `CanvasText` failed requests
and oversized writes share one bound; two oversized writes make a page fetch
twice in a row, which `Resyncs = 1` allows and no more. One character is the
initial text, and the limit of two characters is reached. In `HuddleRoom` a
fault is a failed connection, a lost signal or refused description, a stray
answer, a read loop that ends by itself, a screen turned on or off, or the room's
end.

`CHECK_DEADLOCK FALSE`: `outbox` and `scheduler` end when everything is
delivered, `canvas` when nobody types any more, `huddle` when the room is closed.

Properties that are conditional say so by name. `barred` in `Scheduler`: the
message is refused with no failure code. `Reused` in `CanvasText`: two
different characters were given one name, see below. `replaced`, `hurt` and `crossed` in
`HuddleRoom` and `stale` and `torn` in `BlobReconcile` mark the cases which the code does not
cover; `blob_torn_walk` shows the last one.

### Fairness

* `Stack`: the process is restarted, its goroutines and the scheduled wake loop
  run, and the clock advances. Commands may fail, but not for ever without
  spending an attempt, which the attempt budget of `driveWake` ensures. Crashes
  and store errors are bounded, not fair, and the liveness properties are about
  behaviours in which the control store refused no write.
* `RequestSpool`: goroutines run, a dead replica is restarted, an unrenewed lease
  lapses, the wake that a drain asks for completes (`WakeSettles`). The code
  wakes the stack from `ensureActive` and retries from `drainLoop`, which polls.
* `Outbox`: both goroutines of a worker run; a renewal ends, for it is bounded by
  its interval; lapses and retry times pass. The delivery loop is strongly fair:
  it competes with renewals for one mutex, renewals are a third of a lease apart
  and Go's mutex serves a starving waiter first.
* `Scheduler`: workers poll for ever, calls return, the clock runs, and each
  item's lease or retry time runs out. Members need not act, and no refusal need
  end.
* `BlobReconcile`: time passes, the cleanup workers poll, and the operator runs
  `blobgc` again and again, which is the only way it runs. No upload need finish.
* `SocketMode`: the app keeps opening connections, the handlers' loops run, leases
  and retry times run out. Serving and dialling are strongly fair, because a
  connection that closes disables them for a while. No acknowledgement is fair.
* `CanvasText` and `HuddleRoom` are checked for safety only; what must hold in the
  end is stated of the moments when nothing is under way (`Quiet`, `Settled`).

## Proofs

Every invariant and every action property of the passing runs is a theorem for all
values of the constants. Each proof has the same
three facts about an inductive invariant `Inv` (`FenceInv` for the controller):
the initial states have it, every step keeps it, and it implies the property.
TLC checked each `Inv` on the instance of the module's run before it was proved.
`OrderInv` of `CanvasTextProofs` alone quantifies over orders and is beyond TLC.
Fault and step budgets are constants too, so the theorems hold for behaviours with any
number of faults.

About `Controller`, for any set of processes, fences, deadlines and bounds
(`ControllerAssumption`: the sets hold natural numbers):

* `Typing`: `ControllerSpec => []ControllerTypeOK`.
* `OneOwnerPerFence`: `FenceHasOneOwner` is not inductive, because it says
  nothing of the fences still to come. `FenceInv` adds `GrantedInOrder`, that no
  fence handed out exceeds the generation in the store, and `ConsentScoped`.
  `StepShape` shows that every step leaves the store alone, keeps its generation
  (`SameFence`), or takes the next one (`NewFence`); the invariant follows from
  that shape alone.
* `ConsentIsScoped`, `SettledLeftByNewFence`, `AuthorityIsCarried`: from the same
  invariant and the same lemma. `AuthorityCarried` is proved and in no run: what it
  is there for, on an instance, is `NothingLost` of `Stack`.

About `Stack`, for every number of attempts, generations, writes, crashes and
refused store writes (`StackAssumption`: they are natural numbers, and at least
one attempt is allowed). One lemma per transition (`WakeBegunFacts` and the like)
states what it leaves of the record; the proofs cite these and never expand a
transition.

* `StackTyping`, `NoAcceptedWriteIsLost` and `StackIsSound`, the last of which is
  that the volume is complete, that no writer runs while the snapshot rules, and
  that a served stack is whole. None of these is inductive: each speaks of the
  durable record, while the steps that could break it depend on how far the driver
  has come. The invariant `Inv` therefore says what every stage has established.
  `PhaseInv` ties the driver to the state of the record, `AuthorityInv` the state
  to authority and consent, `SnapshotInv` and `VersionInv` bound what the copies
  hold, and `WakeInv` and `HibernateInv` state what each stage of
  `wakeAtManifest` and `Hibernate` may rely on: before `BeginStop`, for example,
  that `current.json` names this generation and its artifact holds what the volume
  holds. `Inv` is stated in `Stack` itself. One lemma per group of actions
  (`ProcessSteps`, `RequestSteps`, `WakeSteps`, `HibernateSteps`, `EndSteps`)
  shows that it is kept, action by action.
* `PublicationIsMonotone`: only `CreateSnapshot` and `PublishCurrent` touch the
  snapshot store; the fence of a hibernation is newer than every published
  generation (`SnapshotInv`).
* `DeadlineSurvives`: `DeadlineShape` shows that every step keeps the state of the
  record, carries its deadline, or is `Activate`, which drops it only when it
  has passed.
* `ImplementsOneCopy`: `Stack` implements `DurableCopy`. `DataShape` classifies
  the steps by what they do to the data, and `CopyFacts` says that without an
  operator restore the authoritative copy is the newest accepted write.

About `Outbox`, for any finite set of workers and any number of events, batch size
and faults (`OutboxAssumption`):

* `AtLeastOnce`, `LossHasFault`, `NothingLeftLeased`. `ShapeInv` keeps the renewal
  set equal to the rest of the batch until `RunOnce` leaves, and the renewal lock
  with the main goroutine between the halves of an acknowledgement. `LeaseInv`
  says that a worker holds all it would renew, or has lost all of it to a fault:
  this is why a renewal never trips over an acknowledgement. `DebtInv`
  counts: what was sent of a record, plus the workers that have still to send it,
  is at most its excuses plus one, and at most its excuses once the record is open
  to another claim. It needs the cardinality of the set of those workers.

About `RequestSpool`, for any finite set of replicas, requests and capacity
(`SpoolAssumption`):

* `Duplicates`, `Accepted`, `Outcome`, `Order`. `PaidInv` is the same kind of count:
  deliveries exceed faults by one only while the replica that was given the request
  is at work on it under its lease. `OrderInv` says that no request is delivered
  while an older one in the queue never was, which `OlderWereClaimed`, an action
  property, follows from.

About `Scheduler`, for any workers, send-now calls, items, batch size and bounds
(`SchedulerAssumption`: the kinds of item and of process are disjoint):

* `OnePostEach` and `NoneSkipped`. `OkInv`: who is about to record a delivery has
  its post. `SeenInv`: while a worker owns a channel reminder of its batch, the due
  time it saw is the stored one, for only the owner of a lease moves a reminder
  on. A worker whose lease lapsed and was taken over cannot regain it before it
  claims anew. Each action is reduced to what it does to a row, a process and the
  posts (`StepEffect`).

About `BlobReconcile`, for any uploads, direct uploads, writers and cleaners, and any
grace period not shorter than the lifetime of a ticket (`BlobAssumption`, the
condition `NewReconciler` enforces):

* `ReferencedBytesStay` and `ReportedIsMissing`. The centre is `DoomInv`: what is
  queued for deletion, about to be queued or being deleted can never be referred
  to again (`Gone`), apart from the two named gaps. To know this when the audit
  decides, `SeenInv` dates what it listed, `ReadInv` says what the queries made
  so far rule out, `UploadInv` that a ticket runs out within its lifetime after
  the bytes were written, and `PlainInv` that a key of a direct upload
  serves one request.
* The proof found an error in an earlier form of `MissingIsReal`. With two writers, a second
  request on the ticket of an upload that had lost its bytes while referenced may write
  them after the audit had confirmed the loss. The property now names that case;
  the run has one writer and could not show it.

About `SocketMode`, for any connections, events, fan-out, limit and number of
retries (`SocketModeAssumption`):

* `SlotsWithinLimit` (the cardinality of the connections with a slot),
  `RetriesKept` and `AcksOnce`. `CountInv` squeezes the offers of an item between
  the attempts on record, the delivery under way and the faults; `CalmInv` says
  that until a fault hits an item its holder owns it and the row knows of every
  acknowledgement.

About `HuddleRoom`, for any participants, connections and tracks
(`HuddleAssumption`):

* `RoomClosed`, `ChangesOffered`, `NoTileFreezes`. `SyncInv`, `OfferInv` and
  `DirtyInv` follow a change through `synchronize`, the marking of a peer and
  its next offer: at each point somebody is bound to take the next step.
  `FreshInv`, `JoinedInv` and `StandInv` say that a connection takes part in
  nothing before `Join` registered it, and that what was ever in the room is a
  participant's, was replaced, or is closed or about to be. `FlagInv` ties
  `negotiating` to the offer that is out, until a stray answer parts them. Every
  step either negotiates and leaves the room and the tracks alone
  (`NegotiationStep`), or comes and goes and leaves senders and offers alone
  (`MembershipStep`): a change of what is forwarded then has a `synchronize` to
  come, or a connection to close that brings one.

About `CanvasText`, for any pages, edits, text lengths, attempts, fetches and faults
(`CanvasTextAssumption`: replica names are distinct positive numbers, and the
server tries at least once):

* What an operation does to a text is defined by recursion over the text, the
  run of operations, the held ones. The library's induction theorems
  are out of reach of the installed provers, because they take an operator as a
  parameter. `Least`, `Induction`, `Steps` and `Recursion` state induction and
  recursion with sets and functions instead, which needs no such parameter; all
  that follows rests on them. `Kept(P)` says that a set `P` of texts with
  operations in hand is closed under placing one of them; `ApplyAllKeeps` and
  `CatchUpKeeps` carry any such `P` through `Apply`, its repeated passes, a batch
  and a run of writes. `GrownKeeps` uses them to show that nothing is lost and
  nothing made up: every operation is in the text or still held.
* `CanvasInvariant`, and from it `CanvasTypeCorrect`, `NoEditIsRefused` and
  `TypedIsKept`. The invariant says that a page has what it has queued and
  otherwise only what the canvas has; that each queued operation fits the
  canvas and the operations queued before it (`Placeable`); and that a batch is
  answered ok only when the canvas has it. So a batch can be placed in any text the
  server may have read since, and no clock in it runs ahead.
* `Convergence`, from the stronger `OrderIsKept`. `OrdersAgree` is not
  inductive: what two replicas share now says nothing of where the next character
  goes. `OrderInv` says that one order of all characters exists, of those in the
  canvas and those still queued for it, with a parent for each: a character comes after its
  parent, and nothing between the two has a smaller name (`Tree`). Every replica
  and every fetched text is a part of that order, every operation under
  way inserts below the parent of its character. Then the loop that passes
  greater names stops at the place of the character in that order, whatever part
  of it a replica has (`InsertSorted`). A new character is put below its parent,
  behind the greater names there (`TreeGrows`). The order is no variable: it is
  quantified in the invariant, and a step may choose a larger one. When two
  characters got one name, a replica that holds them need not follow the order
  (`Clash`); the property exempts that state too (`Reused`).
* Order alone would let quiet pages agree on a part only. `HeardInv` says that an open page
  which is not fetching lacks nothing but what it will be told, that the text it
  fetched lacks nothing but what it heard meanwhile or will be told, and that
  what it has removed is removed in the canvas or queued. A page
  that has heard and sent everything then has the names of the canvas, in the same order
  (`SortedBegins`), with the same tombstones and the same values.

Only model-checked:

* all liveness and whatever needs fairness, which is out of the prover's reach
  (`WakeSettles`, `HibernationSettles`, `DeadlineWakes`, `EventuallyDrained`,
  `ServedDirectlyAgain`, `EventuallyDelivered`, `NothingForgotten`, `PostIsRecorded`,
  `DeadBytesReclaimed`, `EveryItemEnds`);
* the two properties that are violated.

## Observed while modelling

Behaviours that the models show and no property forbids. Each is a reading of the
code, with the line it starts from.

* SIGTERM during start-up recovery records FAILED (`coordinator.go:283`), although
  the handler says of a shutdown that it is no failure (`handler.go:619`).
* A crash after a restored volume went live is recovered by restoring again, over
  the writes made meanwhile (`coordinator.go:277`, `state.go:357`).
* One refused store write of Activate or Fail leaves WAKING without a driver
  (`handler.go:611`, `specs/scale-to-zero.md:184`).
* A process with a stale cache is told that it may overwrite the volume
  (`state.go:340`, `sqlite_state.go:163`).
* The drained flag is set while a request is queued: `drainLoop` reads an empty
  table, a request is queued and clears the flag, and the loop sets it
  (`handler.go:276`); or a claim is empty because another replica holds the rows
  (`handler.go:303`). Later requests are then proxied past the queued one, which
  the comment on `servingDirectly` rules out (`handler.go:160`).
* A scheduled message whose thread was deleted, that posting rules forbid or whose
  upload has expired is refused with an error `permanentFailureCode` does not list
  (`worker.go:116`; `messages.go:10660`, `10671`, `11183`, `11223`). It is released
  and tried again in every lease, without end, although `docs/operations.md:333`
  says that permanent failures are recorded once. `NothingForgotten` excepts it
  while it is refused.
* The edit of a scheduled message that was posted and not yet marked is accepted:
  `UpdateScheduledMessageWithinLimit` does not look at the idempotency row as the
  deletion does. The new text is never posted.
* `MarkReminderDelivered` compares only that the stored due time is not later than
  the delivery, so a slow delivery of one occurrence of a Web reminder may
  mark the next one.
* A page fetches the canvas before its own batch commits, and names the next
  character from a clock that does not count it: two characters get one name. The
  second is answered as saved and not stored (`web/handler.go:3223`).
* `crdt` `Apply` loses the rest of the held operations when a held one is in error.
* `Join` looks again only whether the room was closed: two offers of one
  participant at once leave a connection behind that is in no map (`room.go:137`).
  The state callback calls `Leave` by name, so an old connection's failure removes
  the rejoined one (`room.go:130`).
* An offer whose signal is lost leaves `negotiating` set; unless a stray answer
  clears it, that peer is not offered anything again.
* An answer that belongs to no offer of the moment clears `negotiating` while a
  newer offer is out, and a second offer may follow it (`room.go:203`).
* `screen_on` puts a screen back whose read loop has already ended: a tile that
  never moves (`room.go:250`).
* A participant whose own first offer is refused stays in the room and is never
  ready (`room.go:165`). `Manager.Leave` has no caller, so an empty room lives until
  `Close`.

## Not modelled

Contents: message bodies, headers, encryption, signatures, SQL text, formats.
Sizes in bytes: the spool counts requests, a canvas counts characters. The
command driver's processes. Of the scheduler: to-do reminders, statuses,
retention, workflow triggers and delays, which are leased like channel reminders,
calendar arithmetic and the computation of the wake deadline. Of the blobs:
photos and emoji, result limits, staging files. Of Socket Mode: the response
journal and its processor. Of canvases: sections, carets, presence. Of huddles:
SDP, ICE, media.

The greater part of the repository is request handlers, SQL, gRPC and HTML: the
Slack API surface, the web client, the module transports, four implementations of
one store port, domain types and generated code. They keep no protocol state
between two calls; what they do to shared state is a transaction of the store,
and a model of it would be its SQL over again. They are listed in
`PROJECT.json` with that reason. The map therefore covers a small share of
the lines.

## Plan

1. Done: lifecycle, spool, outbox, scheduler, blobs, Socket Mode, canvas text,
   huddles; the safety properties of all of them as theorems.
2. Theorems: an abstract at-least-once queue that `RequestSpool` and `Outbox` are
   shown to implement.
3. `EventStream` (the cursors of `internal/realtime/sse.go`), recurrences, the
   published deadline of the scheduler against `Stack`.

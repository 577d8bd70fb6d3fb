# Stalky: a TLA+ development

Stalky is a macOS desktop application that observes what happens on the screen
(by capture and through Accessibility), turns it into *memories* through
extraction jobs, and keeps the memories in a local SQLite store. This directory
holds TLA+ models of the parts of it where the order of events matters, the TLC
configurations that check them on small instances, and proofs of the most
important properties for every value of the constants, checked by TLAPS.

    tlc -workers 2 -config MCMemoryStore.cfg MCMemoryStore    # a run
    tlapm MemoryStoreProofs.tla                               # the proofs of a module

`PROJECT.json` lists the components, the runs, the source lines of every
definition, the hazards, the findings and the theorems. Source names below are
relative to `crates/` unless they begin with `apps/` or `backend/`.

## 1. The system

| Component | Where | State | Operations | Correct when |
|---|---|---|---|---|
| Extraction queue | `mega-store/src/queue_repo.rs` | `extraction_jobs`, `activity_segments`, audit events, the pause setting | enqueue, claim (with a sweep of expired leases), complete, fail, pause | a live lease is exclusive; late answers are refused; at most three attempts; every job settles |
| Memory store | `mega-store/src/{memory,operations,embedding}_repo.rs` | memories, search documents, embeddings, projection jobs, relations, evidence, tombstones, candidate audit rows | apply a plan, create / edit / confirm / reject / forget / delete, retention, store an embedding | derived rows follow the memory; evidence outlives the memories that rest on it; a retry makes no second row; deletion is complete |
| Evidence intake, batches | `mega-memory/src/{segmentation,extraction}.rs`, `mega-store/src/source_repo.rs` | the open segment, source events, stored segments, encrypted text | admit, close, store, batch, expire | every event is in one segment; a retry skips no evidence |
| Reconciliation | `mega-memory/src/{reconcile,model}.rs` | none (pure) | choose a plan for a candidate | an explicit memory is never replaced by an inferred one |
| Entities | `mega-store/src/entity_repo.rs` | entities, aliases, `memory_entities` | create, resolve, merge | a name goes on naming the entity it was given to |
| Profiles, retrieval, context | `mega-memory/src/{profile,retrieval}.rs`, `mega-store/src/{profile,context}_repo.rs` | stored profiles | build, store, invalidate; search, rank, render | what is withdrawn is shown by no profile; what is shown was eligible; nothing eligible is missed |
| Event bus | `mega-runtime/src/event_bus.rs` | a bounded queue behind a mutex, a `Notify` | publish (three overflow policies), close, recv | no wake-up is lost; nothing disappears uncounted |
| Supervisor | `mega-runtime/src/supervisor.rs`, `mega-core/src/lifecycle.rs` | lifecycle state, child token | run | only legal transitions; ends after cancellation |
| Screen capture | `mega-capture/src/{service,native,frame}.rs` | service state, session, control thread, inbox, frame worker, stream | start, stop, callbacks | nothing of a session survives its stop; every call returns |
| Permissions | `mega-permissions/src/lib.rs`, `apps/mega-desktop/src-tauri/src/{lib,permissions,preferences}.rs`, `mega-platform-macos/src/macos.rs` | registry, in-flight set, stored request marks | request, poll, forced stop | one request at a time; recorded before it is shown; revocation stops capture |
| Accessibility | `stalky-accessibility/src/{service,native,normalizer,policy,model}.rs` | service state, AX thread, snapshot, element handles | start, stop, execute, refresh | an action is performed on the element it was aimed at; no thread outlives its session |
| Cloud session | `apps/mega-desktop/src-tauri/src/{auth,cloud,lib}.rs` | Keychain entry, generation counter, session lock, login attempt, account mode | sign in, sign out, access token | a sign-out is never undone; no refresh token is spent twice |
| Backend | `backend/src/{auth,lib,error,config}.rs` | a cached key set, a refresh mutex | verify a token, refresh | a withdrawn key is refused in the end; unknown keys cannot flood the server |
| Memory commands, user interface | `apps/mega-desktop/src-tauri/src/memory.rs`, `apps/mega-desktop/ui/src/` | what the window read | call the store, poll the permission | a stale window cannot overwrite what it has not seen |
| Privacy filter, HUD, wire types, test support | `mega-memory/src/privacy.rs`, `apps/mega-desktop/src-tauri/src/hud.rs`, `mega-ipc`, `mega-core`, `mega-test-support` | window placement | | text rewriting, geometry and records without behaviour of their own |

**How the parts interact.** The desktop process holds its `MemoryStore` behind a
mutex, and the leases of the queue are made for several workers, each with a
connection of its own; every method is one SQL transaction, with three
exceptions that the models keep apart: `upsert_embedding` and `create_entity`
issue two statements that commit one by one, and `assemble_context` is a series
of reads. Tauri commands run on the asynchronous runtime or on background
threads and interleave at every `await` and whenever a lock is released; the
permission poll is a synchronous command on the main thread, called by the
window every 1.5 seconds. The capture service runs its backend on a control
thread that owns the ScreenCaptureKit stream; frames arrive on a dispatch
queue, go through a one-frame inbox to a frame worker, and errors come from yet
another queue. The Accessibility service runs an AX thread that alternates
between its channel of commands and a run loop of notifications, and publishes
snapshots into the service's state. A login waits for the browser on a thread of
its own, and any number of requests refresh the token behind a session lock. The
supervisor and the event bus are library code. Some parts are not wired up yet:
nothing in the repository runs the extractor, the segmenter or the builder of
profiles, and the models say which driver they assume.

**What is hard.** A worker's lease may run out, or its segment be deleted, while
it works. A client edits or deletes by a revision it read before another one
changed the row. A candidate is retried after its audit row was removed, or
after the text of its batch expired. A start of the capture or of the
Accessibility thread times out while the thread goes on. An action waits in a
channel while the tree it was aimed at is replaced. A user signs out while a
login is in the browser, or while a refresh waits for the server. A key is
withdrawn while requests queue for the cached set. A memory is forgotten between
the search that found it and the read that completes it. The process may end
between any two of these steps. `PROJECT.json` lists 40 such hazards with their
lines and the properties that watch them.

## 2. The modules

| Module | Models | Extends or instantiates |
|---|---|---|
| `ExtractionQueue` | the durable queue | `ExtractionJobs` as its abstraction |
| `ExtractionJobs` | the abstract life of a job | |
| `MemoryStore` | memories and everything derived from them | `MemoryVersions` as its abstraction |
| `MemoryVersions` | the abstract life of a memory, and what a search finds | |
| `Intake` | the segmenter, the evidence tables and the batches of an attempt | |
| `Projections` | profiles and their invalidation; entities and merges | in `MCRecall` |
| `ContextAssembly` | the searches, ranking and budget of one request | in `MCRecall`, with `Projections` |
| `CaptureService` | service, control thread, frame worker, stream | `CaptureLifecycle` as its abstraction |
| `CaptureLifecycle` | what capture promises its callers | |
| `PermissionFlow` | permission commands, poll, macOS, capture | `CaptureLifecycle` in place of the capture service |
| `Accessibility` | the service and its AX thread | |
| `AuthSession` | logins, refreshes and sign-outs over the Keychain | in `MCDesktop`, with `PermissionFlow` |
| `BoundedQueue`, `Supervisor`, `JwksCache` | the event bus, supervisors under one token, the backend's key cache | all three in `MCServices` |
| `ExtractionQueueProofs`, `MemoryStoreProofs`, `AccessibilityProofs`, `CaptureServiceProofs`, `IntakeProofs` | theorems | the module they prove about |
| `ServicesProofs`, `DesktopProofs`, `RecallProofs` | theorems about the three of `MCServices`, the two of `MCDesktop`, and the two of `MCRecall` | `MCServices`, `MCDesktop`, `MCRecall` |
| `MC*` | instances for TLC | |

`CaptureLifecycle` joins two models: `CaptureService` is checked to implement it
(`ImplementsLifecycle`) and to return from each call (`CallsReturn`), and
`PermissionFlow` composes its commands with `CaptureLifecycle` under exactly
that fairness. `Intake`, `MemoryStore`, `Projections` and `ContextAssembly` follow
one observation through the store; they share the ideas of a run's key, of a
memory's status and of what a withdrawal removes, and each opens another part.

### ExtractionQueue

One action per method of `queue_repo.rs`; each is one transaction. `Poll(w)` is
`claim_extraction` with its sweep: jobs whose last lease ran out get
`needs_attention`, other expired ones go back to `pending`, and then the oldest
due job is taken (`Claim`) or none is (`ClaimNothing`). `Finish(w)` is the worker's
answer: `complete_extraction` or `fail_extraction`, which check owner and
state (`Leased`), or the error `LeaseLost`. `DeleteSegment` is the cascade of a
permanent deletion in `memory_repo.rs`. Timestamps are kept relative to now, which
the code allows because it compares each of them only with the `now_ms` it is
given; `SetClockBack` is a wall clock that is corrected. `ticket[w]` is what the
worker believes it works on, and survives its lease. `id[w]` is the `worker_id` it passes,
the only thing by which the store knows it: `Namings` says which workers may go by the same
id. A worker does one job at a time, so whoever claims again under its own id while an
earlier answer is still to come is, in the model, another worker of that id. `ApplyRetention`
deletes the audit events that occurred before a cutoff (`operations_repo.rs:180`), while jobs
and segments stay; a cutoff in the past is the step taken at that time. `expired` counts what it deleted,
and `Recorded` is what was ever recorded.

### MemoryStore

`Plan(k)` is `apply_plan` with its six plans, behind the lookup of the
candidate's earlier outcome that makes it idempotent; `reconciled[k]` is the
audit row in `extraction_candidates`, `created[k]` a history of the rows ever
inserted for it. `UserAct(c)` is `edit`, `confirm`, `reject`, `forget` and permanent
`delete` by a client whose `view` may be stale (`Current` is the revision check;
`Refused` a call that fails it). `StoreEmbedding` and `ClearEmbeddingJob` are the two
statements of `upsert_embedding`; `Crash` may come between them. `ApplyRetention`
removes any set of audit rows, as `apply_retention` does by age.
Which plan reconciliation chooses is left open: the model allows each plan the
store accepts. A plan of kind update marks the old memory superseded without
raising its revision, which is why the old row's views stay current; it is
modelled as the code has it. Contents, categories, scopes and confidences never
change under an id and are left out.

### Intake

`Observe(e)` is `insert_source_event` and `ActivitySegmenter::admit` of one event,
with the segment that this closes handed to `insert_activity_segment`: `Boundary`
is `boundary_for`, `Storable` the limits of the insertion, and an event may close
one segment and open the next in one call. `CloseSegment` is `close`, `Crash` the
end of the process, which loses the open segment. `BeginAttempt(g)` loads the
batches of a segment as `load_extraction_batches` cuts them, from the sources that
have text *now*. A batch is the set of its sources: `Place` is where a source comes
in the order of the query, `Cuts` are the sources that begin a batch, because the text
before them leaves no room, and `Pieces` what lies between two cuts; `applied` maps a
run, named by segment and index, to the batch it stood for. `ApplyBatch` remembers the run id, job and batch index, as
`apply_plan` does. `ExpireText` takes text away between two attempts. The driver
around them (store, admit, store the segment; load, apply, retry) is not in the
repository; the model assumes the obvious one.

### Projections

Two places decide which profiles a memory is in: `belongs_to_projection` when a
profile is built (`Belongs`) and the five DELETEs of `invalidate_affected_profiles`
when it goes (`Invalidated`). Shapes of memories differ in scope, apps, categories
and mentions so that the two can disagree. `BuildProfile` and `PutProfile` are
apart, because the worker stores later what it read. `CreateEntity` and `NameEntity` are the
two INSERTs of `create_entity`; `Merge` is `merge_entities`, which fails for a
duplicate that any memory mentions.

### ContextAssembly

One call of `assemble_context`: each of its searches (`Search`) and each
`hydrate_memory` of a row it returned (`Hydrate`) is a read of its own, and between
any two of them `Commits` of other connections change the rows. `Answer` ranks as
`rank_memories` does (`Score` in thousandths, `Ahead` the comparison of its `sort_by`) and
renders within the budget of characters. `shown` is the set of memories in the answer,
which has them in the order of `Ahead`; `Rendered` says of that set what the loop of
`render_memory_context` does one memory at a time: a memory is in it exactly if it fits
after those of the set that are ahead of it. `eligible`, `always` and `crowded` are histories for
the properties. The ids of memories are numbers because the code compares them.

### CaptureService

`op` is the call that holds the lifecycle mutex (`start` or `stop`, with their
timeouts); `Control(g)` the control thread of session `g`, step by step from
`setup_native_runtime` to the end of its shutdown; `WorkerTakes` and `WorkerIngests`
the frame worker; `DeliverFrame`, `DeliverInvalid`, `StreamDies` and
`RecordStreamError` the callbacks, which may come late: after the inbox was
closed, or after the session was replaced. Frame callbacks are taken to be over once the frame
worker is joined: the code does not drain the dispatch queue, but what comes after that finds
the inbox closed and only counts a drop. Frames are numbered and show one of
`Contents`; a frame that repeats the one before it is a duplicate.

### PermissionFlow

Each read of the preferences, lock, system call and await of
`permission_request` is an action of its own, and so are those of the poll and
of the forced stop. macOS has two answers, the one tccd gives now (`live`) and
the one the process has cached; the user changes the first at any time, and
only a relaunch refreshes the second. Microphone and Accessibility go through the
same commands and are left out.

### Accessibility

`call` is the call that holds the lifecycle mutex; each of its waits is a step and
may time out. `ThreadStep` is the AX thread: `Install`, the drain of its channel
(`PerformAction`, `RefuseAction`, `HandleStop`) and the run loop, where `RefreshFocus`
and `HandleNotification` rebuild the tree. `ReadTree` is `refresh_snapshot` over
`read_raw`: `Outcomes` are the ways in which the visit to an element can end, and
`Entries` pairs handles and bindings by their places as the code does, while
`Nodes` is what the snapshot numbers. `RebindFails` and `KeepTree` are the failures
half-way. `Publish` is `publish_snapshot`, whose sink only *tries* the lock that `execute` holds,
and that a reader of the status may hold at any time, so that any publication may be lost. A
choice of a caller carries the session in which it was shown, which the code's ids
do not, and a performed action is recorded with the session and the tree it reached. The channel
to the thread holds four commands and its senders block; the model sets it no
limit, because the thread drains it in every round.

### AuthSession

The login thread (`LoginBegins` to `ModeFollowsLogin`), any number of callers of
`access_token`, which hold the session lock from the read of the Keychain to its
write (`RefreshBegins` to `Returns`), and the main thread's commands. The server
has a version of each session's refresh token, which it raises when it rotates
it. `generation` is `SESSION_GENERATION`, of which a login takes a snapshot. `Crash`
keeps the Keychain, the preferences and the server.

### BoundedQueue, Supervisor, JwksCache

*BoundedQueue*: everything under the mutex is one action. `Receive` takes the item,
reports the end, or leaves the mutex to wait; `Await` is the `notified().await` after
it. In between, the receiver is `"leaving"`: publications there must leave a
permit. `Cancel` drops the future of `recv` at any point, as a `select!` does, and
hands an unused wake-up back as tokio's `Notified` does on drop.

*Supervisor*: `Supervisor::run` between two awaits is one action: `Start` up to its
`select!`, the biased look at the token, the poll of the worker, the drain after
cancellation. `Transitions` goes through the states as the lifecycle table of
`mega-core` does, and ends in `"refused"` when the table does not allow one.

*JwksCache*: requests look for a key in the cached set (`Found`, `Missing`), queue
for the refresh mutex, look again (`Served`) or fetch; a fetch is answered with the
keys the server has at that moment, stored, fails, or is dropped with its request.
`withdrawn`, `overdue` and `forced` are histories, the last one the sequence of the forced fetches
begun while the set was fresh, with their times. Time is in steps of the request
timeout.

### Mutants

Next to a definition there may be one whose comment says *Mutant of ...*: the
same definition with a plausible mistake in it. No specification uses them. Each
property has one that it must be able to tell from the real code; `PROJECT.json`
lists which.

## 3. What the runs check

| Run | Bounds | Shows |
|---|---|---|
| `MCExtractionQueue.cfg` | 2 segments, 2 workers with an id each or one id for both, 2 attempts, leases of 1 tick, up to 1 tick of backoff, 1 set-back of the clock, retention up to the third event | the tables agree with each other and with the events recorded (`TablesAgree`), no answer is taken for another attempt (`AnswerIsForCurrentAttempt`), a live lease is kept (`LiveLeaseIsKept`), each job keeps to `ExtractionJobs` (`ImplementsJobs`) and settles (`EveryJobSettles`) |
| `MCMemoryStore.cfg` | 2 memories, 1 event, 2 candidates, 2 clients, 3 revisions | search documents and embeddings (`ProjectionsFollowMemories`), evidence, audit rows, tombstones, successors, and the refinement of `MemoryVersions` |
| `MCIntake.cfg` | 3 events, 2 contexts, texts of 1 and 2 characters for batches of 2, 2 attempts, pauses and expiry at any time | each event has one home (`NoSourceIsLost`), segments are one stretch of activity (`SegmentsAreSound`), attempts that fail and begin again skip nothing while no text goes (`RetriesSkipNothing`) |
| `MCRecall.cfg` | 1 memory of 3 shapes, 3 entities with 2 names, 6 topics of all five types; 2 memories of 6 kinds, 3 requests, searches of 1 row, 3 commits by others | a withdrawal reaches every profile stored at the time (`WithdrawalReachesProfiles`), a name survives chains of merges (`NamesSurviveMerges`); `ShownWasEligible`, `NothingIsMissed`, `BoostsPrecedeBlend` |
| `MCCaptureService.cfg` | 2 sessions, 2 frames in all, 2 contents | `NothingIsLeftBehind`, `FramesAreAccountedFor`, `FramesNeverGoBack`, the refinement of `CaptureLifecycle`, `CallsReturn` |
| `MCDesktopPermissions.cfg` | 2 commands and the main thread | one request at a time and none off the record (`RequestsAreOnRecord`), `RevocationStopsCapture`, `CanAskAgain` |
| `MCAccessibility.cfg` | 1 application of 2 elements, the window of which may fail to be read, 2 starts, 3 rebuilds, 1 action | `StoppedIsQuiet`, `NoActionOnReplacedTree`, `CallsReturn` |
| `MCDesktopSession.cfg` | 2 callers, 2 logins, 2 sign-outs, 1 rotation of each token, 1 crash | `SignOutWins`, `KeychainIsCurrent`, `CommandsReturn` |
| `MCServices.cfg` | a queue of 2 with 5 items and all policies; 2 supervisors; 2 requests for 2 keys over 6 steps of time | `QueueIsSound`, `EndIsReported`; `SupervisionIsSound`, `CancellationEndsAll`; `WithdrawnKeysEnd`, `RefreshesAreSpaced`, `CacheNeverGoesBack` |

**Why the bounds are enough.** Two workers and two segments let a lease pass
from one worker to the other while the first still answers, and let one sweep
meet an exhausted and a retryable job at once; two attempts have a retry and a
last attempt. Two workers under one id are one that claims again before its first
answer, or two that were given the same name. Retention between any of the first four events
leaves a job that is claimed, expired or answered with a trail that is empty, whole or cut. Two memories share evidence, replace each other and are deleted
in either order; three, which would make a chain, are left to the proofs. Two
candidates let one replace the memory of the other, and two clients hold views
of different ages. Three events open a segment, close it and open the next, and
fill two batches; a text of the batch's length makes a cut at every place, and
the durations 0 and 3 make a pause and a segment that is too long. Three entities
make a chain of merges; one memory is enough for a profile since memories do not
meet in one except by their number, and `EntityQuorum` is 1 for that reason. A
search of one row with two memories is a search that leaves one out. Five items
against a capacity of two overflow more than once. Two sessions, of the capture
or of the Accessibility thread, let everything late of the first meet the second.
One application is enough for replaced trees, since each rebuild replaces one;
`MCAccessibilityIds.cfg` has three elements so that the middle one can fail, and
`MCAccessibilitySessions.cfg` two starts, each with a first tree. Two
logins and two sign-outs let a sign-out come before, during and after a login, and
two callers compete for one token. Six steps of time cover both lifetimes of a
cached set, the queue before a request and a cooldown.

`MaxRevision`, `MaxItems`, `MaxSessions`, `MaxFrames`, `MaxSetBacks`, `MaxExpired`,
`MaxBackoff`, `Overdue`, `MaxStarts`, `MaxGeneration`, `MaxActions`, `MaxLogins`, `MaxRotations`,
`MaxSignOuts`, `MaxCrashes`, `MaxEvents`, `MaxTime`, `Durations`, `MaxBuilds`,
`MaxEntities`, `MaxMemory`, `MaxChanges` and `MaxNow` are bounds of the models.
`MaxAttempts` and `MaxLease` of the queue, `Limit`, `Inactivity`, `MaxSegment`, `MaxMembers`,
`EntityQuorum`, `TTL`, `StaleTTL` and `Cooldown` are constants of the code with smaller
values (the queue's proofs hold for all of its own). `WorkerIds` and `Namings` leave to the
instance who is called what.

**Several components in one module.** `MCServices` chooses at the start which of its
three components moves, and `MCRecall` which of the profiles and the context; the others rest.
`MCDesktop` has a specification and a run for each of the cloud session and the permissions.
They share no state, so nothing is lost by it, and a counterexample is one of the component
alone.

**Deadlock** is checked for the queue and the permissions. It is not where the
system may really stop or where the bounds end it: the bus after its close,
supervisors that all reported, a store whose ids and revisions are used up, a
service after its last session, a session after its last login, an answer that
was given.

**Symmetry** is used only in the runs of the memory store and of the intake, which have no
liveness; what is permuted there is compared for equality alone.

**Fairness.**
- *Queue*: time passes; some worker keeps polling; a worker that took a job
  answers or dies. Nobody need enqueue or resume, and `EveryJobSettles` assumes
  that extraction is not paused for ever.
- *Bus*: the receiver's task is polled whenever it can move. Publishers, `close` and
  cancellation are never forced.
- *Supervisor*: tasks are polled, and a worker whose token is cancelled ends. One
  that is not cancelled may run for ever.
- *Capture*: threads that can run do, and each native completion is waited for
  with a timeout. Nothing obliges the stream to answer.
- *Permissions*: the window polls and the main thread goes on; a start or stop of
  the capture returns (the run of `CaptureService` checks that it does); the main
  thread obtains the lifecycle mutex when it is free again and again (strong
  fairness: without it a user who starts and stops for ever could starve it).
  No request need be answered.
- *Accessibility*: the AX thread and the callers are scheduled, and macOS answers
  within its messaging timeouts. Nothing makes a timeout happen, no notification
  need come.
- *Cloud session*: threads are scheduled; a request to the server ends after
  `NETWORK_TIMEOUT` and the wait for the browser after `CALLBACK_TIMEOUT`, so that some
  end of each comes. Whoever waits for the session lock gets it in the end, though
  others take it in between (strong fairness of `MainStep` and of a login's last step). No
  server need answer and no login succeed.
- `Intake`, `Projections`, `ContextAssembly` and `JwksCache` are checked for safety only.

### Where the code differs from what is said of it

Three runs each check one statement of a document and find a behaviour that breaks it.

| Run | Statement | What happens |
|---|---|---|
| `MCMemoryStoreDelete.cfg` | a memory can be deleted for good with its evidence (`STALKY_MEMORY_SPEC.md:882`) | an entity alias that refers to the evidence makes the transaction fail every time (`memory_repo.rs:635`) |
| `MCAccessibilityIds.cfg` | controls are restricted to what the selected element advertises (`README.md:11`) | `read_raw` pushes an element's handle before reads that may fail, so that after a failure ids and handles are off by one, and an action reaches another element than the one shown under its id (`native.rs:708`) |
| `MCAccessibilitySessions.cfg` | stale element ids fail closed (`README.md:11`, `native.rs:524`) | the generation starts at 0 again with each session (`native.rs:312`), so that after a stop and a start an id of the cleared tree is accepted for the new session's tree of the same number |

Observations made on the way. The models have these behaviours; no property here
forbids them, and several properties are worded to leave them room.

*Queue.* When the third lease just runs out, the sweep moves the job but not its
segment to `needs_attention` (`queue_repo.rs:108`; `STALKY_MEMORY_SPEC.md:924` speaks of
both). The store tells workers apart by their ids alone: an answer to an earlier attempt is
accepted when a worker of the same id holds the current lease (`queue_repo.rs:317`), which
`AnswerIsForCurrentAttempt` excepts. Retention deletes the audit events of jobs that live
(`operations_repo.rs:198`), so that the trail alone does not tell how often a job was tried.

*Memory store.* Once retention has removed a candidate's audit row and its memory
is deleted for good, a retry of the same run and index creates the memory anew;
`OneRowPerCandidate` says that two rows never exist *at once*.

*Intake.* `load_extraction_batches` counts characters without the line breaks that
`push_batch` adds, so a batch can be cut that `validate` refuses, every time
(`source_repo.rs:221`). When text expires between two attempts the batches shift under
the same run ids, and a run that was applied stands for other events: evidence is
skipped, which is why `RetriesSkipNothing` excepts thinned segments. Events out of
order are stored without a segment; a crash loses the open segment.

*Entities and profiles.* Merging an entity that any memory mentions always fails,
since its rows in `memory_entities` are copied but not removed (`entity_repo.rs:146`).
A crash between the INSERTs of `create_entity` leaves an entity without alias, whose
name a merge then loses. Two mentions that resolve to the same entity in the same
role violate a key and fail the plan each time. A profile that was built before a
memory was forgotten and is stored after it brings the content back
(`profile_repo.rs:50`). Superseding a memory leaves the profiles that show it.

*Context.* The limit of a search applies before `eligible` does, so that newer memories that
will not be shown can displace one that would be. A query of 501 to 4,000
characters passes the request's validation and is refused by the search, and the
whole call with it. A memory deleted between the search and `hydrate_memory` loses its
apps, and with them the restriction to those apps. The boosts precede the blended
score only because similarity and freshness are 0 today; with both, the blend may
exceed the smallest boost.

*Capture.* A stream error that arrives before `start` returns is overwritten with
`Running` (`service.rs:113`, `:216`); an error of a session that is over marks the next one
failed (`service.rs:103`).
A frame callback may end after the stop that ended its session.

*Permissions.* A request that read its preferences early prompts again after a denial
(`apps/mega-desktop/src-tauri/src/lib.rs:236`). A forced stop that fails leaves the mode `failed`, with which
`RevocationStopsCapture` is content, though the native session may still be open.

*Supervisor.* A worker sees its token cancelled with its parent while its supervisor is
still `Running` (`supervisor.rs:72`; lines 30–31 say otherwise).

*Accessibility.* `refresh_permission` clears the snapshot before it stops the session, so
that a late publication shows again until the next stop. A start that times out after the
thread published leaves its snapshot in the state `failed`, and `StoppedIsQuiet` speaks of the
state `stopped`. A rebuild that fails early leaves the
old entries, whose ids then fail closed. A rebind that fails after the process was noted leaves
the application unobserved until the focus moves. Publications are dropped while an
action is waited for.

*Cloud session.* A login that ended before a sign-out may set the account mode to google
after it: the mode then names an account without a session.

*Backend.* A withdrawn key may be accepted for longer than both lifetimes by the time a
request queues for the mutex, since it was looked up before; `WithdrawnKeysEnd` bounds
it by both lifetimes and the number of requests. A forced refresh that fails uses up the
cooldown. Only fetches begun while the set is fresh are spaced (`RefreshesAreSpaced`): once it
is old, each request that finds no newer one fetches anew.

## 4. What is proved

Assumptions are the named `ASSUME`s of the modules and nothing else, and TLC evaluates each in a
run. They bound no set (the requests of the key cache alone are finite: `WithdrawnKeysEnd`
counts them); they say that bounds are natural numbers and capacities positive, that null
values are none of the values, that the main thread is none of the commands, that texts
have a length, that a topic is of one of the five types, a category's with a
key that is not empty, as `validate_profile` requires, that the scope of a memory is of one of
four types and names something, and that its trust, confidence and importance are in the ranges
that `trust_rank` and `finite_unit` leave.

Every invariant and every action property of the passing runs, and every refinement, is a
theorem for every value of the constants. Each proof has an inductive invariant, a lemma for every action that says that it keeps it, and the theorems
that follow from it.

**Queue** (`ExtractionQueueProofs`). The inductive invariant `QInv` is `TypeOK`, the
three invariants about the tables, `Bounds` (a timestamp is never further
ahead of now than a lease or a backoff and the set-backs so far allow) and
`OwnerHoldsCurrentTicket`: the worker a job names as its owner, when it works on
that job, holds a ticket of the current attempt. `AnswerIsForCurrentAttempt` says so
only of a lease that still runs, and a clock that is set back makes a lease run
again that had expired; the stronger form survives that, because a claim raises
`attempts` and hands out the ticket in one step and the sweep clears the owner. Both speak of
a worker that is `Alone` with the id it goes by; where another has the same one, the store
cannot tell whose answer it gets. What the tables say of the audit trail they say of the events
recorded, whatever retention deleted since. From it
follow type correctness, `TablesAgree`, `AnswerIsForCurrentAttempt`,
`LiveLeaseIsKept`, and the refinement of `ExtractionJobs` step by step.

**Store** (`MemoryStoreProofs`). `MInv` adds to the checked invariants
`RowsHaveRevisions` (there is a row exactly while it has a revision), `InFlight` (an
embedding whose first statement ran is there or was
withdrawn with its memory), `KeysAgree` (the rows made for a candidate, its audit
row and the memory it names belong together) and `ViewsArePast` (no view is newer
than its row). `StatusStep` then says how
any step moves the status of any memory, which gives `SupersededBySuccessor` and
the refinement of `MemoryVersions`, for chains of any length.

**Intake** (`IntakeProofs`). First come the lemmas about how a segment is cut: every
readable source has a place of its own, the pieces between the cuts leave none out, and the
batches depend on nothing but what is readable (`BatchesCover`,
`BatchesKept`), so that events admitted later, other segments and restarts leave them as they
are. `IInv` is then the types (`Shapes`), the open segment being one stretch as far as it
goes (`OpenIsSound`, which carries the texts it has seen and when its last event ended),
`OneHome` (an event is admitted exactly if it is in the open segment or in exactly one that is
stored), `SegmentsAreSound`, `RunsStand` (runs and attempts stand for the batches as they are
cut now, where no text went, and a job that is done has applied them all) and `RunsKeepApart`.
`NoSourceIsLost`, `SegmentsAreSound` and `RetriesSkipNothing` follow. `RunsStand` is what the
retries need: that a batch was applied under a run's name says nothing unless the next
attempt cuts the same batches.

**Projections** (`RecallProofs`). What a profile shows, stored or still being
built, are memories that were inserted and that, while they are current, belong to
its topic (`Reached`): neither the shape nor the mentions of a
memory change while it is current, so that what a late store brings back belongs no less
than when it was read. `InvalidationCovers` shows
that the DELETEs of `invalidate_affected_profiles` reach every topic that
`belongs_to_projection` lets a memory into. `WithdrawalReachesProfiles` follows: the step that
withdraws a memory leaves no profile, of those stored at the time, that shows it. Of a profile
stored after it, it says nothing.
`NamesSurviveMerges` has an invariant of its own, `EInv`: an entity that is there is its own
heir, and the heir of one that was merged is alive and has its name (`Heirs`), which a
chain of merges keeps because each merge moves all heirs of the duplicate at once.

**Context** (`RecallProofs`). `CInv` says of the call under way what its histories are
(`History`), that whoever looks eligible by a status that was read was so at some time (`RowsSeen`,
`FoundSeen`: apps and entities that were read are the memory's own, unless it is gone), and
what the searches by scope have found so far (`Covered`): a search that is over has found all
that it is about and that stayed eligible, but for its limit, and the one under way has found
it or still holds its row. `SearchesReach` shows that whatever is eligible is what one of those searches is
about, so that at the end all of it is ranked (`AllAreRanked`). `ShownWasEligible` and
`NothingIsMissed` follow, for any commits at any places of the call. `BoostsPrecedeBlend` is
arithmetic: the blended score is between 75 and 600, and at most 560 without high trust
(`BlendBounded`), while a boost more is worth 1000, or 500 if it is the one for high trust
(`BoostsAdd`).

**Capture** (`CaptureServiceProofs`). `CInv` adds to the types that sessions come one after
another (`Sequential`: threads of earlier sessions ended, later ones do not exist), what each
place of a call says of the state, the session and the control thread (`Calling`), and what
each place of a control thread says of its worker, stream and inbox (`StandsAt`). A start
that times out leaves its call only through the join, and so does a stop that gives up
waiting for its reply; that is what `Calling` carries and `NothingIsLeftBehind` needs. `InOrder`
(a frame that waits or is carried is newer than the one held, and the one carried
older than the one that waits) gives `FramesNeverGoBack`; `FramesAreAccountedFor` is
inductive with `CInv`, step by step; and every step of the service is a step or a stutter of
`CaptureLifecycle`, under which `PermissionFlow` uses it.

**Accessibility** (`AccessibilityProofs`). `NoActionOnReplacedTree` says of ids that were shown
in the session in which they are used that the action reached the tree they were shown for; of
ids of an earlier session the run of `MCAccessibilitySessions.cfg` shows that it may not. It follows from
`Standing` (every entry is of the tree that stands), which each way of reading, keeping
or clearing the tree preserves, failures included. `QInv` says for each place of
a call where the thread is, what it has reported and whether it was told to stop: a
start that times out can leave its lock only through the join. `TInv` has the types: of what
the thread keeps, whose entries and nodes have ids of some tree (`Runtime`), of what the service
keeps (`Service`), and of what callers chose and had performed (`Seen`). `Visited` lists the
elements of a tree by their ranks among those visited, so that the lengths of handles, bindings
and nodes can be reasoned about (`RanksAreTaken`, `VisitedOfTree`). `StoppedIsQuiet` follows: where no
call is under way and there is no session, there is no thread and no command waits, and in the
state `stopped` there is no snapshot either.

**Bus** (`ServicesProofs`). `BInv` adds `Ordered` (received and waiting items form an
increasing sequence of numbers published so far) and `Ended` (the end is
reported only when the closed queue is empty). `NoLostWakeup` is inductive with them
although the receiver has five places: the permit is what survives between
`"leaving"` and `"parked"`. `QueueStaysSound` puts the four invariants together.

**Supervisor** (`ServicesProofs`). `SInv` adds `InStep`, which ties the lifecycle
state to the place of the supervisor; each run of transitions starts from the state it
names, so the table allows it. `SupervisionIsSound` follows.

**Key cache** (`ServicesProofs`). `JInv` says what the cached set and the fetch under way can
contain (`Cached`: no key was withdrawn before the set that holds it was asked for, and a
fetch lasts one step of time at most), that the line for the mutex has no gaps or repetitions (`Turns`), and
how long each request that may fall back on an older set can have waited (`Waits`). `Waits`
is where the work is: a place in the line stands for a fetch ahead, each fetch takes one step,
and who was served or dropped frees a place, so that the sum never exceeds the number of
requests. `WithdrawnKeysEnd` follows, `RefreshesAreSpaced` from what is known of the last
forced refresh (`Asked`), and `CacheNeverGoesBack` from the fetches being served in turn.

**Cloud session** (`DesktopProofs`). `AInv` says with the types how sessions are
numbered (the session in the Keychain is older than a login under way, and snapshots are not
newer than the generation), that the lock is held exactly by the caller that is not
idle, that a login whose snapshot is current was not ended by a sign-out (`Fates`), and
that the server's token is ahead of the Keychain's by the rotation under way (`Ahead`).
`SignOutWins` needs `Fates` because the Keychain alone does not show a login that is still to
be stored; `KeychainIsCurrent` needs the lock, without which two callers would rotate
the same token.

**Permissions** (`DesktopProofs`). `RequestsAreOnRecord` is inductive with
two additions: the main thread makes no request, and a request that was recorded stays
on disk. The capture enters only with its types.

**Model-checked only.** All liveness (`EveryJobSettles`, `EndIsReported`, both
`CallsReturn`, `CommandsReturn`, `RevocationStopsCapture`, `CanAskAgain`, `CancellationEndsAll`)
is out of the prover's reach and stays with TLC. `Chars` of `Intake` and `Cost` of
`ContextAssembly` are sums over sets, defined by induction over their data: the proofs use that
such a sum depends on nothing but the set and what is added up, and never compute one.

## 5. What is not modelled

- *Reconciliation's choice*: `MemoryStore` allows every plan the store would accept, so
  its properties hold whichever the thresholds of `reconcile_candidate` choose; that they
  choose well is not shown.
- *Privacy filter*: text is rewritten by patterns, and the models do not tell texts
  apart by wording.
- *Checks of a token's claims, routes and error bodies of the backend; extraction
  policies; `nearest_embeddings`; listing of events and memories*: without state or
  without effect on it.
- *Microphone and Accessibility permission requests*: the same commands as Screen
  Recording with other system calls.
- *Encryption, migrations*: pure input and output, or run once before anything else.
- *Views, HUD geometry, wording, wire types, test fakes*: no state whose order matters.
  Of the user interface only its poll of the permission and the revisions it read are
  modelled.

## 6. Plan

1. `Reconcile` as a pure operator, checked against the rules of the specification over all
   pairs of a candidate and a memory, and then used in `MemoryStore` to choose the plan.
2. Safety counterparts, as theorems, of the liveness that only TLC checks: what a poll that sees
   the grant revoked leaves of the capture, and what an expired lease leaves of its job.

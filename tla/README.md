# Dezirclip: the verification project

Dezirclip is a clipboard manager: a Rust core and host (`crates/`), a Tauri
desktop (`src-tauri/`), a web UI (`src/`), a Go client and a Go surface
(`clients/go`, `frontends/dzc-surface`). Whatever is copied is captured into a
history, part of it in SQLite and part of it in memory only, unless a *privacy
session* is active or the policy excludes the application. Several processes
share the database, one process at a time captures, and clients follow the
history through versions and events.

What is hard in it is not in any one function. A capture is a dozen
transactions and locks long and the user may switch privacy on between any two;
a page is put together from reads that no transaction joins; a Host is stopped
while its threads admit work; an epoch moves while exports are opened; a window
is torn down while it is being shown. Those interleavings are what the modules
here are about.

Paths below are relative to the repository; `dzc-host`, `dzc-core` and
`dzc-platform` are under `crates/`.

## 1. Inventory

| Component | State | Operations | Interacts with |
| --- | --- | --- | --- |
| Privacy session state (`dzc-core/src/api/privacy_session.rs`, `privacy_policy.rs`, the triggers of `migrations.rs`) | one row: enabled, expiry, epoch, history revision | `status`, `set_session`, `toggle`, `capture_ticket`, `check_capture`, read permits | every process writes it; a trigger moves the epoch on a change of policy or visibility |
| Automatic capture (`dzc-core/src/services/capture`, `clipboard_repo.rs`) | the worker's ticket, source, entry, duplicate, identity; `clipboard_history`; the in-memory queue | `read_authorized`, `capture_frame`, `process`, guarded save, limits | privacy state, policy, queue, events |
| In-memory history (`session_history.rs`, `desktop_actions.rs`) | rows, a revision moved by every mutable borrow | capture, edit, delete, keep | capture, pages, snapshots |
| History revision and surface answers (`history_version.rs`, `surface.rs`, `router.rs`) | last pair folded, revision | `snapshot`, `surface_page`, `desktop_surface_copy` | database, queue, epoch; clients hold tokens |
| Capture ownership and shutdown (`capture.rs`, `work.rs`, `ownership.rs`, `subscription.rs`, `Host::stop`) | listener, queue, byte budget, processor, work tokens, `CaptureLease` clones | start, notify, process, admit, stop, retry, drop | shortcut, clipboard writer, desktop bridge |
| Events and subscriptions (`events.rs`, `Host::publish`, `subscribe`, `begin_remote`) | sequence, the last 256 events; the client's `after` and revision | push, after, interrupt, poll, handle | everything that changes the history |
| Revocation (`Host::synchronize_privacy`, `private_files.rs`) | observed epoch, `ACTIVE` exports | revoke, announce, create, hand out, close | privacy state, events, native owners |
| Generated uploads (`upload.rs`) | a table of a few uploads with tickets | begin, write, finish, expire | capture, copy |
| Privacy shortcut (`hotkey.rs`) | current and retained registrations, their worker threads | set, key press, stop, drain | request lock, lifecycle, store |
| IPC server (`server.rs`, `ipc/`) | connections, permits, draining flag | accept, dispatch, answer, drain | Host |
| Grants (`authorization.rs`) | bounded tokens | issue, accept, check, revoke | server, subscriptions |
| Encryption (`dzc-platform/src/encryption.rs`) | the key in the secret service, in the keyring, in two caches | read, recover, create, publish | every process that seals or opens a row |
| Attachments (`attachments.rs`, `database.rs`, `sensitive_tags.rs`) | image files named after their bytes, rows that refer to them | capture, convert, delete, clean up | capture, deletion, tags |
| Paste queue (`paste_queue.rs`) | queue with an id, the step in flight | set, clear, paste next | Host, windows |
| Surface supervisor (`surface_supervisor/`) | child process, session, pending request, tasks | show, hide, act, stop, read | Go surface, windows |
| Quick Paste panel (`frontends/dzc-surface`) | query, rows, tickets, debounce | type, search, refresh, paste | Host's pages and tokens |
| Desktop bridge (`ipc_host.rs`) | mode, embedded Host, closing flag | connect, fall back, prepare an update, abort, shut down | Host, server, updater |
| Main window (`idle_destroyer.rs`) | window state, pending show, timestamps | show, hide, tear down, rebuild | tray, shortcut, commands |
| Windows settings (`system_settings` of the desktop and its uninstaller) | registry values, receipts, a journal | override, release, stage, roll back, restore | the user, the uninstaller |
| The rest | native clipboard and paste, OCR, search, backup, protocol types, web UI, Go clients, scripts | | |

`PROJECT.json` lists them all with their files, what is modelled of each, and
every hazard at its line.

Which behaviours are hard:

* **Interleaving.** Capture workers, requests, other processes and the clock;
  three threads inside `synchronize_privacy`; a stop against admissions; a ticker,
  a GPU switch, the main thread and watchers over one window.
* **Stale state.** A ticket, a source, a duplicate, a clone of the queue, a pair
  of revisions, an epoch, the answer to a query that is no longer on the screen:
  each read in one step and used in a later one.
* **Partial failure and retry.** `Host::stop` may fail at five places and is
  retried; a revocation may fail and is left to the next call; a key is copied
  from one store to another and the copy fails; a setting is staged and the
  process dies.
* **Crash-like ends.** A Host dropped with its threads alive (`LeaseRetention`);
  a surface child that dies with a request in its pipe.
* **Limits.** Byte budget, work tokens, queue capacity, event window, permits,
  the 2^53-1 revision.
* **Time.** A session runs out while `status()` is between its transactions; a
  server's task outlives the five seconds an update waits for it.

And for each, what makes it correct: nothing is recorded that overlaps a session
or comes from an excluded application; what the user protects or edits is not
lost to a capture; a token names one history; at most one Host captures, and a
stopped one is quiet; a stop returns, and the lease comes free; before a privacy
change is acknowledged what was opened under the old epoch is closed; no event
is lost unannounced, and every change reaches the windows; a key that sealed a
row stays in a store; what the user had set in Windows is given back; a queue
that was cleared is not pasted; an installer runs alone.

## 2. Modules

    CaptureGate <--implements-- CapturePipeline --extends--> PrivacyState

    CapturePipeline   <-- CapturePipeline_proof
    HistoryVersion    <-- HistoryVersion_proof
    CaptureOwner      <-- CaptureOwner_proof
    HostEvents, DesktopBridge <-- HostEvents_proof
    IpcServer         <-- IpcServer_proof
    SurfaceSupervisor, WindowLifecycle <-- SurfaceSupervisor_proof
    MasterKey, AttachmentFiles <-- Encryption_proof
    SystemSettings, PasteQueue, PrivacyShortcut, SurfacePanel <-- Parts_proof

An action is a stretch of code under one lock, or one transaction, or what runs
between two waits; between two actions of a thread anything may happen. Other
processes share no mutex, so the mutex around this process's connection is used
as an ordering nowhere.

**PrivacyState** holds the row `privacy_runtime_state` and its transactions as
operators on a row: `ExpireTx`, `SetTx`, `ToggleTx`, the triggers (`Bump`), and
the guard `CaptureAllowed`.

**CapturePipeline** is `CaptureEngine::read_authorized` and `process` over the
SQLite store and the queue. `stage[w]` says which call a worker is about to make,
`cap[w]` holds its locals: ticket, payload, protection, identity, removals.
`StatusPeek` and `StatusExpire` are the two transactions of `status()`;
`TakeTicket`, `CheckCapture`, `Prepare`, `FindDuplicate`, `ScanRam`, `Commit`,
`Trim`, `PublishPersistent`, `PublishSession` and `Emit` follow in the code's
order, with every early return (`GiveUp`). The world beside it: `SetSession`,
`ToggleSession`, `OtherStatus`, the clock, `ChangePolicy`, `EditRam`, `MarkRow`,
`DeleteRow`, `DeleteRam`, `PersistRam`. A payload is a model value compared only
for equality; formats, hashes, previews and encryption are left out. The history
variable `spoiled[w]` records that a session was active at some moment since
`w`'s ticket.

**CaptureGate** is what that promises, with nothing of how: captures that enter
outside a session hold the era they entered in and get through only in it.
`AdmitsLikeTheGate` is the refinement: the epoch is the era, an active session is
`active`, and `hold` is the ticket of a capture under way, `Through` from the step
that stores until its worker is idle again (`Held`). A capture that stored without
its ticket's era would step to `Through` in a way the gate has no action for.

**HistoryVersion** is `Host::snapshot` (`ReadQueue`, `ReadDatabase`,
`ReadQueueAgain`, `Fold`), used by any number of watchers and by the router, and
the two requests that must not mix histories: `surface_page` (Page*) and
`desktop_surface_copy` (Copy*). `issued` remembers every token given with the
state it was given for; `parts` the states the answer in progress was read from.
A snapshot that is overtaken is folded late and moves the revision of an unchanged
history (`history_version.rs:9`): a token is spent, and none is given twice.

**CaptureOwner** is one record per Host: the starting step, the native listener
and its callback's frame, the queue, the processor, the work tokens and what they
are for, the byte budget, the shortcut, the writer's helper, and the step
`Host::stop` has reached. `LeaseHeld` is defined, not stored: the lease is held
while any of the clones the code makes is alive. A token leaves the count before
its clone of the lease goes (`FollowUpEnds`, `TokenGone`), as Rust drops a
value's fields after its `Drop` (`work.rs:49`), so that a shutdown may return a
moment before the lease is free.

**HostEvents** is `synchronize_privacy` as five steps, shared by the calls that
run it (the router's requests, `publish`, both halves of `subscribe`), the window
of events, `BoundExport`, and the desktop's loop `begin_remote`. `announced` and
`acked` are history variables; `remote.view`, `remote.rows` and `remote.missed`
say of which epoch and history the windows last asked for everything, and which
events they were told to do without. A privacy event's state is a second snapshot
(`router.rs:173`), whose epoch may be newer than the one revoked for; what is
promised and proved is about acknowledgements.

**IpcServer** is `serve_connections` with its permits, each connection's
`requests` loop, a subscription's wait between its two looks at the grant, and
`Host::stop` with draining. A Host that stops is `draining` before its listener
closes; a connection holds its permit until its last answer was written.

**SurfaceSupervisor** is the desktop's side of the Go surface: `show_request`,
`hide_request`, `perform_action`, `dismissed`, `stop_matching`, `read_stdout` and
the tasks they spawn. The child is a process that answers, fails, crashes or is
dismissed; every message carries the session and revision it is about.
**SurfacePanel** is the other side: the model's query, tickets, the debounced
search, refreshes and pastes, against a Host whose history moves.

**PrivacyShortcut** is `Hotkey::set`, `register`, `stop` and `drain_retained` over
registrations that have a thread each, `try_toggle_privacy` against whoever holds
the request lock, and the stored chord.

**PasteQueue** is `set_paste_queue`, `clear_paste_queue` and `paste_next_step`:
validating the entry, hiding the window, pasting, consuming, each a step, while
queues are replaced and cleared and entries deleted. It is run for a service and
for an embedded Host.

**WindowLifecycle** is the main window: the ticker that tears it down and rebuilds
it, the thread of a GPU switch, the main thread that settles teardowns, asks for
windows and commits shows and hides, watchers that hold a show back, `RECREATE_PENDING`
and the destruction's budget; `voided` is a history variable, the requests that waited
when a cancel or a newer request came. **DesktopBridge** is the mode and what moves it: the
embedded Host and the task that serves it, the loop that follows a service,
`prepare_update`, `install_aborted`, `shutdown`, and another program's
`controller::stop` and `start`.

**SystemSettings** is the receipts of values DezirClip overrides: read the value,
write the receipt, write the value, in the order of the code, with a staged change,
its journal, rollback, release, and the uninstaller's restoration; every write may
fail and the process may die at every step. **MasterKey** is the key of the Linux
build: probing both stores, the lock file, recovering an old key, creating and
publishing a new one, while the keyring loses its entries and processes end.

**AttachmentFiles** is image files against the rows that refer to them: captures,
conversions to protected rows, deletions by tag, ordinary deletions and the limit,
each with its transaction and its file operations as separate steps, in several
processes. Every initial state is a history that captures left: a row with an image
has its file.

The modules meet in shared rows rather than in variables: CapturePipeline's epoch
is HostEvents' and HistoryVersion's, its queue the one whose revision HistoryVersion folds,
CaptureOwner's processor is a worker of CapturePipeline, IpcServer's Host is
CaptureOwner's, and DesktopBridge's embedded Host is started and stopped as
CaptureOwner says. None of them assumes about the shared part more than the others
allow: each lets the epoch, the history, the queue and the Host move at any moment.


## 3. What is checked

Run a configuration with `tlc -config X.cfg M` on the module named in the table.
Components that share no state are explored side by side by one run: an MC module
extends some of them, instantiates the others, and a variable `part` says which of
them a behaviour is about; the others' variables stay as they began. The state
graph is the disjoint union of theirs. `MCCapturePipeline` holds a second instance
of CapturePipeline in the same way, with bounds made for races over rows. Where a
part needs fairness, it is the hypothesis of the part's property under a
specification that has none, or belongs to the part in the specification.

| Run (module) | Question and answer |
| --- | --- |
| captures (MCCapturePipeline) | Sessions, expiry and policy changes around one capture: `NoCaptureDuringSession`, `NoCaptureFromExcluded`, `OnlyCommandsEndSessions`, `AdmitsLikeTheGate` hold in every order. Two captures against edits, marks, deletions and keeping: `EvictedAreAnnounced` (a row the queue drops is announced), `RacedRowsKept` (no row protected or edited meanwhile is lost) |
| ramrace (CapturePipeline) | *Violation* of `ProtectedRamKept` |
| host (MCHost) | Two Hosts: `OneCapturer`. The event log, exports and the desktop's loop: `RevokedBeforeAck`, `NoEventSkipped`, `PrivacyViewFollows`. The history's revision, with two watchers beside the router: `TokenNamesOneHistory`, `AnswerIsOfItsToken`. Image files against their rows: `CleanupSparesRows` (a cleanup leaves what a row refers to), `ProtectedLeavesNoFile` (after an acknowledged protection no file of the row is left) |
| stop (MCCaptureStop) | One Host, inside the desktop, through every way to stop: `BytesAccounted`, `StoppedIsQuiet`, `StopReturns` (with its threads' fairness only), `LeaseAndStopEnd` (when the platform ends what it is asked to end, the lease comes free and a repeated stop succeeds) |
| parts (MCParts) | Windows settings: `UserValueKept`, `GivesBack`. Supervisor: `OneChild`, `PastesOnceHidden`. Panel: `RowsAreOfOneRead`, `PastesWhatIsSeen`. Paste queue: `ClearedIsNotPasted`, `ConsumesItsOwn`. Shortcut: `LiveIsStored` |
| service (MCService) | Server: `RevokedGetsNothing`, and fairly `EveryAdmittedIsAnswered`. Fairly: `DeadChildIsNoticed` (supervisor), `LoadingEnds` (panel), `StoppedWorkerEnds` (shortcut) |
| desktop (MCDesktop) | Master key: `SealedStaysReadable`, `OneKeyHanded`. Events: `EpochAnnounced`, `ChangesReachWindows`. Main window: `SupersededStaysHidden` (no watcher shows the window for a request that a hide, a toggle, a rebuild or another request made void), and fairly `QueuedIsServed`. Bridge: `InstallsAlone`, `ModeRecovers` |
| onscreen (WindowLifecycle) | *Violation* of `OnScreenIsKept` |
| wedged (WindowLifecycle) | *Violation* of `ClosedIsGone` |
| recovered (MasterKey) | *Violation* of `RecoveredIsPersisted` |
| restored (DesktopBridge) | *Violation* of `RestoredIsKept` |
| shared (MCAttachmentFiles) | *Violation* of `SharedIsKept` |

Every property of a passing run has a mutant in `PROJECT.json`: a plausible bug, as
an operator beside the one it replaces (comment "Mutant:"), under which TLC finds
the property violated in the same run.

### The six disagreements

*ramrace.* `docs/specs/v0.2-capture-engine.md:21` says a protected deduplication
target is not overwritten by the ordinary tags of a new capture. For rows of the
database that is proved (`ProtectedRowsStay`: the save looks at the row again). For
rows of the queue the scan and the replacement are two critical sections
(`engine.rs:383`, `:440`), and a capture of the same payload that publishes between
them, with inherited protection, is replaced unseen.

*onscreen.* `idle_destroyer.rs:301-303` guarantees that "a window that is on screen
is never torn down". The ticker looks at the window, then at the timestamp, then
claims the teardown (351); a pending show may be committed in between.

*wedged.* `idle_destroyer.rs:496-497` has `complete_pending_destroy` run "on the ticker
thread, never on a caller's thread", and 573 has a rebuild bail out "if anything else
is in progress". A press settles a teardown on the main thread (903-906), takes Closed
to Opening and, since that thread must not build, stores Closed again without looking
(596). Meanwhile the ticker is still in the same teardown or already in the rebuild,
and each store goes over what the other has made of the life in between: at the end it
is Closed for good with a window mounted. Every later press is refused and queued, the
ticker drops the queue as stale (549), and no teardown or switch leaves Closed: the
hotkey does not show the window again. It takes a press during a teardown, a queued
request and a press during the build.

*recovered.* `encryption.rs:558-567` says that a key this process already recovered
is the key to persist. Only a reader remembers what it recovered (589). A writer
that recovers a key and cannot copy it forwards nothing to the next writer, which
makes a new key over the rows of the old one once the keyring's entry is gone.

*restored.* `update_host.rs:6-7` has `install_aborted` restore the clients. The task
that served the stopped Host may end after the five seconds `prepare_update` gives
it (736), reads `closing` when it is false again, takes itself for the server in
use and moves the mode off the Host that was just restored (679).

*shared.* `docs/specs/v0.2-privacy-resources.md:11` retains shared resources. Image
files are named after their bytes; an ordinary deletion, and the limit after every
capture, removes the row's file without looking at other rows
(`clipboard_repo.rs:1205`). Deletions by tag and conversions do look, and for them
`CleanupSpares` is proved.

Other behaviour met while modelling, which no run of its own states:

* `work.rs:49`: `Work::drop` takes itself off the count before its clone of the
  lease is dropped, so that a shutdown may return a moment before the lease is free.
* `router.rs:173`: a privacy event's state may name an epoch newer than the one
  revoked for.
* `history_version.rs:9`: a slow snapshot is folded after a faster one and moves the
  version of an unchanged history.
* `ipc_host.rs:715`: after a resync the windows are told of no single event; the
  model remembers those in `remote.missed` and `NoEventSkipped` excepts them.
* `database.rs:220-223`: an image is written in place, and a later capture takes a
  file that a crash left partial for a whole one. Files are removed before a DELETE
  that may still fail. A rolled-back capture removes the image it created, which
  another process may have started to use.
* `idle_destroyer.rs:835` says of a hide and a waiting show that "there is no third
  order". There is one: the immediate check (789-799) does not compare the request with
  the newest one. A thread that stays between its request and that check while the user
  hides the window and asks for it again puts the window on the screen and clears
  `SHOW_PENDING` with the newer request still waiting. The user closes the window; the
  toggle of a visible window cancels nothing; the newer watcher shows it again. It takes
  four acts. `SupersededStaysHidden` is what the mechanism does guarantee: it speaks of
  watchers, not of the thread that shows at once, and a toggle of a visible window, which
  cancels nothing, makes nothing void.
* `InstallsAlone` speaks of the first update. After one that was aborted the restored
  disagreement, and a failing accept, can leave an embedded Host that the desktop no
  longer knows, beside which a later installer runs.

### Bounds, and why they are enough

* *captures.* One worker, one payload, three epochs, a clock of two instants and two
  captures: a session can begin, run out, be ended late by somebody's `status()`, and
  begin again inside a capture. What a session does to a capture involves one ticket.
  The races over rows take two workers, two payloads, a queue of two, a database limit
  of one, three captures and one edit: eviction, trimming and deduplication all happen,
  beside a row they must not touch. ramrace needs one payload and a queue of one.
* *host.* Two Hosts with a queue of one frame, one byte and one token: each limit is at
  its edge all the time. None serves a desktop's commands, so that the two are alike. The
  events have a window of one (every second event falls out), two epochs and one export,
  since every property about exports is about one of them. A limit of 2 on revisions puts
  the 2^53-1 boundary within reach; two watchers, one change of each kind, two requests of
  two reads: a snapshot can be overtaken twice. The files have two rows, one image, a
  limit of one, two operations, one fault and three threads in two processes: two threads
  share a mutex and the third only the database.
* *stop.* One embedded Host and frames of one byte in a budget of 2, so that two may share
  it; it serves one command and one request at a time.
* *parts.* One switch beside Win+V, one pending change, two operations, one edit of the
  user, one fault. Two requests, revisions and sessions of the supervisor: a newer one
  overtakes an older one. A page of one, two entries and three moves of the panel. A
  queue of two entries, two steps and two moves. Two chords, two registrations, three
  calls.
* *service, desktop.* Two clients, permits and requests; one session; one entry; one
  chord. Two callers and three keys; an event window of two, so that one answer carries
  two kinds; one act, switch, hide and fault of the window; one update and two operations
  of another program. `SupersededStaysHidden` was also run with two acts. wedged takes
  two acts, a switch and a hide.
* Symmetry is used where no liveness property is checked, over workers, payloads,
  watchers, Hosts and slots, which the specifications treat alike.

Deadlock checking is off where the bounds let the system stop: captures, edits and
requests are counted, and a Host that has stopped stays stopped.

### Fairness, and why the code justifies it

* `ThreadSpec` (CaptureOwner): threads that can take a step take one. Only this is
  needed for `StopReturns`, since every wait of `Host::stop` has a time limit. Nothing
  is assumed of the listener, the work or the helpers.
* `Platform` (MCCaptureStop): a cancelled listener ends, a callback returns, work under
  way ends, abandoned Hosts are dropped, `LeaseRetention`'s threads finish: calls that
  return, on threads nothing else blocks. `Retries`: an operator who wants a stop asks
  again, and what is asked to end time and again does so once within its limit.
* HostEvents: threads run, the desktop's loop polls again (`while !closing`), and a
  thread that waits for `observed_epoch` is not passed over for ever (strong fairness of
  `SyncLock`; without it a client whose every request fails to revoke keeps the lock
  from the poll, and TLC shows that trace). No request, capture or export has to act.
* IpcServer: accepting stops, connections read, dispatch and write or time out.
* SurfaceSupervisor: tasks run, and one that waits for the async mutex `serial` is not
  passed over (tokio's is a fair queue); the child is not assumed to answer.
* SurfacePanel: the Host answers or the connection is lost, timers fire.
* PrivacyShortcut: a cancelled worker's thread wakes up. WindowLifecycle: the ticker,
  the main thread and the watchers run. DesktopBridge: its tasks run, timeouts pass.
* No user, no other program and no client is assumed to do anything.

## 4. What is proved

TLAPS checks these for every value of the constants. A property of a run that is the
property of an instance (captures' `EvictedAreAnnounced`, `RacedRowsKept`) is proved of
the component: `RemovalsAnnounced`, `ProtectedRowKept`, `EditedRamKept`.

| Theorem | States | Rests on |
| --- | --- | --- |
| CapturePipeline_proof: `Typed` | `TypeOK` | `Carried`: what each stage guarantees of the worker's locals |
| `SessionsAreNotRecorded`, `ExcludedAreNotRecorded`, `CommandsEndSessions` | `NoCaptureDuringSession`, `NoCaptureFromExcluded`, `OnlyCommandsEndSessions` | `IInv == TypeOK /\ Carried /\ EraInv` |
| `PipelineImplementsGate` | `AdmitsLikeTheGate`, the refinement | the same and `Branches`, step by step |
| `ProtectedRowsStay`, `EditedRowsStay` | `ProtectedRowKept`, `EditedRamKept` | `RowsInv` (`RowsInvariant`) |
| `RemovalsAreAnnounced` | `RemovalsAnnounced` | `RowsInv` and the removals in the workers' hands |
| HistoryVersion_proof: `Typed`, `TokensNameHistories`, `AnswersAreOfTheirTokens` | `VersionTypeOK`, `TokenNamesOneHistory`, `AnswerIsOfItsToken` | `Naming`, `Past`, `Asked`, `Answered` |
| CaptureOwner_proof: `NeverTwoCapturers` | `OneCapturer` | `Shaped`, `Kept`, `OneLease` |
| `StoppedHostsAreQuiet` | `StoppedIsQuiet` | the same and `Quiet` (`AlwaysQuiet`) |
| `BytesAreAccounted` | `BytesAccounted` | the same, `Sized` (whose bytes are where) and `Balanced` (the counter is their sum) |
| HostEvents_proof: `Typed`, `AcknowledgedIsRevoked` | `TypeOK`, `RevokedBeforeAck` | `Past`, `Fences` |
| `ViewsFollow`, `NothingSkipped` | `PrivacyViewFollows`, `NoEventSkipped` | the window's numbers and what the desktop's loop has seen |
| `InstallsAloneHolds` | `InstallsAlone` of the desktop bridge | `BridgeInv` (`BridgeInvariant`) |
| IpcServer_proof: `TypeCorrect`, `RevokedGetsNothingHolds` | `TypeOK`, `RevokedGetsNothing` | `Inv` |
| Parts_proof: `Typed`, `UserValueIsKept`, `OwnedIsAlwaysOurs`, `WhatEndsGivesBack` | `TypeOK`, `UserValueKept`, `OwnedIsOurs`, `GivesBack` of the Windows settings | `Inv` and what an operation knows of the settings it changes |
| `QueueInvariant`, `ClearedStaysUnpasted`, `StepsConsumeTheirOwn` | `ClearedIsNotPasted`, `ConsumesItsOwn` of the paste queue | `QueueInv` |
| `LiveIsStoredHolds` | `LiveIsStored` of the shortcut | `ShortcutInv` |
| `RowsAreOfOneReadHolds`, `PastesWhatIsSeenHolds` | `RowsAreOfOneRead`, `PastesWhatIsSeen` of the panel | `PanelInv` |
| SurfaceSupervisor_proof: `OneChildHolds`, `PastesOnceHiddenHolds` | `OneChild`, `PastesOnceHidden` | `SupervisorInv` (`SupervisorInvariant`) |
| `SupersededStaysHiddenHolds`, `NeverParkedHolds` | `SupersededStaysHidden`; `NeverParked` (Opening is given back) of the main window | `WindowTyped`, `VoidInv` |
| Encryption_proof: `FilesInvariant`, `CleanupSpares`, `ProtectedLeaves` | `CleanupSparesRows`, `ProtectedLeavesNoFile` of the image files | `FilesInv` |
| `SealedIsReadable`, `OneKeyIsHanded` | `SealedStaysReadable`, `OneKeyHanded` of the master key | `KeyInv` |

*Eras.* `NoCaptureDuringSession` is a property of the storing step, and what that
step can see is the ticket's epoch and the row. `Era(w)` says what the epoch is
worth: while the row's epoch is the one the ticket names, no session is active and
none has been since the ticket. It is inductive because the only ways into a
session move the epoch, the clock only ends sessions, and `status()` ends only the
session it finds in the row at that moment. `ExpireBlindly`, the mutant that acts
on the row it read earlier, breaks exactly this.

*Rows.* What a worker found in a scan may be gone when it publishes. `RowsInv` says
what it may still rely on. Names of rows are unique and given out by a counter, so
that a new name is in no row and no scan. While the ticket's epoch lasts, a queued
row that a scan found keeps its payload: an edit moves the epoch, and two workers
that found the same row carry the same payload, so that the other's replacement is
no loss. The database's identities are unique and not ahead of the counter, and the
transaction reads the row it overwrites again. For removals, `push` drops a row only
from a full queue, by counting, and the dropped identity is in the worker's hands
from then until `emit`.

*Tokens.* A revision could be given twice if a fold of an older pair took the
number back. `Naming`: revisions given out are at most the stored one, and one
that equals it was given for the pair still stored. `Past` and `Asked` order the
worlds of a request, the token's before its parts and its parts before its last
snapshot; when that snapshot folds into the same token the two ends are the same
world, and so is everything between.

*The lease.* `OneCapturer` says nothing of the lease, and holds because of it:
whatever records holds a clone (`LeaseHeld`). The proof shows for each of the steps
of a Host that a clone is only made where there was one (`Kept`: a start, a running
capture, a token that is still counted, `LeaseRetention` while the writer's helper
lives), except by `StartCapture`, which takes the lease when no Host has any. That
the clones are all of one Host (`OneLease`) is then inductive. What the counters
and the queue hold plays no part, so a Host is for this proof a record over an
arbitrary set of values (`Shape`).

*Quiet.* A stop that finds no manager must find a Host that never got one: whoever
starts holds `lifecycle` until the manager is attached, and the stop holds it until
the tokens are gone. From the moment the manager is halted it admits nothing, so
that a count of zero stays zero; `Quiet` says it of each step `Host::stop` has
reached, in terms of what is already over at that step.

*Bytes.* Every frame is in one place: in the listener's hand, the queue, the processor's
or a command's. `Sized` says what a place may hold at each step of a Host, `Balanced`
that the counter is the sum over the places; a step moves a frame from one to another,
lets one in within the budget, or ends one and gives back what it weighed, also where a
stop drains the queue or drops the processor. The sums are the folds of the community
modules. Their recursion is unfolded to one function that takes an element by CHOOSE
(`Total`), and by induction over the size of the set (`NatSet`, `WFMin`) two such
functions agree and the sum does not depend on which element goes first, so that a token
that joins or leaves changes it by its own weight. Over a queue the fold is that sum over
its indices, to which an append adds one and from which a removal takes the first.

*Window.* `voided` keeps the requests that waited when a cancel or another request came.
Either moves the number past all of them, for those that wait are at most the newest
(`VoidInv`, from how a step changes the show, `ShowMoves`, and who begins to wait,
`StillWaiting`), and nothing moves it back; so what is void is below the number, and the
main thread, which compares when it commits, shows nothing for it. Were a cancel to leave
the number alone the property would fail at the next commit: that is its mutant. Opening
is entered only by who then holds it, and left only by giving it back or publishing
(`OpeningIsHeld`).

*Fences.* `RevokedBeforeAck` does not follow from mutual exclusion, and the proof
does not use it. A thread that revoked knows that nothing older than the epoch it
saw is open (`Fenced(saw[t])`); it stores that epoch as observed; the router, which
looked after it had written, saw an epoch that is not older than its own and either
revoked for it or found it observed. Exports open only under the epoch of the
moment, which no fence is ahead of (`Past`). That a late thread stores an older
epoch over a newer one does no harm: the older fence is weaker.

*Events.* The numbers in the window have no hole and end at the sequence. An answer
whose first number is the one after the client's `after` therefore holds every event
since, and an announcement made in between is among them; an answer with a gap makes
the loop ask for everything. What the windows show is then never older than the last
announcement the loop has handled.

*Installing.* `InstallsAlone` says what is over when the installer runs, and each part of
it was made true several steps earlier, by other steps than those that could break it.
`BridgeInv` follows the one task there is until the first update is aborted: every
embedded Host has stopped, or is the one the task starts or serves, or is one whose stop
failed, and then the mode is Unavailable and no update gets further (`Known`, `Serves`).
`prepare_update` sets `closing` in the step of its last look at who serves, after which no
Host is embedded (`NothingNew`), so that the Host or the service it stops is the last one
(`Stopping`). Whoever answers a client is not that Host any more, since it has stopped. An
abort ends all this: it clears `closing` and may start a second task, which is why neither
the property nor the invariant's `Core` speaks of what comes later (`Trying`).

*Given back.* While nobody else writes a setting, an operation knows what it found
and what is there now; the journal knows it together with the staged change. A
rollback goes through the settings in turn and leaves each as it was found, a
restoration removes each receipt in turn, and a setting that is still to be visited
is as the operation left it. A crash keeps the journal and the receipts, and these
say the same.

*Queues.* Whatever happens to the queue moves its version, and whatever happens to
privacy moves the epoch; what a step has read of either is never ahead of it, and a
step that has been made void is behind one of them. Every look compares, and the
keystroke comes after the last look. A consumption takes the entry the step
validated because the version it compares is the one it validated under.

*Shortcut.* `LiveIsStored` speaks of the moments between calls; inside one, two
registrations may be armed, the old and the new. `ShortcutInv` says of every armed
registration that it is the current one with the stored chord or the one of this call
with the wanted chord, and of every place of a call what it knows of the two
(`CallKnows`): there is no current one when the chord is stored, and what is being
stopped for which reason. A registration is disarmed before anybody waits for its
threads, so that one that does not end, and is kept for later, is not armed.

*Panel.* The rows are only those of the text and the revision the model has now, since
whatever changes either drops them. A ticket that is still the model's therefore names
the same read as the rows that are there, and its page starts where they end. A frame
holds the rows of the model or is dropped. Nothing is asked of the tickets under way:
what they were when they were sent does not matter, only what they say when they come.

*Supervisor.* `OneChild` needs more than the lock: a start waits until the lock is its
own and no session is left, and whoever forgets a session has seen its child's exit
(`Single`). `PastesOnceHidden` speaks of a screen that the supervisor knows only from
messages. A revision is given to one request (`Fresh`); the shows are written in the
order of their revisions, and each is done before it is answered (`InOrder`,
`OfRequests`). A paste is admitted only while its session shows the display it names,
and counts only while that display is the newest one. Then nothing else is on its way
to be shown: a new show has a newer revision, under which the paste is void (`Quiet`).
The child answers a `hide` after it has hidden, so that with the answer the display is
gone and stays gone. A display that was pasted from is not shown any more and its
revision is no request's, so that nothing pastes from it again. Most steps move each
variable in a way that shows nothing new and takes nothing back (`Calm`), for which the
invariant is proved once; the others have a proof of their own.

*Files.* A step moves its own operation only, under its process's connection,
changes rows only under the database's lock and brings no image but its own, and
touches files only to remove them or to write its own image (`OthersKeep`). A cleanup
knows (`late`) every image that came after its own commit: who takes the lock adds its
image to the finishing operations of other processes, and threads of the same
process wait for the mutex. A file that is left partial by a crash is the writer's.

*Keys.* Whoever is past the probe holds the lock file, and the key it carries agrees
with what stores and caches hold. What has been handed out is in the secret service or
was recovered, and what sealed a row is in the service. Other processes and users of
the keyring are out of scope.

*Answers.* A connection holds a result only of a request it read under its grant, and
the revocation leaves a mark that the second look sees.

The assumptions are those of the modules: sizes that are natural numbers, finite sets,
distinct threads. TLC evaluates them in the runs.

*Out of the prover's reach*, and left to TLC: liveness (fairness and ENABLED), which
are `StopReturns`, `LeaseAndStopEnd`, `EveryAdmittedIsAnswered`, `DeadChildIsNoticed`,
`LoadingEnds`, `StoppedWorkerEnds`, `EpochAnnounced`, `ChangesReachWindows`,
`QueuedIsServed`, `ModeRecovers`; and RECURSIVE operators, which no module here
declares. The library's induction theorems take an operator as a parameter, which no
prover here can instantiate; `NatSet` states induction over the naturals of a set
instead, from `WFMin`. That is how the panel's search is shown to return a sequence and
the folds of the byte budget to be sums; what a recursive definition computes for every
input is not stated elsewhere.

Every invariant of the passing runs is proved of its component. What is proved of
DesktopBridge is that one invariant; where its Hosts come to (`ModeRecovers`) is
model-checked for one update and two events of the world.

## 5. What is left out, and why

* Data: formats, hashes, classification, previews, search, OCR text. They decide
  *which* rows are equal or protected; the model takes any answer.
* Failure of the database is an early return where the code has one; lost power
  and torn transactions are SQLite's part.
* Thread panics, poisoned locks, and thread spawns that fail.
* CaptureOwner: `capture_owner` and `capture_active` only report; captures by IPC
  run under the request lock and follow the same steps; the shortcut is one
  registration, on or cancelled.
* HostEvents: body snapshots and uploads are cleared with the exports and carry an
  epoch of their own; the checks of a stop or of a grant in `subscribe` are only
  ways for it to fail, which the model has; the states inside entry events are
  read by no client.
* HistoryVersion: searching, paging and the projection of the in-memory rows.
* WindowLifecycle: `Settle` is one step; a window becomes due only when the workers are
  home; the budget does not end during the destruction itself, and a window kept past
  it stays; edge docking, overlays, focus and the toggle's debounce are left out, as is
  preemption between adjacent loads of `complete_pending_destroy`. A press may be lost
  under a teardown with a pending show, and `RECREATE_PENDING` may stay behind an open
  window.
* SystemSettings: the user does not write a setting between an operation's read and
  write of it, nor the very value a receipt expects.
* DesktopBridge: a step is the code between two waits; the capture lease and the exit
  path are left out.
* MasterKey: the Linux build; other programs that write the keyring.
* AttachmentFiles: the copy of a legacy directory in `setup.rs`, and the race between
  another process's commit and this one's removal that the code's comment allows.
* Native clipboards, the wire protocol's encoding, OCR, search, backup, the web UI, the Go
  client and the packaging are not modelled: conversions, rendering, platform calls
  and build scripts, without state the properties above are about.

## 6. Plan

Done: everything in section 2, the proofs of section 4.

Next, by worth:

1. What the bridge and the main window would guarantee once the restored and wedged
   disagreements are gone: `InstallsAlone` for every update, `ClosedIsGone`.
2. **Uploads** (`upload.rs`): finish, expiry and revocation at once; a finished upload is
   stored at most once and only under its own epoch.
3. The data directory's migration (`setup.rs`) and the exit path (`app_exit.rs`).

Abstract specifications worth stating: an *owner* that is nobody, one Host or
retired, implemented by CaptureOwner; an *event log* without a window, which the
window implements up to announced gaps.

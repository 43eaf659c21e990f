# A verification project for the waywallen daemon

waywallen draws wallpapers on Linux desktops.  A daemon (Rust, `src/src`) starts
*renderer* processes, which draw into pools of DMA-BUF buffers, and passes the
buffers on to *display* processes, which show them; plugins, playlists, settings
and a Qt interface surround that core.  The modules in this directory model the
parts of the daemon whose correctness depends on the order in which concurrent
parties act, TLC checks them on small instances, and TLAPS proves the most
important facts for every instance.

Paths below are relative to `src/src/wallframe` unless they start with `src/`.

## 1. The system

### Inventory

The last column names the module; a dash means not modelled (section 7).

| component | state it keeps | operations | what is hard | correct when | module |
|---|---|---|---|---|---|
| **release reaper** `sync/reaper.rs` | a bucket of member states per frame, `closed_sessions`, one blocking worker per dispatched frame, the release frontier | register, delivered, armed, skipped, session closed, completion, publish | records of router, endpoints and workers in any order; closes in the middle; DRM failures | a buffer goes back only when no display reads it, every buffer goes back in the end, in order | ReleaseReaper |
| **frame fan-out** `routing/router/mod.rs`, `display/endpoint.rs` | members on their way, arms, consumption permits, release sessions | `on_renderer_frame`, `forward_frame_ready`, `frame_release_armed`, end of the frame loop | a display vanishes with frames queued, delivered, armed | every member is delivered, skipped or closed exactly once | ReleaseReaper, partly |
| **renderer lifecycle** `routing/router/{slot,lifecycle}.rs` | a slot per renderer, its pending start, `Inner` behind one lock | begin/finish stop, restart, drop, request/advance/execute start, attach, exit | every operation is a chain of lock sections with awaits between | one process per renderer, table and slot agree, a stop is obeyed, an assigned renderer runs | RendererLifecycle |
| **deadlines** `routing/router/deadline.rs` | one timer per key | schedule, cancel, fire | cancelled by key, not by token | what waits for a deadline meets it | in its users, partly |
| **renderer processes** `renderer_manager/` | map of handles, published pool, latest frame | spawn, stop, evict, control messages, the reader | a process dies at any time, also during its own start | an exit is reported once, with its generation | in its users, partly |
| **renderer control channel** `renderer_manager/{writer,subscriptions}.rs` | bounded queue, slot for an audio window, wake flag, registry of subscriptions | send and wait, replace the window, commit a subscription | the window passes by the queue; a process that dies or does not read | no event before its acknowledgement, no lost wake-up | RendererWriter, partly |
| **render targets** `renderer_manager/render_target.rs`, `routing/router/render_size.rs` | coordinator: desired, under way, applied, failed; delays and retries | pass, configure, result, deadline | demand changes while a request is under way or a delay runs | the size wanted last is drawn in | RenderTarget, partly |
| **playback control** `routing/router/{mod,lifecycle,consumption}.rs` | wishes, activity of each slot, retries, frame requests | pause, resume, mute, passes, retry | passes of several tasks overlap with exits | the last wish reaches the renderer that is left | PlaybackControl, partly |
| **assignment** `routing/router/composition.rs` | wallpaper of each display, canvas projections | apply, clear, displace, reuse | lock released between commit and effect | a displaced renderer is stopped, a chosen one started | RendererLifecycle, partly |
| **automatic policy** `routing/router/auto_policy.rs`, `routing/{auto_replay,window_observation}.rs` | facts, rules, effects, resume delays | observe, set facts and policy, reconcile | flags change while a delay runs; observations made with old exclusions | effects and links follow the last facts | AutoPolicy, partly |
| **display binding** `routing/router/{display_sync,consumption}.rs` | what each display was last told, pending unbind acknowledgements | `sync_display`, `record_ack_unbind`, `await_unbind_acks_for` | timeouts racing acknowledgements; a restarted process numbers its pools from 1 again | frames match the binding; a process ends after its buffers were let go of | DisplayBinding, partly |
| **routing table and display scheduler** `routing/table.rs`, `scheduler.rs` | links, displays | add, enable, remove | none of its own | at most one enabled link per display | - |
| **format negotiation** `dma/negotiate.rs` | none | intersection of capabilities | many optional inputs | the chosen format is one that both sides have | - |
| **display spawner** `display/spawner.rs`, `src/src/plugin/display_registry.rs` | registry of backends, the child, its delay | register, choose, spawn, restart, stop | manifests that replace each other, fallbacks | the best backend that can be started is the one that runs | DisplaySpawner |
| **protocols** `ipc/`, `display/proto/` | none | encode, decode | byte level | round trip | - |
| **layout** `display/{layout,placement}.rs` | none | geometry | floating point | | - |
| **bridge pool** `src/bridge/src/pool.c` and the plugins' loops | buffer slots, last release point of each | negotiate, replace, acquire, submit, republish | polls while the timeline moves; frames of two pools on one socket; a lost connection | a slot is drawn into only after its point was released | BridgePool, partly |
| **playlists** `src/src/playback`, `src/src/application/playback` | cursors, sessions, owners, remembered playlists, the refresher | next, previous, activate, attach, edit, delete, hotplug | callers hold a lock that departures do not take; reads before the lock, writes after it | cursors stay in the list, owners and sessions agree, a session runs what is saved | PlaylistCursor, PlaylistEngine, partly |
| **tasks** `src/src/tasks.rs` | records, tokens and keys behind three locks | submit, cancel, finish, shut down | cancellation racing completion and submission | a keyed task runs once; shutdown leaves nobody running | TaskManager |
| **settings** `src/src/settings/store.rs` | document, dirty flag, canvases and their revision | update, edit canvases, debounce, flush | a change while a save runs; crashes; shutdown | the last change reaches the disk, the file never goes back | SettingsStore, partly |
| **catalogue of local wallpapers** `src/src/application/catalog`, `src/src/model/sync.rs`, `src/src/plugin/source/manager.rs` | rows of a library, the catalogue in memory, what the watcher saw, the flag `scan_in_progress` | refresh, watch, add and remove a library, reload plugins, remove a wallpaper | refreshes of several tasks overlap; directories change meanwhile; scans fail | the database ends up showing what is there; an item whose file stays is not deleted | SourceCatalog, partly |
| **remote assets, database, probes** `src/src/{catalog,model,remote_asset,probe}` | SQLite tables, downloads | query, download | coalesced downloads | | - |
| **plugins** `src/src/plugin` | packages, Lua states | install, run | | | - |
| **system services, API, start-up** `src/src/{system,api,daemon}` | connections | adapt requests and signals | shutdown order | | - |
| **user interface, tools** `src/ui`, `src/tools` | none | a client of the API, a generator | | | - |

### How the components interact

A renderer process sends `BindBuffers` and `FrameReady` on its socket.  The reader
thread (`renderer_manager/reader.rs`) stores the published pool and broadcasts the
event; an event task of the router turns a frame into one *member* per display
(`on_renderer_frame`), having registered the frame with the *reaper* of that
process.  The members wait in the unbounded channels of the display endpoints.  An
endpoint sends `frame_ready` with a fresh binary syncobj and reports `Delivered`;
the client attaches a fence to the syncobj and answers `frame_release_armed`, which
the endpoint passes on as `Armed`.  When all members of a frame are armed or
skipped the reaper starts a worker that waits for the fences, and then advances the
release timeline of the process, in the order of the frames.  The producer draws
into a buffer again when the timeline reaches its point.

The router keeps nearly all other state behind one `tokio` mutex.  Its requests are
chains: lock, decide, unlock, await something (another component, a process, an
acknowledgement, a timeout), lock again.  Whatever another task does between two
sections of a chain is the subject of `RendererLifecycle`, `DisplayBinding`,
`PlaybackControl`, `AutoPolicy` and `RenderTarget`, each for its part of the state.

Requests of the user interface reach the router directly (pause, stop, assign), or
through the playlists, which apply the wallpapers of a session to its displays and
remember in the settings which playlist runs where.  Downloads and scans are tasks
of the task manager; the settings are saved by a task of their own.  These services
share no state with the router but what is passed in calls.

## 2. Modules

| module | stands for |
|---|---|
| `FrameRelease` | abstract: frames are published, used, and given back in order |
| `ReleaseReaper` | reaper, workers, endpoints and clients of one renderer process |
| `RendererLifecycle` | slot, starts, stops and processes of one renderer |
| `DisplayBinding` | what a display is told to show, the tasks that tell it, unbind acknowledgements |
| `BridgePool` | buffer pool and plugin loop of one renderer process, its socket, the reader; `FrameRelease` is its environment |
| `PlaybackControl` | play, pause and mute of all renderers: wishes, passes, messages, retries |
| `AutoPolicy` | windows, session and power: rules, resume delays, effects, stopped links |
| `RenderTarget` | the coordinator of size and format of a renderer, with its delay and retries |
| `RendererWriter` | the writer thread of a renderer with its queue, audio slot and subscriptions |
| `PlaylistCursor` | the cursors of one playlist session |
| `PlaylistEngine` | sessions, owners, what is remembered, hotplug, edits, refresh of smart playlists |
| `TaskManager` | records, tokens and keys of tasks, and their supervisor |
| `SettingsStore` | settings, canvases, the file, flushes, crashes |
| `DisplaySpawner` | registry and choice of the display client, and its supervision |
| `SourceCatalog` | refreshes of the catalogue of local wallpapers, and what starts or disturbs them |
| `MCReleaseReaper`, `MCRendererLifecycle`, `MCDisplayBinding`, `MCBridgePool`, `MCSourceCatalog` | instances of these for TLC |
| `MCServices` | instances of the seven services that share no state, for the safety properties |
| `MCServicesLive` | `TaskManager` and `SettingsStore`, for the liveness properties, and `AutoPolicy`, for its safety |
| `MCRendererLive` | `RendererLifecycle` and `ReleaseReaper`, for the liveness properties |
| `ReleaseReaper_proof` | type correctness and safety of the reaper, the refinement of `FrameRelease`, and what the reaper reports to the router, publishes, and blames |
| `BridgePool_proof`, `RendererLifecycle_proof`, `DisplayBinding_proof`, `TaskManager_proof`, `SourceCatalog_proof` | the inductive invariants of these modules and what follows |
| `PlaylistSettings_proof` | the same for `PlaylistEngine`, `SettingsStore` and `PlaylistCursor` |
| `RendererControl_proof` | the same for `RendererWriter`, `RenderTarget` and `PlaybackControl` |

The modules of the router overlap in what they stand for: `link`, processes and starts
occur in several of them, each time with the detail that the properties of the module
need and with the rest as a free choice.  What composes is `BridgePool` with
`ReleaseReaper`: the first uses, the second implements `FrameRelease`.

### ReleaseReaper

| in the module | in the code |
|---|---|
| `token`, `arms`, `engaged` | `FrameConsumerMember`, `FrameConsumerArm` and `FrameConsumerSession` where the endpoint holds them (`pending_arms`, `release_sessions`) |
| `sess` | frame loop running; loop ended; display unregistered |
| `chan` | the unbounded channel of `FrameRecord`s |
| `bucket`, `member`, `closedSessions` | the buckets of `spawn_reaper` with their `MemberState`s; the set shared with the workers |
| `worker`, `wait`, `comp` | `wait_all_consumers` in a blocking thread, its `ConsumerWait`s, the completion channel |
| `nextPoint`, `ready`, `imported`, `producerFd` | `ReleaseFrontier`, `producer_handle`, the timeline the renderer sent |
| `fact` | the last `ReleaseEvent` the router heard of a consumer |
| `fence`, `late` | the kernel's view of the release syncobj; fences submitted to a session already closed |

Each record kind is an action (`ReapRegister`, `ReapDelivered`, `ReapArmed`,
`ReapSkipped`, `ReapClosed`); records that fit no member are `ReapMisfit`, an arm
that must not be is `ReapArmedPoison`.  `UpdateBuckets` is the tail every record
shares: ready buckets leave the map and are dispatched.  A worker alternates
between scanning `closed_sessions` and waiting with a timeout; each is a step, so a
close or a fence may come at any point of the loop.

Abstracted: a buffer index plays no role beside its point; fds and syncobjs are
their state; a DRM ioctl is its outcome (`DrmErrors`); the recipients chosen by the
router's filters are any set of sessions not yet unregistered.  Two modelling
decisions matter to the reader.  A session that closes *before its fence was
submitted* is skipped by the reaper, by design: the client may still submit
afterwards (`late`), and `NoEarlyRelease` does not hold the daemon responsible for
that.  And `RudeSessions` are clients that send `frame_release_armed` before
their fence, which the reaper must survive by ending the generation.

### RendererLifecycle

One renderer, one assigned display, any number of processes one after the other.
`task[t]` is a stack of lock sections: an action runs the first section of a task,
and may push those of the calls it awaits.  Tasks are request handlers, the process
exit listener and the deadline listener, as in the code; the exit listener runs the
start that follows an exit inline, so it is busy meanwhile.

| in the module | in the code |
|---|---|
| `slot` | `RendererSlot`: state, generation, `keep`, `pending_start`, `active_start_token`; `spec` counts replacements of the spec |
| `link` | link of the display in the routing table: none, disabled, enabled |
| `inhibit`, `marks` | `manual_stopped` and `auto_effects.stop`; stops already applied |
| `table`, `live` | handle in the routing table; handle in the manager's map |
| `proc`, `exits` | the OS process of each generation; channel of `RendererProcessExit` |
| `sched`, `due`, `fired` | deadline scheduler: scheduled token, passed times, channel |
| `grace` | orphan timer armed |

The requests (`Ops`) are: `manual` (set_manual_stop), `auto` (a change of the
automatic stop), `restart`, `apply` (the display's wallpaper is set to this
renderer), `replace` (to another), `kill`, `display` (disconnect, reconnect).

Left out: pause and mute of a running renderer (`PlaybackControl`), displays other
than one, unbind acknowledgements (here a section that ends; see `DisplayBinding`), that
a registration takes the handle's release events before it is accepted, and the abortion
of a task by its own exit handling.  `MaxOps` bounds the requests; generations and start
tokens (`Tokens`) are numbered up to twice that and two for the initial start, since a
request leads to at most two starts.

### DisplayBinding

One renderer and one display; the processes of the renderer are numbered by generation,
and each numbers its pools from 1, as the code does.  A task is a stack of lock sections,
as in `RendererLifecycle`.

| in the module | in the code |
|---|---|
| `disp` | `DisplayState` with its link: binding, wire generation, permit epoch, refused import |
| `out` | the channel of `DisplayOutEvent`s |
| `client` | what the client was sent and has still to answer |
| `proc`, `slot`, `attached` | handle of each process; lifecycle state and pending start; handle in the routing table |
| `sub`, `events` | the broadcast the event task listens to |
| `exits` | channel of `RendererProcessExit` |
| `tracking`, `pending` | entry of the renderer in `unbind_acks_pending`, and its pairs |
| `ops` | what has happened so far, of a member of `Scenarios` |

`Sync` is `sync_display` for one display; it stands in the stack wherever the code calls
it, and it does nothing while a negotiation is under way.  `Scenarios` are sequences of
disturbances (stop, clear, pause, restart, failed import, crash of the process, departure
of the display), a prefix of one of which happens, in any interleaving with the renderer.
Left out: layouts (`SetConfig`), pointer and power; of the negotiation only which pool may
be bound is kept.  The pair *failed import, restart* is not among the scenarios of the
run: a directive for the pool of the dead process can be taken for one of the new process,
since names repeat, and `SyncedAtRest` compares what the code compares (hazard at
`display/endpoint.rs:590`).

`SyncedAtRest` is stated for one display.  With two, of which one has refused a format, TLC
finds states at rest in which a display was not told the current pool: each task that
negotiates picks the scheme of any display (the code: "the last compatible per-display pick
currently wins"), and `last_dispatched_scheme` is recorded after the directive was sent, in
a section of its own (`renderer_manager/mod.rs:1475`).  A scheme picked for the one display
and recorded late closes the gate for the sync of the other, or opens it when nobody is left
to sync.  The run therefore has one display; `PermitFits`, `FrameFits` and `PendingLive`
are proved for any number (section 4).

### BridgePool

The other end of the release timeline: `src/bridge/src/pool.c`, linked into every
renderer process, and the loops of the image, video and glTF plugins that drive it.
A plugin is a single thread; an action is one lock section of the pool or one message
sent, so that deliveries, releases and a lost connection may come in between.  What
the daemon does with the frames is taken from `FrameRelease`, which `ReleaseReaper`
implements; the two modules thus cover the way of a buffer from the producer to the
displays and back.

| in the module | in the code |
|---|---|
| `gen`, `nSlots`, `nextSlot`, `lastPoint`, `point`, `lost` | `bind_generation`, `n_slots`, `next_slot`, `last_release_point`, `release_point`, `session_lost` |
| `acq` with `pc` = draw, send, commit | `pending_acquire`, `pending_submit` |
| `latest` | `latest_content_valid` with `latest_bind_generation` and `latest_slot_index` |
| `pc`, `call`, `scan` | where the thread is, and the offset of the search for a slot |
| `negotiated`, `submitted`, `frameReq`, `negPending`, `targetPending` | the plugin's `negotiated` or `ready`, `submitted_since_negotiate`, `frame_requested` or `frame_request_pending`, `neg_pending`, `target_pending` |
| `wire`, `up` | the socket with its two kinds of messages that matter here |
| `pubGen`, `latestFrame` | `published_pool`, `latest_frame` of the reader |
| `shown` | buffers that `sync_display` replayed to a display without making it a member |
| `buffer`, `intact` | history: the buffer of each point, and the one whose content is still what was sent |

`NegotiateInvalid`, `NegotiateNoMemory` and `Negotiate` are the outcomes of
`apply_directive`; `TargetRefused` and `TargetCommitted` those of a render target or,
for an image, of replaced content.  The search of `try_acquire` takes a step per slot
polled, because the timeline moves on meanwhile.  `SendFrame` and `Commit` are the two
lock sections of `submit_acquired_slot`.

Abstracted: back ends and layouts (an allocation succeeds or fails), pacing, decoding
and pausing (whether a frame is due is open), shortage of file descriptors, orderly
shutdown.  The candidate of a target is private to the thread until it is committed,
so drawing into it is no step.  `wait_acquire`, which only the image plugin calls, on
a pool just bound, never has to wait.  Drawing is finished, for the purpose of
`NoOverwrite`, when the frame was sent: from then on the acquire fence protects it.

### PlaybackControl

Two renderers and the tasks that command them.  A *wish* (`wish`: global pause, mute,
paused renderers and displays, disabled links) changes in one lock section; a *pass*
(`task[t]`: `reconcile_lifecycle_inner`) computes under the lock what every renderer
should do and which messages that takes (`todo`), and sends them afterwards under
`lifecycle_lock`.  `activity` is what the slot remembers, `proc` what the process was
really told; the two are what `CommandedAtRest` compares.  `resumeRetry` and `retrier`
are `resume_retries` and its task, `resume` the displays with `resume_frame_requested`,
`owed` is history: displays resumed that were not yet shown current content.

A renderer without a display is stopped by another component: `PlaybackAssumption` gives
every renderer a display, and makes both sets finite.

| in the module | in the code |
|---|---|
| `Settle` | the exit of a process, of which the listener is told: the event task and the retry of the renderer are aborted, wherever they are |
| `stale` | displays bound to the pool of that process, until the sync that follows |
| `Start`, `Spawn`, `Register` | a start by a request, or by the listener after an exit; the new process and its registration, the pass that is told of it, and the sync of its displays (`rebind`) |
| `misled` | history, see below |

Nothing holds an exit or a start back, and so two things happen that the code does not repair.
The event task of a renderer is aborted in the middle of a pass, and its messages for other
renderers are lost, though the slots count them as sent.  And a message decided for a
process, but not yet sent, is delivered by identifier to its successor, which starts out
differently.  `misled` is the set of the renderers such messages were for.  `PlaybackAtRest` says
that the damage is confined to them: the slots, by which the next pass decides, are right
all the same, every other process was told, and nobody else is owed a frame.  A later process
of a renderer is misled only if messages were left for it.

Left out: fades, messages about pause effects, stops; a start that fails or is overtaken
(`RendererLifecycle` has both), and displays that come and go.

### AutoPolicy

`facts`, `desktop` and `settings` are the inputs; `flags` what the router last knew of
the windows of each display; `rules` the `requested` contribution and `resume_at` of each
rule, `timer` the deadline of each source with its token; `effects`, `paused`, `applied`,
`stoppedRenderers` the results; `observation`, `toClient`, `fromClient` the exchange with
display clients about windows to be excluded, with its generations (a legacy client
answers for generation 0).  A writer of a fact runs `Refresh` in another section,
then `ReconcileLifecycle`, `ApplyAutoStop` and `Activate`.  That a delay passes is a
step, so there is no clock.  One policy holds for all displays: overrides per display,
and the registration of a display, are left out.

### RenderTarget

`demands` (declared capabilities, size needed, formats that failed) against the
coordinator: `queue` is `Coordinator` (desired, flight, applied, failed), `sent` and
`elapsed` stand for `RESIZE_DELAY`, `retry`, `retries` and `blocked` for what follows a
failure, `timer` for the deadline.  A pass is `Look` under the lock of the router, then
`Outdated`, `Blocked` or `Configure` under that of the coordinator, `Send`, `SetDeadline`.
`ask`, `answer` and `events` are the socket and the event broadcast, `pool`, `applied`
and `bound` the pool the reader has, the one the router has applied, and the display's.
Left out: the arithmetic of sizes, sends that fail, answers that do not fit what was
asked, lost events.

### RendererWriter

One process.  Of the optional events, audio goes through the slot of the latest window;
`mpris` stands for those that go through the queue.

| in the module | in the code |
|---|---|
| `channel`, `slot`, `wake` | the `sync_channel`, `audio`, `audio_wake_pending` |
| `thread` | the writer thread: where it is, its batch, the window it has taken |
| `call[t]` | a caller of `send_blocking`: waiting for room, or for the answer |
| `service` | the audio service between its read of the registry and `try_send` |
| `entry`, `listed` | the registry's entry; the handle in the manager's map |
| `wire`, `told` | messages the process has not read; the subscription it was last told of |
| `left` | how often the process asks, controls are sent, windows captured, and the process ends |

A write waits while the socket is full (`Fits`); this is what makes a stop wait for a
process that no longer reads (hazard at `renderer_manager/mod.rs:1811`).  Left out:
membership generations, the capture of audio, and the windows that end a stream.

### PlaylistCursor

The generator of random numbers is a free choice of an order or an item.  The indices
the code keeps are the places of the current item, so they are not kept.  `round` is
history: what forward steps have shown since a shuffled round began; the specification
of `next`, `previous` and `replace_items` is what `RoundFair` and `StaysInSync` say of it.
`Kept(s, items)` is the set of the sequences that keep the items of `s` still listed in the order
of their places; there is exactly one.  Definitions come from a set `SessionDefinitions`; that
their items are distinct, and that they have one of the three modes, is
`DefinitionsAssumption`.

### PlaylistEngine

| in the module | in the code |
|---|---|
| `session`, `owner` | `by_playlist`, `by_display` of `Engine`; a change of both, under `operations`, is a step |
| `saved`, `library`, `announced` | rows of the database; the answer of a smart query; the version last announced |
| `prefs` | `DisplayPrefs.active_playlist_id` by settings key |
| `events`, `pending` | the router's events, and `queue_pending` of the hotplug watcher |
| `mutation`, `op` | holder of `playlist_mutation`, and what each actor does |
| `refresher` | the loop that reads smart playlists without the lock and installs them later |

A display that goes away is dropped without `playlist_mutation`, and so may any
step of an actor meet it.

An apply may fail (`ApplyFails`, `RefreshFails`): the engine has changed, its lock is free, and what is
shown was refused.  The caller then returns before it writes the settings.  Displays of an
activation by the user or of an attach stay with the playlist without being remembered; those of an
activation by the watcher, which waits for a first frame, lose it again (`EngineDeactivate`), and
what the settings named before stays.  `unsaved` is history: for which display this happened
last.  `RemembersOwner` makes an exception for these, each in its own way (`Remembers`), and
for no others: a failed apply of one display does not part settings and owner of another,
and a later request that succeeds ends the exception.

The run makes two restrictions.  `SlowCall = FALSE`: the call of
the engine comes within the 100 ms for which the refresher waits after a change; a
slower one can install an older reading after a refresh.  Edits of kind `rename`, which the
module has, are not among the requests of the run: a rename raises the revision of a row
without changing its query, the refresher then drops what it read for the older revision,
and nothing asks for a new one, so `UpToDate` would not hold.  Both are consequences of
the code that nothing in the repository rules out.  Displays that are there at the start have
settings keys of their own (assumption `Apart`), as `Plug` sees to for those that come later.
Left out: the queue without a playlist, the rotation timer, the wallpaper history, errors of the
database while a request is prepared, and the restoration at the start, whose outcome is where
the behaviours begin.

### TaskManager

Records, tokens and keys are behind three locks; a call is a sequence of sections
(`caller[c].todo`), and so is the supervisor's work (`supervisor.todo`).  `reg.holder` is
who keeps the lock of the keys over several sections, as `spawn_async_once` does.  Each
of the calls that take a key has a key of its own.  Callers are finitely many (assumption
`TaskCallers`), so that the submissions under way can be counted.  Names, progress and events are
left out.

### SettingsStore

`memory` is a version and the members of the canvases; every change makes a new version.
`client[c]` is between a change, its mark in `dirty`, and its own flush, or between the
reading of a canvas revision and the edit; `flush[f]` is how far each flush is: of a
client, of the writer task, of the shutdown.  `Faults` are failing writes, crashes, and
`stop_writer` aborting the writer in the middle of a save.  `SavedWhenClean` speaks of a
running daemon only: an abort after the dirty flag was cleared leaves a change unsaved
and unmarked, the last flush finds nothing to do, and TLC shows it when the condition
`daemon = "running"` is dropped (hazard at `src/src/settings/store.rs:907`).  What the settings
mean, and the reconciliation of canvas sizes, are left out.

### DisplaySpawner

`Choose` registers the manifests in order and chooses; `Start`, `Spawn`, `ChildExits`,
`Restart`, `Stop`, `Shutdown` are the supervision loop.  Time passes in units of the
first delay.  Every operation of the file is an action; the process itself is external.

### SourceCatalog

One source plugin with one local library, a flat directory.

| in the module | in the code |
|---|---|
| `refresh[s]` | a run of `refresh_sources`: of the start, the watcher, a reload, or one of two tasks of the user |
| `catalog` | `SourceManager.catalog`, which every refresh replaces and then reads back |
| `refresh[s].stale` | the rows with `sync_at < seen_before`: those it will sweep |
| `rows`, `library` | items and library in the database |
| `scanning`, `watch` | `scan_in_progress`; `LibraryWatch` |
| `plugin` | generation and state of the plugin's runtime |
| `remover` | a removal between `get_entry`, the callback and `delete_item` |
| `files`, `copying`, `mounted`, `mtime` | the directory, external |
| `version`, `newest`, `tainted`, `leftAt` | history, for the properties |

A refresh is `Begin` (flag, libraries), `Scan`, `Publish`, `List`, `SyncBegin`, `Upsert` for
each file, `Sweep`; a refresh of the user that is replaced by another is dropped at one of its
awaits (`Abort`), while the thread that scans goes on and still publishes (`orphan`).
`CatalogAtRest` and `KeepsItems` make one exception, `tainted`, for what the code does not
order: a refresh that writes a listing older than its own or than one written already; one
whose scan failed, and which writes whatever it reads back; one that read the library as
registered and reads back a listing made while it was not; and one that registers a removed
library again by writing its entries.  `tainted` ends with the next refresh that writes a
current listing.

Assumptions on the environment: milliseconds pass between two syncs (`sync_at` and
`seen_before` are compared strictly); a copy ends before the watcher's second look after it,
as the comment of `observe` expects; the library is not mounted or unmounted between the
listing and the check of its root, nor between two looks; a file does not come back while it
is being removed; a cancelled refresh is dropped before its successor ends; the watcher has
looked once before the listing of the start.  A file that arrives between the listing of a
library just added and the first look at it is not shown (hazard at `watch.rs:29`): the mixes
of the run have no arrivals beside new libraries.  Left out: remote sources, several plugins
and libraries (whose refreshes differ in nothing but the rows they touch), auto-detection,
metadata and tags, and a refresh cancelled over D-Bus without a successor.

### MCServices, MCServicesLive and MCRendererLive

These services share no state that the modules name: the writer's socket, a playlist's
sessions, the settings' file, what renderers are told.  One run checks them all: a behaviour chooses
one of them (`part`) and runs it; the variables of the others are `Off`, or, for the
modules that are extended so that their theorems and properties are the very definitions the
run checks, at rest with nothing enabled.  Interleaving them would multiply the states and show
nothing, as no step of one reads what another writes.  The two modules for liveness do the same
with two machines; `MCServicesLive` runs the policy besides, whose safety is checked there,
without fairness of its own.

## 3. Runs

`display_binding` and `services_live` check for deadlock, with an explicit step for the
states in which a system rests or has stopped.  In the other runs the number of frames,
requests or changes is bounded and generations end (retired producer, exited reaper), so
states without successors are normal ends and the configurations say
`CHECK_DEADLOCK FALSE`.

| run | instance | shows |
|---|---|---|
| `reaper` | 2 frames; without faults 2 sessions (symmetric), one of which stays, and at most 2 records in flight, or with faults 1 session that may arm early, DRM failures, lost frames, a late timeline | `NoEarlyRelease`; `ResolvedOnce`; `WaitFactsMatch`: a display reported as blocking the renderer is withdrawn when it no longer does; `PrefixPublishedUnfailed`: without faults, completions in any order publish every complete prefix; `PoisonedForCause`: only a client that erred, or a failure, ends a generation; `ImplementsRelease`: refinement of `FrameRelease` |
| `lifecycle_pairs` | 2 handlers, 2 requests of any kind besides the initial start, deaths of the process | `OneProcess`; `TableIsSlot`; `InhibitHolds`: a stop decided is a stop |
| `renderer_live` | slot: 2 handlers, stop/resume, disconnect/reconnect, replacement; reaper: 1 frame, 2 sessions, one legacy; fair | `TransitionsSettle`: a slot leaves Starting and Stopping; `FrameReleased`: the frame is given back; `ReaperRetires`: the task ends with its senders |
| `bridge_pool` | the three plugins, 2 displays (symmetric), 2 slots, 2 pools, 4 frames | `NoOverwrite`: no slot is drawn into while a display uses a frame in it or the frame is on its way; `ReplayStable`: nor one a display was shown without being a member; `RepublishIntact`; `FrameInPool`: frames are attributed to their own pool; `KeepsReleaseOrder`: what the daemon sees is a behaviour of `FrameRelease` |
| `display_binding` | 1 display, 1 request at a time, 2 processes, 2 pools, 2 formats, 1 frame; nine scenarios | `SyncedAtRest`: in the end the display was told the current publication; `PermitFits`: no frame outlives what its permit was given for; `FrameFits`: the stream of a client is well formed; `PendingLive`: a stop waits only for acknowledgements that can come |
| `services` | see below | `RoundFair`, `StaysInSync` (cursors); `OwnersAreMembers`, `RemembersOwner`, `UpToDate` (engine); `SavedWhenClean`, `OneCanvas`, `FileGoesForward` (settings); `RunsBest` (spawner); `PlaybackAtRest` (`CommandedAtRest` and `ResumeShown` of `PlaybackControl`); `TargetAtRest`; `EventsFit`, `WriterAtRest` (writer) |
| `services_live` | 2 callers and 2 tasks, 2 clients and 3 changes, fair; the policy: 3 displays of 2 renderers, one a legacy client, 2 policies, up to 4 changes (139 000 of 405 000 distinct states) | `OnceExclusive`: work submitted once runs once; `ShutdownSettles`: shutdown ends, and leaves nobody running; `EventuallySaved`; `PolicyAtRest`: in the end exactly what windows, session and settings ask for is in effect |
| `source_catalog` | 1 library, 2 files (symmetric), 5 refreshes; seven mixes of 2 or 3 changes | `CatalogAtRest`: in the end the database shows what the directory has; `KeepsItems`: an item whose file stays is not deleted |
| `bridge_bind_failed` | image and video, 2 slots, 2 pools, 2 frames | a finding, section 5 |
| `lifecycle_resume` | 2 handlers, manual stops | a finding, section 5 |
| `display_unwaited` | 1 process, 1 manual stop | a finding, section 5 |
| `source_failed_scan` | 2 files, 1 refresh of the user; scans may fail | a finding, section 5 |

### Why the bounds are enough

*Reaper.*  One session that closes beside one that stays meets every combination of member
states, closes and worker states that a frame can have; a second frame adds what concerns
the order of frames: two buckets
changed by one `SessionClosed`, workers that complete in the wrong order, gaps.  (Both sessions
closing is in the run `renderer_live`, and in the theorems.)  The
bound of two records in flight still lets every pair of senders race; with faults, where only
one session gets frames (`Bystander`), the channels have any length.

*Lifecycle.*  Two requests race with each other, with the initial start and with the death
of a process; a request can leave behind at most a deadline, an orphan timer and a
pending start, all of which the other request and the listeners then meet.

*Pool.*  Two slots are enough for a slot in use beside a free one and for the search to
wrap around, two pools for the frames of one to overlap the message of the next, and four
frames for each slot of the second pool to be used twice.

*Display binding.*  Disturbances meet in pairs, in either order where the order makes a
difference, and each pair on top of the renderer's own activity: two pools per process and
two formats for a negotiation that replaces a pool under way, two processes for a
restart, one frame per pool for a replay that races with its event.

*Services.*  The run has about 1.65 million distinct states:

| part | instance | distinct states |
|---|---|---|
| cursor | 2 targets; playlists of 3, 2, 2 and 0 items in all modes | 2 500 |
| engine | 3 displays with 2 settings keys, 2 playlists, one smart, one user beside watcher and refresher; up to 3 requests, a change of the library, a failed read or apply, hotplug | 377 000 |
| settings | 2 clients, 2 canvases, 1 display, 2 changes; failed writes, crashes, aborts | 85 000 |
| spawner | 3 manifests, desktops, sessions, installed or not | 122 000 |
| playback | 2 renderers, 3 displays, one of them a lock screen; 2 changes, 1 death | 743 000 |
| target | 2 sizes, 3 formats, 3 changes with no or 2 with 3 failures | 139 000 |
| writing | queue of 1, socket of 2; mixes of up to 2 subscriptions, 2 windows, 1 message, 2 ends | 181 000 |

Of the policy's two renderers (`services_live`), which are alike, the first is the one of the
first display (`PolicyStarts`).  The mixes (`Mixes`, `Requests`, `TargetChanges`, `Traffics`) name what changes in the same behaviour: each
pair that touches the same state is in one of them.  Two clients and two flushes besides that of
the shutdown meet at each step of a save.  A third of a kind would do what the second
does: nothing in the code counts beyond "another one".  In the writer a queue of one is the
smallest that can be full when a wake-up is sent; the code's 64 are reached in the same way.
`AlreadyAsked` begins some behaviours after a first subscription, so that two windows and a second
subscription fit in the bound.

*Source catalogue.*  Five refreshes can overlap, one of each cause and two of the user, the second
replacing the first; two files are enough for one to stay while the other changes.  The mixes
bring together what meets at the same rows: arrivals and departures with refreshes of the
user and with a removal, a library coming or going with a refresh, a reload with a departure
or a removal, an unmounted library with a departure.

### Fairness

*ReleaseReaper.*  `select!` serves both channels of the reaper (two conditions), each
worker thread is scheduled, an endpoint works through its queue; of a client it is assumed
that it submits, signals and arms while it is connected, which the display protocol asks
of it.  Without that the frame is legitimately kept, and the reports checked by
`WaitFactsMatch` are the daemon's answer.  Nobody is obliged to close, to retire or to fail.

*RendererLifecycle.*  Every section of a running task ends: the lock is fair; spawn, the
wait for a child that was told to stop, and the wait for acknowledgements have timeouts;
reaping and timers happen.  One section has no timeout in the code: `stop_handle` waits
for the answer of the writer to its `Shutdown`, and the writer may wait for a process that
no longer reads its socket (`RendererWriter`, hazard at `renderer_manager/mod.rs:1811`).
`TransitionsSettle` therefore holds under the assumption that a process reads its control socket
until it ends.  Requests, deaths and the end of the orphan timer are not obliged to happen.

*TaskManager.*  Callers and supervisor go on, since their sections are a few lines under
a lock; a function submitted as blocking returns (an asynchronous one need not: it is
cancelled).  *SettingsStore.*  Clients mark what they have changed, flushes go on, the writer
wakes when notified; the live run has no faults.  Nobody is obliged to change anything.

The other modules state no liveness, but properties of the states in which nothing is
under way (`...AtRest`): whoever still had to act would make the state another one.

### Limits of what the runs say

`FrameReleased` is checked without DRM failures and without lost frames: with either the code
leaves a gap in the frontier that nothing closes until the generation ends (hazard at
`sync/reaper.rs:850`).  `TransitionsSettle` is checked without `restart`, because
`restart_renderer_orderly` returns with an error when the generation changed and leaves the
stop that it began unfinished.  The restrictions of `display_binding` (scenarios), of the
engine (`SlowCall`, `rename`) and of the settings (`daemon = "running"`) are stated with their
modules in section 2, and so are the exceptions of the engine (`unsaved`), of playback (`misled`)
and of `source_catalog`, and the assumptions of the latter; each stands for behaviour of the code for which the property
does not hold and which nothing in the repository rules out.

## 4. Theorems

Those of `ReleaseReaper` are of its `Spec`, for any set of sessions, any `MaxPoint` and any
combination of faults; the only assumptions are those named in `ReleaseReaper` (`MaxPoint \in
Nat`, legacy and rude sessions are sessions, the switches are Booleans).

* `TypeCorrect`: `Spec => []TypeOK`.
* `ReleaseSafe`: `Spec => []NoEarlyRelease`.
* `ResolveSafe`: `Spec => []ResolvedOnce`.
* `ReleaseRefines`: `Spec => ImplementsRelease`, that is, `ReleaseReaper`
  implements `FrameRelease`.

**The argument.**  A consumer is `Settled` when it needs nothing of the frame any
more: it never had it, skipped it, had its fence signaled, or its session closed
first.  `SettledStep` shows that settled is for ever.  `NoEarlyRelease` follows if
whoever is not waited for when a frame is dispatched is settled (`DispatchInv`), and
that in turn if in each bucket every member that is `Skipped` is settled
(`BucketInv`).  A `SessionClosed` turns *queued* members into skipped ones, though,
and there is a window in which the endpoint has sent `frame_ready` while the member
still is `Queued` in the bucket.  The close would then give a buffer away that the
GPU reads.  What saves the code is that `Delivered` and `SessionClosed` of one
session travel through one channel in this order; `FifoInv` says so: a delivery the
reaper has not seen is in the channel, behind the registration of its frame and
ahead of the close of its session.  `RegisterInv` (a frame registers once, and only
its recipients hold members) and `RecordInv` (a record tells the truth about its
sender) complete the invariant:

    ReleaseInv == TypeOK /\ RegisterInv /\ RecordInv /\ FifoInv
                    /\ BucketInv /\ DispatchInv

`UpdateInv` is the lemma about the shared tail of all records, one further lemma per
kind of step shows that the step keeps the invariant, and `ReleaseInvStep` puts them
together.  The refinement maps the frames published to `nextFrame - 1`, the pairs
still using a frame to the consumers not settled (`Using`), and the frames given
back to `nextPoint - 1`.  It needs `ReleaseInv` before and after a step: the
frontier passes only dispatched points nobody is waited for.

What the reaper *reports*, in the second half of `ReleaseReaper_proof`:

* `FactsTrue`: `Spec => []WaitFactsMatch`, which is inductive beside `ReleaseInv`.
* `PrefixComplete`: `Spec => []PrefixPublished`: without DRM failures the next point is never
  one that is complete.
* `BlameForCause`: `Spec => []PoisonForCause`.  The reaper poisons the generation when it reads
  an arm that fits no member, or whose fence does not exist.  `ArmInv` says, as long as the
  reaper runs, that a client which submits first gives it no such arm: a bucket goes on
  waiting for a session that holds the frame or owes its arm (`HeldInv`, `OwedInv`), and an
  arm in the channel is the only one of its consumer, with its fence submitted, behind its
  delivery and ahead of the close of its session (`ArmedInv`). `CauseInv`: without DRM
  failures no worker poisons.

* `PrefixCompleteUnfailed`: `ReaperSpec => []PrefixPublishedUnfailed`, and
* `BlameForCauseAlways`: `ReaperSpec => []PoisonedForCause` say the same of what the run `reaper`
  checks: a behaviour of `ReaperSpec` keeps to one of two sets of restrictions, one without
  faults, one with them, and is a behaviour of `Spec` either way.

**RendererLifecycle.**  For any handlers and any number of requests:

* `TypeCorrect`: `Spec => []TypeOK`; a slot has a generation exactly while its state has one.
* `OneProcessAtATime`: `Spec => []OneProcess`.
* `TableHoldsSlot`: `Spec => []TableIsSlot`.
* `InhibitedAtRest`: `Spec => []InhibitHolds`.

The sections of a chain know little of each other: each looks at the slot again, and acts on
what it finds.  The invariant follows one generation from the decision to spawn it to the
settlement of its exit.  `WorkInv`: a section finds its process in the state it expects, a
process is brought up by one task and awaited by one, an exit in the channel is of a dead
process, and the manager's map holds the one that is up.  `ClaimInv`: at most one generation
has a process or is about to be spawned, and it is the slot's unless the slot was
removed.  `StartInv` and `StartingInv`: a slot that is Starting has a task that brings its
process up, or a process whose end will be heard.  `EndInv`: what a task is to stop is being
stopped, or is no longer the slot's. `InhibitInv`: when a renderer runs against a stop, some
task has a section left that will stop it.

**DisplayBinding.**  For any displays, requests and scenarios, any number of processes, pools,
frames and formats (`TaskNames`, `Kinds`, `Bounds`):

* `BindingTypeCorrect`: `Spec => []TypeOK`.
* `PermitsFit`: `Spec => []PermitFits`.
* `StreamWellFormed`: `Spec => []FrameFits`.
* `AcksLive`: `Spec => []PendingLive`.

Which task syncs, and when, does not matter for these: the invariant is about the stream of
one display alone (`StreamFits`), to which the router appends under its lock and from whose
front the frame loop takes.  `Dated`: every message was sent under an epoch and a wire
generation given out before.  `Permits`: a frame with the current epoch names the current
binding; it holds because whatever changes the link or the binding, or hears of a failed
import, takes a new epoch in the same section (`Invalidates`, `FailureInvalidates`,
`BringFits`). `Chained`: each message fits the one before it, the first of them what the
client is shown, and the binding the last; so the frame loop may take any of them
(`TailFits`). `Ordered`: frames of a binding come in order and none after the one noted in it,
which is what makes the replay and the event of the same frame one.  `ShownAt`, in which
`FrameFits` is stated, looks back for the last message that is not a frame; that it is what
`Chained` follows from the front is shown by the least place at which it would not be
(`Least`). `AckInv` follows an unbind from the channel to the client.

**BridgePool.**  For any subset of the plugins, any displays and any size of pool, any
number of pools and frames (`KindsAssumption`, `BoundsAssumption`):

* `BridgeTypeCorrect`: `Spec => []TypeOK`.
* `BridgeSafe`: `Spec => []NoOverwrite`.
* `BridgeReplaySafe`: `Spec => []ReplayStable`.
* `RepublishSafe`: `Spec => []RepublishIntact`.
* `FrameAttributed`: `Spec => []FrameInPool`.
* `BridgeKeepsOrder`: `Spec => KeepsReleaseOrder`.
* `BridgeCorrect`: `Spec => []BridgeInv`, on which they rest.

A slot may be drawn into when the timeline has passed its last point; that says
something about the displays only if every frame that lies in the slot has a point at
most as large (`SlotInv`), and if every point in use or on the wire is beyond the
timeline (`OrderInv`, `WireInv`).  `AcqInv` carries the result of the poll to the end
of the drawing.  Frames do not name their pool.  `PoolInv` says why the reader still
gets them right: of the messages on the wire each frame lies behind the message of its
own pool and ahead of that of the next, and no pool is missing between the one
published and the current one (`HeadFact`).  In the same way all points sent and not
delivered are on the wire, so the next to arrive is the successor of the last
(`NextPoint`), which is what `FrameRelease` asks of a publisher.  `ContentInv` ties
the pool's idea of its latest content to the memory.  `ReplayInv` adds why a replay
is safe without a release: only the image plugin is replayed, what was replayed was
delivered, and that plugin draws only into pools that hold no frame yet.

**PlaylistEngine.**  `OwnersAgree`: `Spec => []OwnersAreMembers`, for any displays, keys,
playlists and users, any number of requests and both values of `SlowCall`.  The
invariant is `EngineInv == TypeOK /\ OpsNameTheirs /\ OwnersAreMembers`.  Each of the
engine's own changes keeps the agreement by itself (`DeactivateKeeps`, `ActivateKeeps`,
`AttachKeeps`, `EndKeeps`, `RebuildKeeps`); what the invariant adds is that the requests
under way name a playlist and, when they take displays, at least one
(`OpsNameTheirs`), whatever happened between their reading and their call.

* `OwnerRemembered`: `Spec => []RemembersOwner`.
* `SessionsUpToDate`: `Prompt /\ Spec => []UpToDate`, where `Prompt` excludes what the run
  excludes, too (section 2): calls that come late (`SlowCall`) and edits of kind `rename`.

Both speak of states in which nothing is under way; their invariants say who will still act in
the others. `RememberInv`: for a connected display the settings name the owner, or the last
apply for it failed, or a call already made is about to remember it, or the display has no owner and the list was edited, or
its arrival is queued, or it is pending, or the watcher is taking it (`FollowInv`).  `LockInv`,
`ReadInv` and `DoneInv` say what the holder of `playlist_mutation` may rely on before its call
and after it, `EventInv`, `KeyInv` and `FreshInv` that queued events tell the truth, and that
no two connected displays share a key. `ServeInv`: while nothing is announced since the
refresher woke, whatever requests and refresher have read is current, and a smart session
shows it, or an edit is at its call, or the refresher has a ticket for it that it will use, or
it is marked as failed without one (`ItemsInv`); a session has the form that is saved, or an
edit is about to give it that (`FormInv`).

**TaskManager.**  For any finite set of callers, any number of tasks and any capacity:

* `TaskTypeCorrect`: `Spec => []TypeOK`.
* `OnceExclusively`: `Spec => []OnceExclusive`.

A task is with one party at a time: the caller that submits it, the channel, or the join set
(`PlaceInv`, `ChannelInv`), and what the supervisor takes down is nowhere else, except while
it cancels what runs (`SupervisorInv`).  Until it is cancelled, a task in the channel or the
join set has its token and is recorded as running (`FitInv`), blocking ones excepted.  Who is
in `spawn_async_once` holds the lock of the keys (`HoldInv`), so that of two tasks of the key
one is cancelled, or a caller has yet to write the key of the second and found the first ended
(`OnceInv`).

**SettingsStore.**  For any number of clients and changes, any canvases and displays, and
every subset of the faults:

* `CleanIsSaved`: `StoreSpec => []SavedWhenClean`.
* `CanvasIsOne`: `StoreSpec => []OneCanvas`.
* `FileForward`: `StoreSpec => FileGoesForward`.

They rest on one inductive invariant:

    StoreInv == StoreTypes /\ LockIsHeld /\ Saving /\ Versions /\ CleanIsCopied /\ CanvasesApart

The flag is cleared before the settings are copied.  `CleanIsCopied` is what that order buys:
while it is clear, and nobody is between a change and its mark, whoever has copied the
settings has the last version, and if nobody is at it the file has.  `LockIsHeld` (only the
holder of the lock is past it) and `Versions` (file, copies and memory are ordered) make the
file go forward; `Saving` says that a client that saves does nothing else.  An abort of the
writer in the middle breaks `CleanIsCopied`, which is why it speaks of a running daemon.

**RendererWriter.**  For any set of callers, any size of the queue but none
(`CapacityAssumption`; the code's is 64) and of the socket, any subscriptions and any traffic:

* `WriterTypeCorrect`: `WriterSpec => []WriterTypeOK`.
* `EventsFitAsked`: `WriterSpec => []EventsFit`.
* `NobodyForgotten`: `WriterSpec => []WriterAtRest`.

`EventsFit` needs to know what the process *will have been told* when it has read what is on the
socket (`LastTold`, `EverTold`).  `StreamInv`: that is what the registry holds, except between
the writing of an acknowledgement and its commit; a command the writer still has to write is of
a kind the process asked for at some time; and a window was checked against the registry, and
is written before the next message.  For the second, `WakeInv`: a window in the slot has a
wake-up that is set or about to be, and a wake-up that is set has a message in the queue behind
it or a writer that will clear it and look again; which is what clearing *before* taking buys.
`AnswerInv`: who waits for an answer has its command in the queue or in the batch.

**RenderTarget.**  For any sizes, formats, tasks, changes and failures (`TargetAssumption`):

* `TargetTypeCorrect`: `TargetSpec => []TargetTypeOK`.
* `LastTargetDrawn`: `TargetSpec => []TargetAtRest`.

There are four owners of the truth: what the displays want, what the coordinator desires, what
the process has, what the display is bound to.  `WireInv`: one request is under way, and it is at
one place (a task about to send it, the socket, the answer).  `LookedInv`: the task that configures
the coordinator does it with what is wanted *now*, or another pass is still to come.  `WantedInv`:
if none is, what is wanted is blocked, or desired by the coordinator, and then drawn already or
waited for by a deadline. `BoundInv`: the display is bound to the pool there is, or an event
is unread that will bind it.

**PlaybackControl.**  For any finite sets of renderers and displays, each renderer with a display
(`PlaybackAssumption`), any lock screens, requesters, wishes and number of changes and exits:

* `PlaybackTypeCorrect`: `PlaybackSpec => []PlaybackTypeOK`.
* `LastWishDecided`: `PlaybackSpec => [](PassesDone => \A r \in Renderer : activity[r] \in
  {"none", Target(r)})`.
* `LastWishCommanded`: `PlaybackSpec => []PlaybackAtRest`.

There are as many messages under way as passes have decided, and what they bring about must be
what the *last* pass decided.  `DecidedInv`: unless some pass has still to decide, every slot says
what is wished; each action that changes a wish, a binding or a frame leaves a pass to come, and
the exit of a process that cuts one short starts another.  `LockInv`: one task at a time has
messages to send or sends a retry, the holder of the lifecycle lock, so a decision always meets
processes that were told all earlier ones.  `ToldInv`: what is still to be sent to a renderer
agrees with its slot, and a process that has nothing to be told does what its slot says.
`RetryInv`: only a renderer whose process is dead is retried, and its exit will be settled, so no
retry reaches a successor.  `StartInv`: one task at a time starts a renderer, whose slot is
`none` until it registers; `FreshInv`: until then nobody tells the new process anything, and
the pass that knows of it will (`Greeted`).  `PoolInv`: a display is bound to the pool of the
process that runs, or that process has exited and the sync that unbinds it is next.  `OwedInv`: a
display that is owed a frame will be asked for, or was asked for by a pass that has its renderer
still to ask, or has nothing to show (`Excused`).

`ToldInv`, `RetryInv`, `FreshInv` and `OwedInv` except the renderers that are misled, and each needs
to: a pass cut short by an exit loses messages its slots count as sent (`mod.rs:1631`), and
there `Obeys` is false.  That the exception does not spread is `UnsentFact`: who is not named by a
message still to be sent loses nothing with the task that has it, and gets none by mistake.
`DecidedInv` has no exception.

**PlaylistCursor.**  For any targets and any definitions (`DefinitionsAssumption`):

* `RoundsAreFair`: `CursorSpec => []RoundFair`.
* `SyncStays`: `CursorSpec => StaysInSync`.

A cursor *fits* a definition (`Fits`) if its order names every item once (in shuffle mode; it is
empty in the others), its current item is listed, what the round has shown is listed, each once,
and lies in the order at the place of the current item or before it.  The last is what makes a
step forward show a new item (`RoundGrows`), and it is the reason why an edit must keep the
order of what stays: `KeptOrder` shows that what stays followed by what is new is an order of the
new items, and that no place overtakes another in it.  In the middle of an edit a cursor may have
lost its item (`Half`); that it gets another before the edit ends, and that in a synchronized
session it is the item of the others, is `ReconfiguredFits`.

**SourceCatalog.**  For any files, mixes and numbers of changes, with or without failing scans:

* `CatalogTypeCorrect`: `Spec => []TypeOK`.
* `ItemsKept`: `Spec => KeepsItems`.
* `FlagIsCleared`: `Spec => [](AtRest => ~scanning)`, the first half of `CatalogAtRest`.
* `CatalogIsRight`: `Spec => []CatalogAtRest`, *if every mix is steady*.

`ListInv` says what a listing is worth: it carries the version of the directory it was made of,
and what it names and did not leave since is there.  `CoverInv` is the heart of `KeepsItems`: a
listing by which a refresh will still write and sweep has every file that is in another listing
not newer and did not leave; so whatever order refreshes overlap in, one that is not overtaken
(`newest`) writes a row again before it sweeps.  `RowInv` and `WriteInv` relate rows, and those a
refresh means to sweep, to listings.  `RestInv`, for the end: what nobody has listed is what the
watcher will see, or has seen and marked for another look (`Pending`), or what a refresh that
nobody will cancel has listed, or will (`Coming`).

*Steady* mixes have the library registered all the time, and files are not removed where the
file system may be unmounted.  Both conditions are needed.  With libraries coming and files
arriving TLC finds the hazard at `watch.rs:29`; with removals and an unmount the plugin finds
no file to delete in the unmounted directory, the row is deleted after the file system is back,
and nothing looks at the file again.  The run has the library come and go (without arrivals), and
removals apart from unmounts: there `CatalogAtRest` is checked, not proved.

**What the theorems cover of the runs.**  Thirty-two of the properties that the passing runs
check are theorems: `NoEarlyRelease`, `ResolvedOnce`, `WaitFactsMatch` and `ImplementsRelease`
of the reaper; `OneProcess`, `TableIsSlot` and `InhibitHolds` of the lifecycle; `PermitFits`,
`FrameFits` and `PendingLive` of the display binding; `NoOverwrite`, `ReplayStable`,
`RepublishIntact`, `FrameInPool` and `KeepsReleaseOrder` of the pool; `OwnersAreMembers`,
`RemembersOwner` and `UpToDate` of the playlists; `OnceExclusive`; `SavedWhenClean`,
`OneCanvas` and `FileGoesForward` of the settings; `RoundFair` and `StaysInSync` of the
cursors; `PrefixPublishedUnfailed` and
`PoisonedForCause` of the run `reaper`; `EventsFit` and `WriterAtRest` of the writer;
`TargetAtRest` and `PlaybackAtRest`; `KeepsItems` and, for steady mixes, `CatalogAtRest` of the catalogue.  The theorems about types, and
`BridgeCorrect`, are about what no run repeats.

The libraries' induction theorems take an operator as a parameter, which the provers cannot
instantiate.  Where a proof has to go through the elements of a sequence or of a set of
numbers one by one, it takes the least or the last that would be wrong (`Least` in
`DisplayBinding_proof`, `Greatest` in `RendererControl_proof`).

**Only model-checked:** the liveness properties (the prover has no rule for fairness);
`SyncedAtRest`, which holds for one display only; `RunsBest`, whose choice is a fold over the
manifests, so that nothing general can be shown of it without induction;
`PolicyAtRest`, whose invariant would have to say of every reconciliation under way what it
still owes; and `CatalogAtRest` for mixes that are not steady.

## 5. Findings

Each is a run that TLC ends with a counterexample; `PROJECT.json` quotes the line of
the repository that says otherwise.

* `ResumeServed`: `reconcile_assignment_activation` decides under one lock what to
  stop and stops it under another.  Stop and resume in quick succession: the stop
  of the first is carried out after the start of the second was requested.  The
  display is linked, nothing is stopped, and the renderer stays `Stopped`.
* `BindFailedSurvives`: a first negotiation whose dry-run allocation fails ends the
  video renderer, although the daemon was just told with `bind_failed` to choose
  another format.  The image plugin survives that, but when a later negotiation fails
  it keeps `negotiated` without having a pool, and the next frame request ends it.
* `StopAfterRelease`: `begin_retained_stop` decides on the stop in one lock section and
  arms the tracking of unbind acknowledgements in a later one.  The sync of another task
  unbinds the display in between; that unbind is not recorded, and the process is shut
  down while the display still uses its buffers.
* `FailedScanKeepsItems`: a refresh remembers that a scan failed, and goes on to write what it
  has.  For the plugin that failed this is nothing, its library is there, and so every item of
  the library is deleted, from the playlists, too.  A comment next to the scan says that a
  failure must not be presented as a scan that found nothing.

Behaviour that a reader may find as surprising, but that nothing in the repository
contradicts, is listed under `hazards` in `PROJECT.json` with a note: among others a deadline
cancelled by key instead of token (`routing/router/lifecycle.rs:463`), the session end
reported to the reaper of an older process only (`display/endpoint.rs:590`), the pass cut
short by an exit (`routing/router/mod.rs:1631`), the change lost by an aborted save
(`src/src/settings/store.rs:907`), and the stop that waits for a process which does not read
(`renderer_manager/mod.rs:1811`).

## 6. Plan

Done: release path (reaper, pool, refinement), lifecycle, display binding, playlists, tasks,
settings, spawner, playback control, automatic policy, render targets, control channel, the
catalogue of local wallpapers.
What is left, in this order:

1. Two processes of one renderer in `ReleaseReaper` and `RendererWriter`: sessions of a display
   reported to an older reaper, commits of a subscription that reach a successor.
2. **RoutingTable** and **Negotiate**: pure operators against reference definitions (at
   most one enabled link per display; the format chosen is one both sides have, and the
   first in the order of preference).
3. The queue without a playlist and the rotation timer (`rotation.rs`, `queue.rs`);
   the publication of remote assets and the coalescing of downloads (`remote_asset.rs`).
4. Per-display overrides and the registration of displays in `AutoPolicy`; canvas
   projections in the assignment of wallpapers.
5. Theorem: `PolicyAtRest`.

## 7. Not modelled

The code base is large, and much of it holds no state whose order matters: codecs
(generated, byte level), geometry (floating point), SQL queries, plugins and their
Lua runtime, D-Bus and audio adapters, the websocket API with its mapping of requests, and
the Qt interface; a large part of the lines of the modelled files are tests, records for
the interface, or logging.  All of it is listed as `not_modelled` in `PROJECT.json`, or
named in the note of a component that is modelled in part, with the reason.

Time is modelled as the possibility that a delay has passed.  Memory, file descriptors and
back-pressure of the operating system are not modelled, except for the control socket of a
renderer (`RendererWriter`).  Channels are unbounded in the code, with two exceptions: the
queue of the writer, which is bounded in the model, too, and the broadcast of renderer
events, whose loss is `FrameLoss` in `ReleaseReaper` and is left out elsewhere.

# A TLA+ model of seoul-terminal

seoul-terminal is a terminal application (`seoul-terminal`) whose shells live in a
daemon (`seoul-daemon`), so that they survive the application. The two talk over a
Unix socket in the protocol of `seoul-terminal-proto`. `seoul-workspace` holds the
workspace model, its persistence, the settings and the access to git and GitHub,
`seoul-vt` wraps the terminal emulator. This directory models the parts in which the
order of events matters, checks them with TLC on small instances and proves theorems
about twenty-two of its modules with TLAPS. Paths below are relative to `src/crates/`.

## 1. Inventory

### The daemon

| component | state | operations | what makes it correct |
|---|---|---|---|
| session registry: `seoul-daemon/src/host.rs`, `session.rs` | the sessions map; of each session its status, attached clients, kill task, PTY threads, event channel | create-or-attach, ensure, write, kill, detach, drain, reap, prune, shut down | one shell per session id, ended only by an exit or a kill; input and output of a client belong to the same shell |
| scrollback: `scrollback.rs`, `save_meta` | `meta.json` and the scrollback file of each session | open, append, truncate, remove, load | what a cold restore decides from and replays agrees with what happened |
| connections: `server.rs` | read loop, write handles, writer task, socket lock, event channel | one request at a time; forward events | whole frames, in order, no lock kept, no request without an end |
| pipeline: `session.rs`, `server.rs`, `host.rs` | the bounded channels from the PTY to the socket | blocking send, drain under the host lock, try_send, drop and disconnect | a slow end slows nobody else; order is kept whatever is dropped |
| lifecycle: `main.rs`, `lock.rs` | lock file, socket, token, PID file | start, signal, end | one daemon, which can be reached; a crash never blocks the next start |
| shell readiness: `shell_readiness.rs` | matched part of the marker, held bytes, buffered input | scan, buffer, time out | no output and no input is lost, whatever the chunks |
| mode tracker: `mode_tracker.rs` | parser state, modes, cwd | process, rehydrate | a re-attached terminal is in the modes the shell set |
| PR poller: `pr_poller.rs` | registrations, due times, backoff, last results | register, unregister, focus, refresh, poll | the cards show the last known state of registered workspaces |
| resources: `resource_monitor.rs`, `process_info.rs` | a cached snapshot | snapshot | display only |
| `transient_errors.rs` | a window of times | record | at most 50 errors in 60 s are ignored |

### The application

| component | state | operations | what makes it correct |
|---|---|---|---|
| daemon client: `seoul-terminal/src/daemon_client.rs` | socket, pending requests, session senders, outgoing queue | connect or spawn, hello, reconnect, request with a timeout, route, coalesce | an app has a daemon; a view misses only what the daemon dropped; input keeps its order |
| tabs and panes: `app_view.rs`, `pane.rs`, `pane_group.rs` | workspaces, tabs and their sessions, panes, focus, pending attaches | create, close, reopen, split, select, restore, reattach, delete | what is pending comes to rest; no pane with tabs is lost |
| terminal view: `terminal_view.rs` | size asked and acknowledged, buffered data, pressed buttons, timers | resize, acknowledge, time out, attach, drain, mouse, keys, IME | element, grid and PTY agree in the end; one attach is shown, in order; a program sees the release of what it saw pressed |
| rendering and emulation: `terminal_element.rs`, `terminal_render_cache.rs`, `seoul-vt/src` | content, dirty rows, painted runs, selection, link tracker (the engine is external) | feed, scroll, resize, select, paint | what is copied is what was printed; a link opens its own target |
| git panel: `git_state_provider.rs`, `git_panel_view.rs`, `seoul-workspace/src/git` | last state, refreshes underway, cache, busy flag | refresh, watch, stage, commit, parse | the panel catches up with the repository and lists what changed |
| workspaces: `seoul-workspace/src/workspace.rs`, `persistence.rs`, `worktree.rs` | projects, workspaces, `state.json`, worktrees | add, create, delete, save, load | what was saved stays, over crashes |
| settings: `settings.rs`, `settings_view.rs` | files of user and projects, what was read, what is in effect, open edit | poll, resolve, edit, commit, reset | what is in effect is what the files say |
| editor and text field: `editor_view.rs`, `editor_buffer.rs`, `text_input.rs` | text, cursor, anchor, marked range | move, select, edit, compose, load, save | every place is in the text and between two characters |
| resource indicator: `resource_indicator.rs` | pending request, history | ask, receive, time out | an answer lists who is alive |
| file tree, diff view, branch input, syntax, widgets, theme | - | - | presentation |

### How they interact

An app connects to the socket, or spawns a daemon and waits for its socket; it reads
the token from a file and says hello. Per connection the daemon runs a **read loop**
(one request at a time) and a **writer task** (events); both write to the socket
behind one lock. The requests take the **host lock**; a spawn loads metadata and
scrollback from disk *between* two holds of it. Each shell has a reader **thread**,
which sends into a bounded channel and is parked while it is full, and a writer
thread behind another bounded channel. Every 16 ms the **maintenance task** tries the
host lock and drains the channels: scrollback, clients (`try_send`), exits. A Kill
starts an **escalation task** (SIGTERM, SIGKILL, forced exit). Only files survive a
crash: metadata, scrollback, lock file, socket, token.

What is hard: decisions taken before the disk phase and used after it; write handles
cached per connection; three sources of exits; five channels and two locks in a row;
the end of one of the two tasks of a connection; files removed at the paths of other
processes; crashes between any two system calls; waits that time out. `PROJECT.json`
lists the hazards at their lines.

## 2. Modules

### The daemon and its connections

| module | models | lines up with the code |
|---|---|---|
| `TerminalHost` | session registry, connections' requests, scrollback and metadata | one action per arm of `client_read_loop`, per event of a reader, per stage of the escalation task, per kind of maintenance tick; `SpawnInner` is `DaemonSession::spawn` with the insert of `spawn_inner`; `ObjectAfter` and `DirAfter` are what a drain does to a session and to its directory |
| `DaemonPipeline` | every wait from a PTY to a client | a step is what runs between two awaits; `hostLock`, `sockLock` are the two mutexes, `events`, `chan`, `ptyQueue`, `sock` the channels |
| `DaemonStartup` | daemon processes and apps around lock file, socket and token | a step is one system call on one of the three files; `app[a].at` is the place in `connect_or_spawn` or in the health check |
| `ShellReadiness` | marker scan, timeout, filter of stale answers | `OnPtyData` is one read through `ScanOutput`, as a fold over its bytes; `held` are the bytes of a marker that may yet break off |
| `ModeTracker` | the byte machine of the modes and the rehydration | `ParseByte` is one arm per parser state, `Processed` one read; `unlimited` is the same machine without a length limit, the reference |
| `PtyLoops` | reader and writer thread of a PTY with their error windows | `ReadFails`, `ChunkFails`, `FlushFails` are the error arms; `Recorded` is `TransientErrorWindow::record` |
| `Scrollback` | file, ring, truncation, replay | bytes are their numbers in the output, so that a replay can be compared with it |
| `PrPolling` | the poller's task, its two lossy channels, the app's cards | `HandleCmd`, `Tick`, `PollOne` are the arms of `PrPoller::run`; the network's answer is any of `Outcomes` |
| `ResourceSnapshots` | the daemon's snapshot cache and the client's indicator | `CacheAges` is the end of the time to live, `TimesOut` that of the request |

### The application

| module | models | lines up with the code |
|---|---|---|
| `OutgoingWriter`, `InputOrder` | the client's writer thread, and what it promises | `Coalesced` is `coalesce_outgoing`; `KeepsOrder` is the specification of `InputOrder` under a refinement mapping |
| `SessionRouting` | one connection for one session, both ends: attach calls with timeouts, senders and the reader thread of the app; the read loop, the bounded client channel and the writer task of the daemon | `OnData`, `OnExit`, `OnAnswer` are the arms of `reader_loop`; `ShellWrites` is the broadcast of `on_pty_data` (`try_send`, drop, let go), `LoopSends` and `WriterSends` are the two tasks that take the socket's lock |
| `TerminalResize` | element, grid and PTY sizes | debounce and acknowledgement timers by their epochs; `DaemonResizes` is the daemon's side, for a resize that succeeds |
| `TerminalInput` | mouse, links, selection, keys, IME | one action per handler of the view |
| `ViewTimers` | cursor blinking, scrollbar fading | detached timers are records with the epoch they were armed in |
| `TerminalFeed` | bootstrap and batches of the data drain | `Takes` and `Feeds` are the two halves of a batch, before and after the await |
| `TerminalScreen` | content, dirty rows, wraps, links, selection, paint | the engine's lines are made from what is printed (`VtWrite`, `pen`, `pin`), the wrapper's reads of them are the model; a resize sets the columns and wraps the lines anew (`Reflowed`), the copied rows stay until the next `Sync`; the points of a row are put in order by their rank (`InOrder`) |
| `TabSessions` | tabs, sessions, attaches underway, reconnects | an attach is a record that goes through queued, sent, answered; `ProcessHandle` is the next frame |
| `PaneLayout` | trees of splits and the focused pane | a tree is a function from the paths of its leaves to panes; `Without` moves the siblings of a closed pane up to its parent, as `pane_group.rs` collapses a split of one |
| `WorkspaceStore` | projects, workspaces, `state.json`, worktrees | a save is a write to a temporary file and a rename, with crashes between |
| `SettingsStore` | settings files, polling, resolution, the view's edit | `Depending` are the scopes that a changed file has to resolve anew; a write of `update_content` may fail (`WriteFails`), or be overwritten before its time is read (`WritesContent`); `diverged` remembers the targets of which memory and the file seen are not the same by such a write |
| `GitPanel` | refreshes, cache, operations, busy flag, workspace | a state of the repository is a number; a refresh is computed and delivered apart |
| `GitStatus` | `compute_status` and its parsers | every git command is a reading at a moment of its own; a path is a sequence of words, an entry one of fields and words (`EntriesOf` are those that are no old path of a rename); `RenameLine` is a rename in numstat, with the braces git prints |
| `EditorView`, `TextInput`, `Utf8Text` | editor tab, text field, and their texts | a text is the sequence of the widths of its characters, a place a number of bytes; `Utf16ToByte` is what input methods' offsets are converted by, `laidOut` the text of the last paint, which a click is looked up in |

The theorems are in modules of their own: `TerminalHostProofs`,
`DaemonPipelineProofs` and `DaemonStartupProofs` about the module of their name;
`BackgroundProofs` about `ResourceSnapshots`, `Scrollback`, `ShellReadiness`,
`ModeTracker`, `PtyLoops` and `GitStatus`; `ClientProofs` about `OutgoingWriter`, `InputOrder` and
`SessionRouting`; `TerminalViewProofs` about `TerminalResize`, `TerminalInput`,
`ViewTimers`, `TerminalFeed` and `TerminalScreen`; `WindowProofs` about `TabSessions`,
`TextInput`, `EditorView` and `PaneLayout`; `WorkspaceProofs` about `WorkspaceStore` and `SettingsStore`. `MCTerminalHost`, `MCDaemonStartup`, `MCEditorView` and
`MCTerminalScreen` are instances of one module; `MCBackground` and `MCWindow`
bring together the smaller ones.

**TerminalHost.** Every `DaemonSession` ever spawned is an *incarnation* of its
session id. `sessions` points at one of them or at none; an object that was replaced
or reaped is dropped, its shell and threads may run on. Output is abstracted to the
incarnation that produced it, so the scrollback file is a set of incarnations.
`linked` tells whether the file an object appends to is still the one at the path
(`cleanup_on_kill` removes it under the open writer). Exit codes are kept as their
sign, which is all a cold restore looks at. A drain takes all that is queued, in
order, and what readers refill meanwhile (`DaemonPipeline` follows that refill), so
its outcome depends on the last exit event, `last`, and on which clients are stalled.
Left out: sizes, cwd and process info; the readiness gate that sends input of a young
shell by another path to the same PTY queue; `Resize`, `Signal` (its effect is
`ShellSignalled`), `ListSessions` and `Ping`, which leave this state alone. Files are
written in one step: a crash in the middle of a metadata file is not modelled, nor is
a failing disk.

**DaemonPipeline** takes sessions as spawned and follows the waiting. A frame is two
halves in the socket. `list` stands for the three requests that answer while they hold
the host lock, `attach` and `detach` for those that do not, `write` for input on the
lock-free path. The last event of a shell is its exit.

**DaemonStartup** gives each daemon process the steps of `main`, in order. A process
slot may be used again once its process is gone. A lock file is an inode; opening the
path again after it was removed gives a fresh one. `slow` counts the times an app's
wait ends *before* what the daemons were in the middle of: startup and the removal of
the runtime files take milliseconds, the waits are 200 ms and 3 s. The flush of the
sessions after the lock is dropped may take any time. Left out: the PID file, which
nobody reads, and a `spawn_daemon` that fails.

**What is external** is modelled by how the code uses it: the terminal engine
(`libghostty-vt`) prints characters, wraps lines and marks rows dirty; git commands
answer from the head, the index and the worktree at the moment they run; the hosting
service answers a poll with a pull request, none, or an error. The daemon is under `src/`;
`TabSessions` and `TerminalResize` see it as one that serves what it is asked, later.

**The end of a connection** in `DaemonPipeline` (`LoopEnds`) is the client's hang-up.
The `Shutdown` request and malformed frames end the read loop too, in the same way and
at the same places, and are not told apart; a daemon that goes down is in `DaemonStartup`.

## 3. What is checked

| run | instance | shows |
|---|---|---|
| `host_race` | 2 connections, 1 session, 2 incarnations, channel 1 | `HostInv` (the inductive invariant: types, map, metadata, files) and `TypesWhereItReads` in every order of attach, ensure, write, kill, detach, exit, reap and respawn |
| `host_restart` | 1 connection, one restart, one week | `MetaMirrorsHost`, `ShownIsOnDisk`, `AliveStaysMapped` across crash, graceful shutdown and pruning |
| `host_kill_live` | 1 connection, channel 2 | `KilledLeavesNoScrollback`; `KillEndsSession` under fairness |
| `pipeline` | 2 connections, 1 session, all channels of 1, 3 events | `FramesWhole`, `EventsInOrder`, `LocksAreHeld`, `RequestsEnd`, `ReadersResume` |
| `startup` | 2 apps, 3 processes, 2 crashes or failing removals, 2 shutdowns | `ServingIsReachable`, `StartsAlone`, `LostIsFoundAgain` |
| `background` | `ShellReadiness`, `ModeTracker`, `PtyLoops`, `Scrollback`, `PrPolling`, `ResourceSnapshots`, `GitPanel`, `GitStatus` | one or two properties of each, below |
| `window` | `OutgoingWriter`, `SessionRouting` (2 calls, symmetric), `TerminalResize`, `TerminalInput`, `ViewTimers`, `TerminalFeed`, `TerminalScreen`, `TabSessions`, `PaneLayout`, `WorkspaceStore`, `EditorView`, `TextInput`, `SettingsStore` | one or two properties of each, below |
| `host_respawn_race`, `pipe_stall`, `startup_two_apps`, `editor_column`, `screen_paint` | | five places where the code does not do what its comments say |

*The two suites.* The components of `background` and of `window` share no variable;
what one gets from another is an input it may take at any time. So nothing is gained
from interleaving them, and the product of their state spaces would be too large to
visit. The two calls of `SessionRouting` are interchangeable, and `window` checks no
liveness, so that its symmetry is sound. `machine` names the component that moves in a behaviour, chosen at the start;
the others stay at one initial state (`Still`). The states are then the sum of those
of the components: 676,144 in `background`, 1,002,309 in `window`, about two minutes
each. The components with
a theorem are extended, so that the definition checked is the one proved; those of
`MCBackground` without one are instances with their own constants. `MCBackground`
states the fairness of the poller and of the panel again, for their moves only.

| property | of | what it says |
|---|---|---|
| `LosesOnlyMarkerPrefix` | `ShellReadiness` | of all output, at most one piece is withheld for good, and it begins the marker |
| `RehydrationRestores` | `ModeTracker` | a client that reads the rehydration is in the tracked modes, whatever the order of mouse events, formats and keyboard pushes |
| `EndsOnlyInABurst` | `PtyLoops` | a session ends on an error exactly when too many fell within one window |
| `ReplayIsTheTail`, `FileIsBounded` | `Scrollback` | a replay is the youngest output, in whole lines, over cuts and restarts; the file stays within its limit |
| `RegisteredIsPolled` | `PrPolling` | a workspace that stays registered is polled again and again (liveness) |
| `ListsTheLiving` | `ResourceSnapshots` | an answer lists every session alive |
| `PanelCatchesUp` | `GitPanel` | the panel shows the repository's state again and again (liveness) |
| `ListsWhatChanged` | `GitStatus` | a status lists the files that differed when git's status ran, each one and no other, whatever changed while the other commands ran; if nothing did, with their counts, but for quoted paths and abbreviated renames |
| `KeepsOrder` | `OutgoingWriter` | it implements `InputOrder` |
| `OnlyDroppedIsMissing`, `GapsAreShort` | `SessionRouting` | a view is given chunks in order and once, and what is missing behind its answer is what the daemon dropped for a full channel; never more than the stall limit in a row |
| `SizesAgreeWhenQuiet` | `TerminalResize` | with nothing on its way, element, grid and PTY have one size |
| `NoStuckButton` | `TerminalInput` | who saw a press sees the release |
| `TimersDoNotPileUp` | `ViewTimers` | whole half periods and whole fades, whatever stale timers do |
| `ShowsOneAttachInOrder` | `TerminalFeed` | one attach from its replay on, each chunk once |
| `CopiesWhatWasPrinted`, `OpensItsTarget` | `TerminalScreen` | a selection copies what was printed, but for the blanks that end a line, also between a resize and the next synchronisation; a link opens the target it was printed with |
| `NoLeftoverAttach` | `TabSessions` | nothing is remembered of an attach once none is underway |
| `PanesWithTabsStay` | `PaneLayout` | no split, close or collapse loses a pane with tabs |
| `SavedIsKept` | `WorkspaceStore` | a saved workspace stays in `state.json` until it is deleted |
| `SelectionIsInTheText` | `EditorView` | cursor and anchor are places of the buffer |
| `SlicesBetweenCharacters` | `TextInput` | cursor, anchor and marked range end between characters, whatever the input method composes and selects in UTF-16, and whatever was painted last |
| `InEffect` | `SettingsStore` | the settings in effect are those of the files seen, also after writes that failed or were overwritten, once a poll or another write has made up for them |

### Bounds

Two connections are what a race for one session needs. Sessions of the host meet only
in the lock and the maintenance tick, which treats each for itself, so one is enough
for the invariants; the theorems cover any number. Two incarnations give every order
of an old and a new shell. With channels of one place full and empty are one step
apart, so that every wait happens; `host_kill_live` has two places so that output and
exit are queued together. `MaxKill` bounds the escalation tasks that run at a time; a
second one after the first has ended is reached. Three processes are an old daemon and
two rivals, or two rivals and a successor. `MaxReq` and `MaxChunk` make requests and
output finite, which also means that fairness need not favour anyone.
`AliveStaysMapped` passes with one connection and fails with two: that is the finding
of `host_respawn_race`; likewise `MCDaemonStartup` names the two situations in which
startup is sound, and `startup_two_apps` leaves them.

| component | bounds | why they are enough |
|---|---|---|
| `ShellReadiness` | output of 5 in reads of up to 3, 1 input | a marker is 3 bytes: cut at each place, broken off at each place, with bytes before and after |
| `ModeTracker` | a mode of its own, two mouse events, one format; length limit 12, stack of 2, 8 reads | a sequence of each kind after any other, broken off ones included, and a push over a full stack; the limit is longer than a sequence with the text before it |
| `PtyLoops` | window of 2 ticks, 2 errors, 5 ticks, 1 chunk | a burst, and as many errors that are just not one |
| `Scrollback` | file of 5, replay of 3, scan of 2, output of 9 | two cuts of the file, and a line longer than the scan |
| `PrPolling` | 2 workspaces, 3 commands, 1 event, 2 steps of the user | a full command channel, a lagging broadcast, one workspace behind another |
| `ResourceSnapshots` | 2 sessions, history of 2, 4 requests | a late answer, and one after it |
| `GitPanel` | 2 workspaces, 3 changes, 2 refreshes | two refreshes that overtake each other over a change, and an operation |
| `GitStatus` | four paths: two that share a directory and begin like an entry (`? d/a`, `? d/b`), a plain one, a quoted one; two versions, 3 changes, 2 readings | a rename between any two, abbreviated or not, a file with both staged and unstaged changes, paths that look like an entry; changes between and during the readings |
| `OutgoingWriter` | 2 sessions, 4 commands | two writes with a resize or a kill between them, and another session's command |
| `SessionRouting` | 2 calls, both channels of 1, a stall limit of 1, 4 chunks, 1 shell that exits, with 3 chunks then (`FewAfterAnExit`) | a second call while the first one's answer and frames are underway and its view is stalled; a chunk, a gap as long as is let go, and a chunk again |
| `TerminalResize` | sizes 1 to 3, 3 moves, 1 loss | away and back again while the acknowledgement of the first is late |
| `ViewTimers` | pause 2, fade 3, 5 ticks | an old timer that fires at every tick of a new one |
| `TerminalFeed` | 3 attaches, 3 chunks, batches of 2 | a batch of the first attach over the second and the third |
| `TerminalScreen` | 2 or 3 columns, heights 1 and 2, 3 candidates, 3 reads, 2 moves or resizes, nothing after a first paint (`EndsWithAPaint`; the paint is the question of `screen_paint`) | a wrap among the blanks that end a line, a scroll, a wide character at the edge, two links of one text; narrower, wider and back without output in between |
| `TabSessions` | 2 tabs, 2 workspaces, 2 sessions, 2 connections, 2 attaches | an attach of a former connection for a tab that was closed and opened again |
| `PaneLayout` | 2 workspaces, 5 panes of up to 2 tabs | a split in a split, collapsed from both sides |
| `WorkspaceStore` | 1 project, 1 name | the main workspace and another one; crashes and restarts are not bounded |
| `EditorView` | letters of width 3, at most 2; a file of two lines of one letter, and an empty one | a selection to both sides, over lines, in a text that is shorter than before (letters of two widths are in `editor_column`) |
| `TextInput` | 2 characters of width 4, two units of UTF-16, and line feeds of one; one line or several | a place within a character and within a pair of units, an empty line, composed text over a selection and a selection within it, a range and a click of another text |
| `SettingsStore` | user and 1 project, one value, 3 changes | a project's override of the user's value, written by somebody else between two polls, or between a write and the reading of its time; a write that fails |

### Fairness

`TerminalHost`: the maintenance interval ticks and finds the lock free, timers fire, a
disk phase ends; a forced exit gets strong fairness since tokio serves waiting senders
of a channel in turn. Shells, readers and clients owe nothing. `DaemonPipeline`: weak
fairness for the maintenance task and for the two tasks of each connection, which
tokio runs when they can; in `pipeline` the app's reader thread reads, in `pipe_stall`
it need not. `DaemonStartup`: processes run; nobody has to crash or be shut down.
`PrPolling`: the poller is one task that its runtime runs, its timers fire, and a
request to the service ends with an answer or an error; the app drains its queue every
50 ms. `GitPanel`: the poll timer fires, a cache entry ages, what runs off the thread
ends. Nobody has to click.

*Deadlock* is checked for `TerminalHost`. In `DaemonPipeline` requests and output run
out and all clients may be gone, in `DaemonStartup` an app may be connected for good
or have given up, and the inputs of the suites' components are used up: there the
system may really stop, and what must go on is stated as a liveness property.

Every property has a mutant, kept beside the definition it changes and marked as a
slip: a plausible one in the code, which the property's run must find.

### What does not hold

`PROJECT.json` lists under `findings` what the code does against its own words. Five
have a run. For others a configuration is kept that shows the trace:

| configuration | module | claim |
|---|---|---|
| `host_signal_exit.cfg` | `MCTerminalHost` | `SignalKilledIsRestored` |
| `startup_first_connect.cfg` | `DaemonStartup` | `FirstConnects` |
| `readiness_strip.cfg` | `ShellReadiness` | `StripsOnlyTheMarker` |
| `settings_edit.cfg` | `SettingsStore` | `HandEditsSurvive` |
| `screen_narrowed.cfg` | `MCTerminalScreen` | `CopiesWhatIsShown` |
| `panel_busy.cfg` | `GitPanel` | `BusyEnds` |

The rest are stated in their modules, as a definition that a configuration can name:
`PrunesOnlyOldScrollback` (`TerminalHost`), `TracksEveryMode` (`ModeTracker`, with a
length limit of 7), `NothingIsLeftOut` (`PtyLoops`, with two chunks),
`SkipsOnlyWhatWasCut` (`Scrollback`), `CardFollowsPoll` (`PrPolling`),
`ListsOnlyTheLiving` and `AnswersTheRequest` (`ResourceSnapshots`),
`PanelIsOfTheWorkspace` (`GitPanel`), `CommitsAreRead`, `RenamesAreCounted` and
`ConflictsAreListed` (`GitStatus`, the last with `MergingSpec`), `NothingShownTwice` and
`EveryAnswerGoesOn` (`SessionRouting`), `PointsBetweenCharacters` (`TextInput`),
`TimeIsOfTheContent` and `EditsTakeEffect` (`SettingsStore`),
`ShownTabComesUp`, `ViewShowsItsSession` and `NoOrphanSession` (`TabSessions`),
`ClosesWhatIsShown` (`PaneLayout`), `ComposesAtTheCursor` (`EditorView`, with
`ComposingSpec`) and `CleanIsOnDisk` (`EditorView`, with `UnreadableSpec`).

## 4. What is proved

Every theorem is about any value of the constants that satisfies the assumption its
module names; TLC evaluates the assumptions in the runs.

| theorem | says | inductive invariant |
|---|---|---|
| `TerminalHostProofs`: `HostInvariance`, `TypingTheorem`, `MetaTheorem`, `ShownTheorem`, `KilledTheorem` | `Spec => []HostInv`, and from it the four safety invariants of the registry | `HostInv` |
| `TerminalHostProofs`: `OneConnectionKeepsItsSessions` | `AliveStaysMapped`, an action property, for at most one connection | `HostInv`, `SpawnsForTheDead` |
| `DaemonPipelineProofs`: `PipelineTypes`, `NoLockIsLeftBehind`, `FramesStayWhole` | `TypeOK`, `LocksAreHeld`, `FramesWhole` | `IInv` |
| `DaemonPipelineProofs`: `EventsStayInOrder` | `EventsInOrder` | `IInv` and `OrderInv` |
| `DaemonStartupProofs`: `ServingDaemonsAreReachable`, `DaemonsStartAlone` | `ServingIsReachable`, `StartsAlone`, in the two situations of `MCDaemonStartup` | `StartupInv` |
| `BackgroundProofs`: `AnswersListTheLiving` | `ListsTheLiving`, an action property | `CacheIsComplete` |
| `BackgroundProofs`: `ReplaysTheTail`, `FileStaysBounded` | `ReplayIsTheTail`, `FileIsBounded` | `ScrollbackInv` |
| `BackgroundProofs`: `ScansLoseOnlyTheMarkersStart` | `LosesOnlyMarkerPrefix` | `ReadinessInv` |
| `BackgroundProofs`: `RehydrationIsExact` | `RehydrationRestores` | `ModesInv` |
| `BackgroundProofs`: `SessionsEndInABurst` | `EndsOnlyInABurst`, an action property | `PtyInv` |
| `BackgroundProofs`: `StatusListsWhatChanged` | `ListsWhatChanged`, an action property: the files of every status, the counts of an undisturbed one | `StatusInv` |
| `ClientProofs`: `InputKeepsItsOrder` | `KeepsOrder`: `OutgoingWriter` implements `InputOrder` | `WriterInv` |
| `ClientProofs`: `StreamsLackOnlyTheDropped` | `OnlyDroppedIsMissing` | `RoutingInv` |
| `TerminalViewProofs`: `SizesAgree` | `SizesAgreeWhenQuiet` | `ResizeInv` |
| `TerminalViewProofs`: `ButtonsAreReleased` | `NoStuckButton` | `GestureHasTheButton` |
| `TerminalViewProofs`: `TimersKeepTheirTime` | `TimersDoNotPileUp`, an action property | `BlinkIsWhole`, `FadeIsWhole` |
| `TerminalViewProofs`: `OneAttachIsShown` | `ShowsOneAttachInOrder` | `ChannelIsWhole`, `BootstrapIsNewer`, `NothingWithoutATask` |
| `WindowProofs`: `AttachesAreForgotten` | `NoLeftoverAttach` | `LayoutInv`, `AttachInv` |
| `TerminalViewProofs`: `CopiesAsPrinted` | `CopiesWhatWasPrinted` | `ScreenInv` |
| `WindowProofs`: `SlicesStayBetweenCharacters` | `SlicesBetweenCharacters` | `FieldInv` |
| `WindowProofs`: `SelectionStays` | `SelectionIsInTheText`, if the cursor never stands within a character | `EditorInv` |
| `WindowProofs`: `OneWidthIsSafe` | `SelectionIsInTheText`, if all letters have one width | `EditorInv`, `ColumnInv` |
| `WindowProofs`: `PanesStay` | `PanesWithTabsStay`, an action property | `PanesInv` |
| `WorkspaceProofs`: `SavedWorkspacesAreKept` | `SavedIsKept` | `WritesTheState`, `HoldsTheSaved` |
| `WorkspaceProofs`: `SettingsAreInEffect`, `EditsAreOfTheScope` | `InEffect`; `EditIsOfTheScope`, which no run checks | `MemoryIsTheFile`, `SeenIsPast`, `ResolvedFromMemory` |

**TerminalHost.** None of the four invariants is inductive. `MetaMirrorsHost` and
`ShownIsOnDisk` speak of the object the map points at, so a step of one session must
be known to leave the others alone: `MapIsConsistent` says that the map leads to an
incarnation of that very session, which makes two sessions point at different objects
(lemma `ObjectsApart`), and that it is not newer than the last spawned, so that a
spawn takes a fresh one. `ShownIsOnDisk` needs the writer's file to be the one at the
path, and `KilledLeavesNoScrollback` that after a killed exit it is not, or late
output would come back: `FileIsLinked` says both. `HostInv` is the conjunction; it is
split per session (`HostInvIsGood`), so that each action is shown to keep what it
touches (`...Inv`, one lemma per action, with a typing lemma `...Type` before it) and
`KeptGood` does the rest. A living session leaves the map only through the insert of
`spawn_inner` (`OnlyASpawnDisplaces`); with one connection a request in its disk phase
is for a session that is dead until then, so that no insert displaces a living one.
With two this is false, which `host_respawn_race` shows: hence the hypothesis of
`OneConnectionKeepsItsSessions`.

**DaemonPipeline.** That frames are whole needs to know who is in the middle of one:
`WholeFor(c)` says that what is on its way to a connection, read and unread, alternates
between first and second halves of one frame each, and that if it ends with a first
half, the task that wrote it is at its second one and holds the socket lock, which
`LocksAreHeld` gives to one task at a time. For the order, `HostOrder` accounts for
every event a shell made: it was handled, or is in the batch of the drain, or in the
channel, in this sequence. `WayInOrder(c, s)` says the same of the way from there to
the client: socket, hand of the writer task, and channel hold ascending numbers
between the last one read and the last one handled. It is stated through `Ordered`, a
predicate of the three places as values, so that each move from one to the next is a
lemma about sequences without primes.

**DaemonStartup.** Who serves may do to the socket and the token what it likes, as long
as nobody else is past the lock. The two situations give that for different reasons,
so `StartupInv` is a disjunction: while nobody shuts down the lock file is never
removed, and whoever got past the lock holds the flock of the one inode
(`OneLockFile`); a single app that waits as long as it takes spawns a daemon only when
no other one is at work (`OneAppWaits`), for which one has to follow where the app is
and which daemon and token it knows. Without the two hypotheses both properties fail
(`startup_two_apps`), so a theorem about `DaemonStartup!Spec` does not exist.

**Scrollback, readiness, modes, error window.** A replay is the tail of the output
because file and ring are ends of it, and it begins a line because the file does, or is
so long that its first line feed is beyond what is searched (`FileBegins`). Of the
marker's scan the invariant says that what was written is what went on and then what
is held, as long as the shell is not ready; one lemma per byte (`OnPtyData` is a fold
over a read) carries this through a read, and a chunk that ends in the middle of a
marker is only the end of such a fold. The rehydration is exact because the emitted
sequences switch modes one by one from the default: what one switches on, a later one
could switch off again, unless no two modes of a group are on (`Exclusive`, which the
parser keeps at every byte), and so their order does not matter. The window of
transient errors holds the end of all errors (`IsTheEnd`) and the ones before it are
too old to count, so its length is the number of errors within the window.

**The status of git.** As long as nothing changes, a command prints what it would print
at any other moment, so that the five outputs fit together although they were read one
after the other (`PrintsAreCurrent`, `AllWillHavePrinted`). Whatever changes
meanwhile, what git's status printed tells of the files that differed when it ran
(`ListedIsPrinted`), and the lists of files are made of it alone; only the counts are
those of numstat, of another moment. The rest is about the parser, for any number of
paths. The output is the parts of the paths one after the other (`Joined`), each part
one entry or, for a rename, two; `EntriesOf` finds exactly the entries that begin a
part, although an old path may look like one (by the least place at which it would
not). Then the lists are those of the parts, and of the lines of numstat exactly one
has a given path, unless git quotes it or abbreviates the rename to `dir/{a => b}`: these
are counted as nothing (`RenamesAreCounted` states the contrary, which the comment over
`parse_numstat` says). The hypotheses, `GitAssumption`, are about
numstat: no path holds an arrow or a brace or begins with a quote, since a line of such
a path reads like the line of another one. A merge that stops is left out of `StatusSpec`,
because `ConflictsAreListed` does not hold.

**The daemon client.** `InputKeepsItsOrder` is a refinement: each step of
`OutgoingWriter` is one of `InputOrder` under `Promise`'s mapping, or a stutter. Writing
a frame is a `Deliver`, so one has to know that all commands of the session that are
numbered below the frame's last one are delivered with it or are resizes that gave way:
every command given is queued, carried by a frame, or superseded (`NoneIsLost`), and
nothing else is on its way (`NoneIsInvented`), in rising numbers. What
`coalesce_outgoing` makes of a batch is lemma `Coalesces`, built frame by frame. What a
view misses was dropped: the daemon drops a chunk for a full client channel and keeps the
client (`on_pty_data`), so a stream can have gaps, and the theorem says that there are no
others. Chunks that are on their way and that were read are in rising numbers, whichever
of the two tasks of the connection wrote them (`StreamInOrder`); every chunk after the
one an attach was served at was read by its call, is on its way to it, or was dropped,
while the call is the one sent to (`NoneIsAstray`); and of those before the last one read
none is on its way any more (`SkippedAreUnsent`). `IdleAreUnserved` keeps a call from
being served twice. How long a gap may be is model-checked (`GapsAreShort`): the client
is let go by then.

**The application.** Sizes agree when quiet because a size that waits has a timer of
the current epoch (`HasItsTimer`), and of two neighbouring sizes, element, last sent,
PTY, grid, the second is the first one unless something is on its way between them
(`SizesFollow`). What is remembered of attaches is covered by those underway or waiting
for their frame (`PendingIsUnderWay`, `RecoveriesAreUnderWay`, a count against the
cardinality of a set, hence `TasksDiffer`). Every place that a text field keeps is a
boundary of its text (`FieldInv`); that an edit and a line lead to boundaries again, and
an offset of UTF-16 to one of the text it is looked up in (`ConvertsToABoundary`), also
within a pair of units, are lemmas about `Utf8Text`, for characters of any width. Hence
what an input method selects in the text it composes ends between characters, although
it counts in units of UTF-16. The theorem says nothing of the place that an input
method asks for a point: `character_index_for_point` slices the present text at one of the painted
one (`PointsBetweenCharacters`, which does not hold).
The editor is not so lucky: moving up or down keeps the byte column, and the cursor may
come to stand within a character (`editor_column`). `SelectionStays` says that this is
all that can go wrong: as long as it does not happen, cursor, anchor and selection are
places of the text (`EditorInv`). With letters of one width it cannot happen, since
every column is a multiple of that width (`ColumnInv`). A pane with tabs is kept because
the paths of a tree are such that no leaf is on the way to another one (`PanesInv`): a
split puts two leaves below the place of one, and the siblings that move up when a pane
closes meet no other leaf there.
A saved workspace can only get lost when a save replaces the file
by a state without it: what is written is what the window holds (`WritesTheState`),
and the window holds all that was saved since it read a sound file (`HoldsTheSaved`).
The settings in effect follow from what is in memory, and memory is the file as of the
modification time seen; that a new time is a later one (`SeenIsPast`) is what makes
polling by time sound. Both fail for a target after a write that failed, of which memory
has what the file has not, and after one that was overwritten before its time was read:
these are the targets in `diverged`, and the theorem speaks of the others. What the code
lacks there is stated in `EditsTakeEffect` and `TimeIsOfTheContent`. A button that the program saw pressed belongs to the gesture
underway, so that no other branch of the release takes it. A timer of an old epoch
fires without effect, and only one of the current epoch is armed, for the time that
`BlinkIsWhole` and `FadeIsWhole` state. The chunks in a handle's channel continue what
was taken of it, and what is shown before a bootstrap is of a handle before it. A
fresh cache lists at least who is alive, since a spawn empties it.

**The screen.** Every character printed, and every line feed, has a place: a line of
the emulator and a column, the line feed's after the last one. `NumbersFollow` says that
the numbers of the output run through the places in reading order, each number at
exactly one, and `LinesAreSpaced` that spacers stand where wide characters and wraps put
them and nowhere else. Both hold for the present lines and for those at the last sync (`synced`),
which are the same unless the screen was moved or resized since (`moved`): a resize wraps
the lines anew at once and the rows shown stay. `ContentIsShown` relates the content to
the lines of the last sync: its rows are those
from some top line on, although `sync` copied them one by one at different times, and if
nothing moved since, from the present top line. So the cells of a selection are the
places between two places. `CopiedIsCopyable` and `CopyableIsCopied` show that what is
left of them after trimming are the numbers that `WasPrinted` keeps, `OrderedAlike` that
two sets with a mapping that keeps the order are listed alike, by a count of the points
before each. What `CopiesAsPrinted` assumes of the output is `ScreenAssumption` alone,
that the engine is given no spacers to print. What it does not say, because it is false,
is in `screen_narrowed.cfg`: narrowed and not yet synchronised, a copy of several rows
loses what is beyond the new columns.

*Recursive functions.* `Bytes`, `Processed`, `Scanned` and their like are computed from
the value before. The prover has no induction over data, but it has well-founded
minima: a lemma about such a function takes the least place at which the claim fails
(`HasLeast`, from `NatLessThanWellFounded`) and shows that it holds there. So no
theorem bounds the length of a text or of a read.

*Only model-checked.* All liveness (`KillEndsSession`, `RequestsEnd`, `ReadersResume`,
`LostIsFoundAgain`, `RegisteredIsPolled`, `PanelCatchesUp`): fairness is beyond the
prover. `GapsAreShort`: it counts what is dropped in a row and is left to the bounds of
the run. `OpensItsTarget`: the groups of linked cells and the candidates of one text are
made by `FoldLeft` and `SelectSeq` with an operator as parameter, of which the prover
can only know what an induction over data would show. `SelectionIsInTheText` for letters
of several widths does not hold (`editor_column`), nor do `AliveStaysMapped` with two
connections and `ServingIsReachable` and `StartsAlone` outside their situations.

## 5. Not modelled

| part | why |
|---|---|
| wire encoding (serde, length prefix, size limit), paths | a library encodes; a frame is modelled as its two parts |
| `stop_daemon`, Ping and Pong, the answers to Resize and Signal | no state that a later step reads |
| modes beyond one of each kind, decoding of the working directory | handled as their kind is |
| providers of the PR poller, GitHub access, branches, diffs | wrappers of services and commands: what they compute is what is answered |
| the git2 path of the status, the changes against the base, command lines of operations | the same content by another library; the same parsers on other ranges |
| a resize that fails (`server.rs:524`) | it is warned about and not acknowledged; `TerminalResize` has lost acknowledgements, but not this one |
| the `Shutdown` request, malformed frames | see the end of a connection, section 2 |
| process table and its sampling | display only |
| key and mouse encoding, effects, colours, grid | the external engine |
| drag and drop of tabs, diff and editor tabs of the window, sidebar | left for lack of a hazard of their own |
| clipboard, scrolling and drawing of the editor, highlighting, file tree | presentation without protocol state |
| undo history | no caller outside its tests |
| migration of settings' fields, branch names, list of names | pure functions with tests |
| widgets, theme, titlebar, toasts, entry point, build files | presentation of the UI toolkit |

What a next step would add: the groups and candidates of `TerminalScreen` as functions
of places, from which `OpensItsTarget` could be proved as `CopiesWhatWasPrinted` is; and
`TabSessions` over `TerminalHost` instead of a daemon that serves what it is asked.

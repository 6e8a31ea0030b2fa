# loopwire, formally

TLA+ models of [loopwire](../src/README.md): a daemon (`apps/daemon`, Rust) that
runs coding agents in pseudo-terminals, and a web client (`apps/web`,
TypeScript) that shows their terminals, workspaces, activity and git status. TLC
checks the models on small instances; TLAPS proves some of what they say for
every value of the constants.

`PROJECT.json` lists components, runs, mutants, findings, hazards and theorems,
and for every definition the source lines it stands for. Below, `C/` is
`src/apps/daemon/crates/` and `W/` is `src/apps/web/src/`.

```
tlc -workers 2 -config Scrollback.cfg MCScrollback.tla     # a run
tlapm DaemonProofs.tla                                     # a proof module
```

## 1. The system

| component | state | operations | with whom | what is hard | what makes it correct |
|---|---|---|---|---|---|
| **Output history** `C/lw-pty/src/history.rs` | deque of chunks, total, start and end offset | `push` (evicts whole chunks), `slice_before`, `snapshot(_chunked)` | the reader pushes; sockets and the scrollback endpoint read | offsets under eviction, chunks larger than the capacity | offsets name the bytes held; a page holds what it says |
| **PTY reader and session** `reader.rs`, `session.rs`, `manager.rs` | `stopped`, broadcast channels of output (4096) and exits (4), the map of sessions | the reader thread, `kill`, `create`, `get`, `remove` | a thread per PTY against tokio tasks | push, broadcast, stop flag and exit are separate steps, and `kill` is at work at the same time | an exit is told after the stop flag is set, and reaches who listens |
| **Terminal socket** `C/lw-api/src/ws/terminal.rs` | two receivers, the snapshot | subscribe, ready, history, live, lag, exit, input | reads the PTY, writes the browser, may respawn the session | the order of subscribing and snapshot; `select!` among output, exit and input; overrun | no hole in what is shown without saying so |
| **Terminal channel** `W/features/terminal/channel`, `lib/terminalEventHandlers.ts` | socket, timer, retry delay, `exitReconnectsRemaining`, live frames held back | `connect`, messages, `scheduleReconnect`, `disconnect`, `processFrame`, `reset` | the terminal socket, xterm | reconnecting while the PTY is replaced; errors, closes and xterm's callbacks in any order | shows what the daemon has, whatever was lost before |
| **Scrollback overlay** `W/features/terminal/hooks/useScrollback.ts` | pages, `hasMore`, loading, cursors asked for | `fetchInitial`, `fetchMore`, `reset` | `GET .../scrollback` | history moves between two requests, callbacks keep the pages of an earlier render | pages join, the end is real |
| **Agent sessions** `C/lw-agent/src/manager.rs`, `manager/*.rs`, `process.rs` | handles, activity monitors, PTYs by session | start, stop, restore, spawn fresh, attach, reconcile, list, get, hydrate | REST handlers, terminal sockets, monitors, `workspace.json` | every handler gives way at every await, copies of handles grow stale, crashes leave processes | one process per session, no conversation lost without a word |
| **Activity** `C/lw-agent/src/activity.rs`, `manager/recorder.rs` | phase, reason, pending command and times per session | output, input, ticks, exits, reconciling | monitor, request handlers, the event channel | three recorders change one state under a lock and send after it; thresholds in time | a command is shown as work, and work comes to an end |
| **Tokens** `C/lw-api/src/auth.rs`, `rest/auth.rs` | hash of the bootstrap token, set of session hashes, two files | exchange, rotate, revoke, the middleware, `loopwired token` | all requests, remote invites | check and consume apart, change and save apart, truncating writes | one exchange per start, a revoked token stays revoked |
| **Workspaces** `C/lw-api/src/rest/workspace.rs`, `bootstrap.rs`, `state.rs`, `lw-fs/src/security.rs` | a `workspace.json` per id, the registry of roots | register, settings, remove, saving of sessions, bootstrap, start | session handlers, the browser | read-modify-write of all files with nothing held; ids made in two places | nothing that was answered is lost, an id means one directory |
| **Remote share** `C/lw-api/src/remote.rs`, `remote/*.rs` | active share, tunnel child, PIN attempts, the managed `cloudflared` | start, stop, status, invite bootstrap and exchange | tunnel processes, the token store | two locks, handlers that are dropped half-way, a tunnel that dies on its own | no tunnel runs that nobody can stop; an invite gives one session |
| **Event socket** `C/lw-api/src/ws/handler.rs`, `ws/messages.rs` | git subscriptions, a queue of 256 messages | `git:subscribe`, `git:unsubscribe`, `fs:unwatch`, events | file watcher, `git status`, activity channel, browser | debounce and drain, a task per subscription, full channels | the status shown catches up with the files |
| **File watching** `C/lw-fs/src/watch.rs` | watcher and broadcast channel per directory | `watch`, the callback, `unwatch` | event sockets | shared without a count | no change is forgotten |
| **Event connection** `W/shared/lib/network/ws.ts`, `W/shared/lib/daemon/ws.ts`, `useDaemon.ts` | socket, timer, queued sends, reference counts | connect, reconnect, send, subscribe, hydrate | event socket, stores | events and timers of an old socket, queued sends, a hydration that fails | every mounted view is subscribed; pushes never go back |
| **Stores and views** `W/shared/stores/app-store.ts`, sidebars, `useGitStatus.ts` | roots, selection, sessions, pins and orders, git views | gestures, hydration, replies | REST handlers, local storage | shown at once and saved by requests nobody awaits | what is shown is what a reload would show |
| **Daemon process** `C/loopwired/src/main.rs`, `lib.rs` | the pid file, the port | `start`, `run`, `stop`, `status` | other invocations, other programs | the pid file is read, trusted and removed in separate steps | a daemon that serves can be found |
| **Git and file endpoints** `C/lw-api/src/rest/git.rs` | a cache of statuses | `GET git/status`, diff, browse, read | views | a cached reply against a newer push | see event socket |
| runners, discovery | caches, local state | | | | not modelled, section 5 |

### Hazards

`PROJECT.json` has them line by line. In short:

* **Interleaving of handlers.** Almost every operation is *read under a lock,
  let go, decide, lock again and write*: tokens, handles, workspace files, the
  share, the pid file. A client that goes away drops its handler between any two
  awaits.
* **Thread against tasks.** The PTY reader is a thread and broadcasts after it
  pushed; sockets subscribe, take a snapshot, and `select!`.
* **Bounded buffers.** The history evicts chunks, the broadcast channels
  overrun, the message queue fills.
* **Crashes.** Files outlive the daemon, and so do agent processes, tunnels and
  the pid file.
* **Late answers.** Timers, sockets, replies and unawaited requests of the
  browser come back to a state that has moved on.
* **Failures nobody repeats.** A bootstrap that fails, a save that fails or is
  never begun, an error event that empties the queue of held frames: the code
  goes on as if nothing had happened.

## 2. Modules

| module | models | of |
|---|---|---|
| `OutputHistory` | a history as a record of byte intervals; `Pushed`, `SliceBefore`, `SnapshotChunked` | `history.rs` |
| `Scrollback` | the overlay paging through a history that moves on or is replaced | `useScrollback.ts`, `session_scrollback`, the reader |
| `TerminalStream` | reader thread, `kill`, terminal socket, terminal channel and paging controller of one terminal | `reader.rs`, `session.rs`, `ws/terminal.rs`, `TerminalChannel.ts`, `terminalEventHandlers.ts`, `TerminalPagingController.ts` |
| `AgentSession` | one session under the requests of the daemon | `lw-agent/src/manager`, `rest/agent.rs`, `rest/bootstrap.rs` |
| `Activity` | the methods of an activity state, as functions | `activity.rs` |
| `ActivityFeed` | that state under its recorders, and its way to the sidebar | `recorder.rs`, `session.rs`, `ws/handler.rs`, `useDaemon.ts`, `app-store.ts` |
| `TokenStore` | tokens, handlers over them, two files | `auth.rs`, `rest/auth.rs` |
| `Workspaces` | *abstract*: a workspace is one record, a request one step | what `rest/workspace.rs` promises |
| `WorkspaceStore` | files, registry and handlers, one file access per step | `rest/workspace.rs`, `security.rs`, `state.rs`, `rest/agent.rs` |
| `SidebarStore` | the gestures of the sidebars against the handlers that save them and the bootstraps that replace them | `app-store.ts`, `useDaemon.ts`, the sidebars, `rest/agent.rs`, `rest/workspace.rs`, `rest/bootstrap.rs`, `manager.rs` |
| `GitStatusFeed` | a git status from the file watcher to the views | `watch.rs`, `ws/handler.rs`, `rest/git.rs`, `ws.ts`, `useGitStatus.ts` |
| `RemoteShare` | share, tunnels, invites and the handlers over them | `remote.rs`, `tunnel.rs`, `invite.rs`, `rest/remote.rs` |
| `DaemonStart` | the commands, the pid file and the port | `main.rs`, `lib.rs`, `paths.rs` |
| `ScrollbackProofs`, `TerminalStreamProofs`, `AgentSessionProofs`, `WorkspaceStoreProofs`, `ActivityProofs`, `BrowserStoreProofs`, `DaemonProofs`, `RemoteShareProofs` | theorems; `DaemonProofs` has those of `TokenStore` and of `DaemonStart`, the files that outlive a daemon; `BrowserStoreProofs` those of `GitStatusFeed` and of `SidebarStore`, what the browser keeps of the daemon | |
| `MC*` | bounds and symmetry for TLC | |

`Scrollback` and `TerminalStream` extend `OutputHistory`, `ActivityFeed` extends
`Activity`, and `WorkspaceStore` instantiates `Workspaces` with a refinement
mapping.

Definitions called *Mutant* in the comment above them are slips a change of the
code could make, for example dropping a guard. None is part of a specification.
Each property is shown to notice the slip that stands before the definition it
would replace.

### How state and actions correspond to the code

**OutputHistory.** Bytes are positions in the stream, so a chunk is an interval
and a history the set of its chunks with `start`, `end` and `total`. `Pushed`
is `push`: append, then evict from the front while `total > max_bytes`. The loop
is written as the first cut point where it would stop. `SliceBefore` is
`slice_before`: clamp the end, walk the chunks with a cursor, and copy the parts
in reach; `data` is the set of the positions that were copied, which need not be
the interval the slice claims, and that is what `PagesHoldTheirBytes` checks.

**Scrollback.** `pages` is React's state and `rendered` what the last render
saw; `fetchMore` works with the rendered pages. A request is `call`: its cursor
and, once the daemon served it, its reply. Between the two the reader may push,
the session may be given a new PTY (`Respawn`, whose offsets count from 0) and
the overlay may be dismissed.

**TerminalStream.** The reader thread is `reading` → `pushed` → (broadcast) →
`reading`, and at the end `broke` → `waiting` → `done`, where `StoreStopped`
comes before the wait and the exit message. `kill` is four steps. The socket
task subscribes, reads `ready` and the snapshot, sends the history, and then
takes branches of its `select!`: output, a lag, an exit, input, close. `Input`
may find the PTY stopped and bring the session back (`ensure_pty_attached`),
but the socket goes on listening to the PTY it subscribed to, which is then
`ptys["old"]`. The broadcast channel is the sequence of everything sent with an
index per receiver; a receiver more than `Capacity` behind lags. `screen` is the
interval of bytes that xterm was given and whether some are missing. History is
written at once; live frames that come while xterm has still to call back on it
(`writing`) are held back, and `due` is what the screen will be once they are
written (`HistoryWritten`). `HandleReady` starts both anew; the close of a
connection and every error event throw away what is held (`PagingReset`), be the
error an overrun or an input or resize that failed (`InputFails`). `told` and
`shed` remember, until the next `ready`, that the client was told of an overrun
and that an error threw frames away. `HandleExit` only counts the reconnects:
that it also stops the agent is `KillCheck`, which may come at any time.

**AgentSession.** A handler is a program, a sequence of step names; each step
runs from one await to the next and may continue with another program
(`ensure_pty_attached` goes on into `restore_session` or
`spawn_fresh_for_session`). `ptys` has every PTY ever spawned, and its index is
the pid. `mapped` is the one in the `PtyManager`. `Restart` is a crash or a
clean stop followed by a start; processes may survive it.

**Activity, ActivityFeed.** The methods of `SessionActivityState` are operators
on a record; times are ages that stop counting beyond the thresholds, and
recognizing a prompt or a submitted command in text is a choice. A recorder
(the monitor of the PTY, the handler of a client, the reconciling of a list)
changes the state under the lock and keeps the snapshot in `hold` until it sends
it (`Emit`), so that two changes may be sent in the other order. `feed` is the
channel and the transport, which drop the oldest event when full. `fetch` has
the bootstrap requests, which take up a persisted session that does not run
(`Restore`), list the sessions in another step, read the activity in a third,
and arrive later still or not at all (`FetchFails`; nothing asks again).
`heard` says whether the connection has brought an event.

**TokenStore.** `Truncate` and `Write` are the halves of `std::fs::write`, done
under the read lock, so that changes of the set wait (`Unlocked`) but other
saves do not. `Restart` reads whatever part of the file is left. A token and its
hash are one value. `Continue` is what a handler does after a save: hand out the
new token, or go on to the second half of a rotation. `Drop` is the client going
away while its handler waits for the lock of the save: the set has changed, and
nothing will save it (`dropped`). Once the lock is taken the handler does not
wait again before the file is written.

**WorkspaceStore.** `disk` maps ids to files, since each file is replaced by a
rename. `load_workspaces` is `List` and one `Read` per directory, in any order;
`save_workspaces` is `ReadAgents` and `WriteEntry` per entry, in the order of
the list. The session handlers change `handles`, collect the active sessions of
a workspace, load the workspaces and write one file. `Canonical` is what
`canonicalize` returns; entering the registry may time out and then keeps the
path as it came. Everything about a session that `AgentSession` has is left out.

**SidebarStore.** `roots`, `sel` and `list` are the store, `stored` the roots in
local storage. A gesture is one action that changes them and puts its requests
into `calls`; a drag of an agent sends one request for every agent of the list.
A request is handled in any order and in up to three steps: apply, `Collect`
(the snapshot of the agents) and `SaveAgents`. A bootstrap is four steps of its
own, and any number may be under way: `Load` reads the workspaces and their
agents from the disk, `Revive` takes up those that do not run, with the settings
that were read, `Answer` lists what runs, in the order of a hash map and with
the order on the disk preferred (`Bootstrapped`), and `Arrive` replaces the
store. It may fail anywhere (`HydrationFails`), with the daemon going on or not,
and nothing asks again. `stale` says that a change was under way when the disk
was read or came in since. Answers go to the page that asked: `Reload` leaves
the requests and bootstraps of the old page to be handled, but unheard. The
filters and the sort of the code are `Picked` and `Ranked`, which say which item
is at which place. They are not folds, because a fold over a list of any length
cannot be proved about; `PickedFilters`, which TLC evaluates, compares `Picked`
with `SelectSeq`. `Settled` (nothing on its way) is a condition of the
properties.

**GitStatusFeed.** A status is the `version` of the tree it describes. The task
of a subscription goes `recv` → debounce and drain → compute → send, with
`queued` events and a `lagged` flag for its receiver of the broadcast channel;
`out` is the queue of the connection together with the transport. `sock` is what
`WsClient` holds, with the number of the connection that its stale checks
compare; `refs` and `pending` are the subscription counts and the queued sends.
A view (`Mount`, `Unmount`) shows the cache, its REST reply or a push. The REST
endpoint answers from its cache or computes, reading the tree in one step and
storing the result in a later one.

**RemoteShare.** Every step is what happens under one of the locks of
`active_share` and `tunnel_child`, or outside both. `start` kills the child,
clears the share, and then tries the providers in order: `cloudflared`, which
may be downloaded first (`Fetch`, `Install`), and ssh. Any file at the managed
path counts as the binary, a torn one too. `UrlArrives` or `WaitFails`, then
`Activate` and `Keep`. `Cancel` is the client going away: axum drops the handler
wherever it stands, and a tunnel that it held runs on. A wrong PIN is counted on
the share; an accepted one marks the invite used before the token is added
(`AddToken`).

**DaemonStart.** Every command is a process with a pid. The pid file is read in
one step, trusted in the next and written or removed in later ones. `Found` is
`is_process_alive` and `pid_looks_like_loopwired`, which accept any process of
the binary; that it did not find one (`FindsStale`) and the removal of the file
(`CleanUp`) are two steps. A daemon writes its pid before it binds the port, and
removes it before it lets the port go. `Stranger` is another program that gets a
free pid.

## 3. Runs

| run | instance | states | checks |
|---|---|---|---|
| `scrollback` | capacity 3, pages of 2, reads of 1 to 4 bytes, 7 bytes, 1 respawn | 11 k | `HistoryIsSuffix`, `PagesHoldTheirBytes`, `PagesJoin`, `EndIsReal` |
| `terminal_stream` | history 2, channel 1, transport 1, 3 bytes, 1 respawn, 2 connections | 1.6 M | `NoSilentHole`, `SettledMeansComplete`, `ExitEndsTheLoop` |
| `agent_session` | 2 requests: start, stop and attach with 2 processes; start and attach with 3; all but stop with 2 and a restart | 6.0 M | `StaleIsNotAttached`, `LeakNeedsOverlap`, `NoSilentLoss` |
| `token_store` | 2 handlers, 3 session tokens, bootstrap tokens for a restart and a `loopwired token` | 0.16 M | `OneExchangePerRun`, `RetiredStaysRetired`, `IssuedSurvivesRestart`, `QuietMeansSaved` |
| `workspace_store` | 1 request at a time, all seven kinds; 3 ids, 2 paths, a link to the other | 0.6 M | `ImplementsWorkspaces` |
| `workspace_overlap` | 2 requests out of register, remove, create, stop, bootstrap; 2 ids, 2 paths | 1.3 M | `RegistrationSurvives`, `RegistryAgreesWithDisk`, `SessionsStayHome` |
| `sidebar_store` | 3 workspaces, 3 agents; 3, 3 or 2 events with 1, 2 or 3 agents at first | 1.6 M | `QuietMeansSame`, `SelectedIsServed`, `GestureMovesOne` |
| `git_status_feed` | up to 2 changes, 2 connections, 2 views, 2 faults; channel and queue of 1 | 0.70 M | `NoEventForgotten`, `SubscribedWhileShown`, `QuietMeansCurrent`, `PushesNeverGoBack`, `ViewsAreServed` |
| `activity_feed` | up to 3 inputs and outputs, 1 exit, 2 connections; channel of 2 | 2.3 M | `CommandIsBusy`, `ShownIsCurrent`, `SessionSettles` |
| `remote_share` | 2 handlers, both providers, 2 tunnels, 2 PIN attempts, 1 crash | 0.35 M | `InviteIsBounded`, `NoTunnelLeftBehind`, `ShareHasItsTunnel`, `StartsAreAnswered` |
| `daemon_start` | 3 pids, 2 ports, reused without bound | 0.23 M | `PidFileNamesTheDaemon`, `PortIsLostToALeaverOnly`, `StrangersAreSpared` |
| `agent_resume_fails` | expected to be refuted | | `FailedResumeIsMarked` |

`scrollback`, `agent_session`, `token_store` and `workspace_store` check their
module's `TypeOK` as well.

### What the properties say

* `PagesJoin`: pages of one PTY have no hole and no repetition although chunks
  were evicted between two requests and `fetchMore` ran with stale pages.
  `EndIsReal`: "nothing older" is only said when nothing older is retained.
* `NoSilentHole`: because the socket subscribes *before* the snapshot and the
  reader pushes *before* it broadcasts, no byte falls between history and live
  output, and none is left out by holding live frames back while history is
  written. Output is lost in two ways only: an overrun of the channel, of which
  the client was told, and an error event that threw away what was held back,
  of which it was not (`shed`). `SettledMeansComplete`: but for these two, a
  client with nothing left to handle or to be called back on shows everything
  that is retained of the PTY its socket listens to. `ExitEndsTheLoop`:
  an exit sent to a listening socket ends its loop, also when input has brought
  the session back in the meantime.
* `StaleIsNotAttached`: the stale pid `restore_session` kills is never the
  process that clients are attached to by then. `LeakNeedsOverlap`: a process
  out of everybody's reach needs two attaching requests that overlap (and they
  do produce one: see the hazards). `NoSilentLoss`: whatever requests, exits and
  crashes came between, a handle or a saved entry with another conversation
  than the first is marked unresumable.
* `OneExchangePerRun`: racing exchanges get one token per start.
  `RetiredStaysRetired`: a removal that was saved is final although handlers
  save copies of the set one after the other, fail, or are cut off half-way.
  `IssuedSurvivesRestart` and `QuietMeansSaved`: memory and file agree when no
  handler runs, unless the last save failed or a handler was dropped before its
  save and none has gone well since.
* `ImplementsWorkspaces`: with one request at a time, the files refine
  `Workspaces` also when writes fail in the middle of `save_workspaces`, a
  session exits while its workspace is being saved, or the daemon dies between
  any two steps. With two requests this is false: an older list is written
  over a newer one. `workspace_overlap` has what remains true then: an answered
  registration is only lost by a removal of that path that overlapped or came
  after, an id that is registered and saved means one directory, and a session
  is only saved in its own workspace.
* `QuietMeansSame`: a sidebar at rest, with one bootstrap arrived since the page
  was loaded, shows what a reload would show, unless a change was lost, refused
  or overtaken. Bootstraps may overlap, fail, and take agents up again at any
  time; before the first arrives, the page has the roots of local storage, no
  agents, and if that bootstrap failed nothing that would bring them. Taking up
  an agent from a file that was read with a change under way counts as an
  overtaking: the agent may have been stopped or changed meanwhile.
  `SelectedIsServed`: the agents of the selected workspace are shown once it has
  its id. `GestureMovesOne`: a gesture leaves the order of everything it is not
  about alone.
* `NoEventForgotten`: a subscription that waits has pushed the tree as it is,
  whatever was coalesced, drained or overrun. `SubscribedWhileShown`: the daemon
  has a subscription just while a view is mounted, across reconnects.
  `PushesNeverGoBack`: neither an old socket nor an aborted task brings an older
  status. `QuietMeansCurrent`: at rest a view shows the tree, with the failures
  the code gives up on named in the property. `ViewsAreServed` is its liveness.
* `CommandIsBusy`: `pending_command` and the phase never contradict each other.
  `ShownIsCurrent`: a browser at rest that was told anything on its connection,
  by the bootstrap or by an event, shows the daemon's activity, across lost
  connections, failed bootstraps and dropped events, unless a recorder or reply
  was overtaken since it connected. A connection whose bootstrap failed shows
  what the one before it did until the next event (`Told`).
  `SessionSettles`: work comes to an end by the clock.
* `InviteIsBounded`: racing handlers get one session and at most
  `PinMaxAttempts` wrong PINs out of an invite. `NoTunnelLeftBehind`,
  `ShareHasItsTunnel`: tunnel, child and share belong together unless requests
  overlapped, were dropped or were cut off by a crash; these three leave tunnels
  behind, and the properties say that nothing else does. `StartsAreAnswered`: a
  request to start is answered whatever the providers do, unless its download
  of `cloudflared` stalls.
* `PidFileNamesTheDaemon`, `PortIsLostToALeaverOnly`: if no command runs while a
  daemon starts, the daemon that serves is the one in the pid file, and a port
  is lost only to a daemon that is leaving. `StrangersAreSpared`: `stop` signals
  no program that already had its pid when `stop` looked.

### Where the code and its documents disagree

`agent_resume_fails` is refuted: `recorder.rs:193` says that a session which was
still Restored when the process exited is marked unresumable, but the status is
set to Stopped two lines before it is asked for, so it never is, and the next
attach tries the same resume again.

Two more sentences are not what the code does, and the models show it in
reachable states: `session.rs:224` "Kill any stale process from a previous
daemon run" (the pid is dropped when handles are hydrated, and nothing is
killed), and `ws/terminal.rs:206` "Notify the client so it can reconnect and
re-sync" (the browser reports the message and stays on the connection). And
`README.md:74` "Bootstrap tokens are single-use" holds per start of the daemon:
the token is read back from its file at the next one.

`TerminalPagingController.ts:81` means to "drain any live frames that arrived
during history write", but `onError` resets the controller on every error event
(`terminalEventHandlers.ts:137`), that of a resize for example, which the
browser asks for just then: the frames held back are gone, and the connection
goes on. `NoSilentHole` names the case.

What the excuses in the properties stand for, since each is reachable:

* *Sessions and workspaces.* Two attaching requests at once leave a process
  running that nobody can reach. `create_session` registers an unknown workspace
  under one id while saving the session makes another, so that `bootstrap` lists
  the directory twice. `stop_session` and `remove_workspace` can be undone by a
  handler that read the files before. A removed workspace with running agents is
  back at the next bootstrap. The exit of an old PTY can mark the handle of a
  new one stopped.
* *Terminal.* A failed resize or input while history is being written loses the
  output that came meanwhile, until the next connection.
* *Tokens.* A revocation whose client went away before the save holds until the
  next restart only, unless something else is saved before it.
* *Sidebar.* The order of workspaces is never sent. A sort order or icon that is
  taken away is read as "not given". An agent that exited comes back with the
  next bootstrap; one that is stopped while a bootstrap is about to take up
  agents may come back as well. After a reload whose bootstrap failed, the
  agents that run are not shown until the event socket connects again.
* *Git status.* A status that fails is not retried, a change before the
  subscription sends nothing, an `fs:unwatch` of one client ends the
  subscriptions of all, and a REST reply may hide a newer push.
* *Activity.* A command of a session that has not printed anything yet stays
  busy for ever. After a bootstrap that failed, old activity is shown until the
  next event.
* *Share.* Starts that overlap, dropped requests and crashes leave tunnels
  running; a download that stalls holds its request for ever; a `cloudflared`
  that was cut off while it was downloaded is accepted for ever after.
* *Daemon.* Two starts at once, or a stop during a start, leave a daemon that
  the pid file does not name.

### Bounds, and why they are enough

* *Scrollback*: 7 bytes against a capacity of 3 evict more than twice the
  capacity, reads of 4 exceed it, and pages of 2 cut through chunks. The proofs
  remove the bounds.
* *TerminalStream*: one message more than the channel holds makes it lag, one
  more than the transport takes makes the socket wait; the second connection is
  the one after an exit, a loss or a respawn. The proof has any number of all.
* *AgentSession*: two requests at once and two processes, one to lose and one
  to replace it; the third replaces a session that could not be resumed and so
  was replaced before. A crash is only interesting with something saved and
  something spawned since. `Limits` lists these three kinds of behaviour, and
  each keeps to one. `MaxLate` counts monitors sent an exit; the code aborts the
  older one. The proof has any number of all of these.
* *TokenStore*: three tokens let one handler rotate while another adds. The
  tokens run out and the instance stops, hence `CHECK_DEADLOCK FALSE`; the
  proofs hold for any number.
* *WorkspaceStore*: two paths are enough for one request to write back a stale
  entry of another path, three ids for a workspace removed and made again.
  With two requests, two ids cover two files of one path and one of each. The
  proof has any number of requests at once.
* *SidebarStore*: three agents are the fewest whose order a drag can get wrong
  for one that was not dragged, and three workspaces the same for workspaces;
  `Gestures` has fewer events the more agents.
  The proof has any number of workspaces, agents and events.
* *GitStatusFeed*: a channel of one event lags with the second, a queue of one
  makes a sender wait; two views and two connections are the fewest that can be
  mistaken for each other. `Limits` lists which of these go together.
  The proof has any number of all, and queues of any size.
* *ActivityFeed*: thresholds 1, 1, 2, 3 keep the order of the four of the code;
  three events are a command, its output and one more; the channel of two drops
  with the third. The proof has any thresholds and any number of events.
* *RemoteShare*: two handlers race, and a third tunnel would only repeat the
  second's story; the proof has any number of both. *DaemonStart*: a start, the
  daemon it spawns and a stop are three processes; pids are used again, so that
  their number does not bound the behaviours. The proof has any number.

Symmetry is used over requests, ids, sessions, pids and ports, in runs without
liveness.

### Fairness

* `TerminalStream`: weak fairness of the browser's handling of messages and
  strong fairness of the exit branch of `select!`, because tokio picks at random
  among the branches that are ready: one that is ready again and again is taken.
* `GitStatusFeed`: weak fairness of the watcher's callback, of each subscription
  task and each connection's handler (tokio), of delivery, and of the browser's
  socket events and reconnect timer. None for failures, for the user, or for
  changes of the tree.
* `ActivityFeed`: weak fairness of the monitor's tick, of time, of the recorders
  that hold a change, and of the handlers that are recording. None for input,
  output, exits, or the network.
* `RemoteShare`: weak fairness of each handler but at the download, whose three
  requests have no timeout; the wait for a URL is timed, so `WaitFails` is the
  runtime's promise, while `UrlArrives` is nobody's.
* The other modules claim no liveness and assume no fairness.

## 4. Proofs

**ScrollbackProofs** (any capacity, page size, read sizes, stream and number of
respawns). `PushKeepsWellFormed` shows that eviction leaves chunks end to end
from `start` to `end` within the capacity; `SliceOfWellFormed` that
`slice_before` of a well-formed history is exactly the interval it claims. They
rest on `FirstCut` (the loop stops at the first chunk left) and
`CursorIsPosition` (the running cursor is the offset of the chunk). The
inductive invariant `IInv` adds to type correctness that the history is well
formed, and that the pages *and the reply under way* hold their bytes and meet
the page they were asked for: without the reply, `Receive` could prepend
anything; without the rendered pages, `FetchMore` could ask for any cursor.
`Ends` says what an answer of "nothing older" is worth: it came with a page that
starts where the history started then, the start only moves on, and `more` is
always what the first page shown came with. The
theorems are `TypeCorrect`, `HistorySuffix`, `PagesCarryTheirBytes`,
`PagesAlwaysJoin` and `EndsAreReal`: all the properties of run `scrollback`.

**DaemonProofs**, tokens (any number of handlers and tokens; the one assumption
is that `None` is no token). None of the properties is inductive by itself.
`IInv` adds

* `CopiesAreCurrent`: what a handler writes is the set as it is, because the
  read lock is held from the copy to the end of the write. This is the heart of
  `RetiredStaysRetired`: overlapping saves cannot write an older set;
* `RemovedIsOut`: the token of a removal being saved is no longer in the set;
* `NewIsPrivate`: nobody else knows, removes or saves a new token before its
  response;
* `DifferenceIsPending`: where set and file differ, some handler is before the
  save of just that token, or one was dropped before it could save it, and then
  no client has been given the token;
* `BootIsMade` and `issued ⊆ tokens` for the types.

One lemma per action, one step per conjunct. The theorems are `TypeCorrect`,
`OneExchange`, `RetiredForGood`, `IssuedIsSaved` and `QuietIsSaved`: all the
properties of run `token_store`.

**ActivityProofs** (any thresholds in the order of the code's, any limits). The
type of the state and `CommandIsBusy` are inductive together: a tick that sees
the wrong type of age could do anything. One lemma per method of the state, one
case per action of the feed, whoever records: `PendingIsBusy`. What the browser
shows needs `FeedInv`. A change is known by its number, and whatever is on its
way carries the number of its change and is the activity itself if that is the
newest (`AllCurrent`). The newest was sent or is held by a recorder
(`NewestSent`); the last of what is under way is the newest that was sent
(`LastIsNewest`), because an overrun of the channel drops the oldest; a browser
that was told anything on its connection, and has nothing under way, was told of
that (`ToldOfNewest`, `OnlyReplies`); and each connection is hydrated at most
once, between its opening and its loss (`Connected`). `LastIsNewest`,
`ToldOfNewest` and `OnlyReplies` hold until something is overtaken, by the other
recorder or by a reply, and from the next connection on again. The theorem is
`QuietIsCurrent`; assumed is that `None` is no activity.

**DaemonProofs**, pid file (any number of pids and ports; the one assumption is
that `Absent` is no pid). The file is read in one step and trusted in a later
one, so the invariant `DaemonInv` has to say what every command has *seen*: as
long as no command runs while a daemon starts (`StartsAlone`), whoever is up is
the one the file names (`NamesUp`), a command that has read the file has seen it
(`SeesUp`), and a daemon that may write the file has found none up (`NoneUp`).
`Listening` and `Checked` hold without that condition. The theorems are
`PidFileNamed`, `PortLost` and `StrangersSpared`: all the properties of run
`daemon_start`.

**RemoteShareProofs** (any number of handlers, tunnels, providers and PIN
attempts; the assumption that matters is that `None` is neither a tunnel nor a
share). `Invite` says that an unused invite has given no session and counts
every wrong PIN. The tunnels need a story over several steps: another request
that changes the share taints the tunnel of one on its way up (`Contested`), so
the request that keeps an untainted tunnel was alone since it stopped the share
before. From then on there is no child it could overwrite (`Stopped`), the share
it keeps a tunnel for is its own (`Activated`), and a share without its child
has a request about to clear it (`Shared`). One lemma per action. The theorems
are `InvitesBounded`, `NoneLeftBehind` and `SharesHaveTunnels`: all the safety
properties of run `remote_share`.

**WorkspaceStoreProofs** (any number of handlers, paths, ids, sessions and
links; assumed are that `None` is none of their values, that a link leads to its
target and no further, and that a new session has some label). Handlers read
and write whole files with nothing held, so no property can be shown from the
files alone: what a handler *remembers* will be written. The invariant says that

* an id has one path for life, in the files and in every list of entries
  however stale (`OnePath`), that the registry and the handlers about to insert
  into it agree with it (`Enrolled`), and that an id in use was generated
  (`Generated`), so that a new one is nobody's. From this `RegistryAgrees`;
* a session has one home, in files, handles, snapshots of them, and the requests
  about to start it (`OneHome`); a snapshot is written to the workspace it was
  made of (`Goes`). From this `SessionsAtHome`;
* a file that was promised is on the disk or about to be written by everybody
  who may replace it, unless a removal warned them (`Kept`, `Warned`). From this
  `RegistrationsSurvive`;
* a handler has at each step what the step works on (`Shape`, `Present`),
  without which none of the above would be kept. From this `TypeCorrect`.

The lemmas say what a step does to a list of entries, to the files and to one
handler; then there is one per action. The theorems are all the properties of
run `workspace_overlap`.

`OneAtATime` is the refinement of `Workspaces` for one handler, over any number
of paths, ids and sessions. Its invariant `InOrder` says that a path has one
file (`OneFile`) and that what the handler remembers is still so (`Follows`): a
list it read is what the files have, none of them missing (`Listed`), a list it
is about to write is that but for the one change it was asked for (`Due`), a
session it is about to bring back is saved and not active, and one it is about
to start has no handle. With `OneIsWritten` and `OneIsRemoved`, which say what
one file does to the abstract store, every action is one of `Workspaces` or
none: of the writes of `save_workspaces` only the one that has the change. That
a session is brought back from its only file needs `OneHome` of the other
invariant.

**TerminalStreamProofs** (any sizes of the history, the channel, the transport
and the reads, any stream and any number of PTYs and connections; assumed is
that `None` is no record). What the browser will have been shown lies on one
line: the screen with what is held back for it, the messages on the wire, the
pieces of the snapshot still to be sent, and the frames of the channel from the
receiver's index on. `Links` says that each frame on that line starts no later
than an earlier one ends, or that the client is told of a loss first; `Queued`
the same of the snapshot and of its join with the first frame received; `Sound`
that the history is the stream up to what was produced and that the frames
adjoin; `Caught` that what is still to come starts where what was shown ends, or
at the start of the history; `Bounded` that nothing is shown that was not
produced. What is shown counts the frames held back: `Whole` says that what is
due has no untold hole either, and is on the screen when nothing is held. For
that, all history has to come before anything live (`HistoryFirst`), or the
callback on one piece of history could write live frames before the next.
`NoSilentHole` alone says nothing of the next message, hence all of them.
`PushedIsTidy` and `SnapshotInOrder` are the lemmas about the history;
`Appended` and `Handled` say what a message sent and a message handled do to the
line. The theorems are `NoHoleIsSilent` and `SettledIsComplete`.

**AgentSessionProofs** (any number of requests, PTYs, monitors and runs; assumed
is that `None` is neither a handle nor an entry). A request is the rest of its
program, so the invariant first says which step may follow which (`Order`,
`Program`). Then a request is known by the step it is at: `Fits` says what it
holds there (the copy is present, and resumable if it is about to be resumed; a
later conversation is never resumable), `Meets` what the session looks like then
(whoever spawns, unless two overlapped, has found no live PTY, and there is none
until it spawns), and `Alone` that only one of them may spawn unless two
overlapped. `StaleIsSafe` needs them: the pid that a request will kill was read
some steps ago. One lemma per action. The theorems are `TypeCorrect`,
`LossIsTold`, `StaleIsSafe` and `LeaksNeedOverlap`: all the properties of run
`agent_session`.

**BrowserStoreProofs**, git status (any number of changes, connections, views
and faults, any sizes of the channel and the queues; assumed is that `None` is
neither a version nor a task). The invariant follows a status from the tree to
the view:

* `Events`: a change that the last git status of a task has not seen is noted by
  the watcher, waits in the receiver, made it lag, or the computation under way
  will see it; the only other excuses are a `git` that failed and a watcher that
  was removed. From this `EventsAreRemembered`;
* `Opening`: no connection later than the one `WsClient` holds has carried
  anything, so that a new one starts with nothing under way;
* `InOrder`: what is on the current connection is ordered by age, from the push
  last handled to the status about to be sent and the tree. From this
  `PushesGoForward`;
* `Counted`: the reference count is the number of views shown; `WantIsLast`: the
  last message under way to the daemon is what the views want, or, when there is
  none, the daemon has done it. From these `ShownIsSubscribed`;
* `PushedLast`: of a task that has seen the tree as it is, the last status under
  way, or handled if none is, is that one; `Shows`: a view that has its reply
  shows nothing older than the last push, unless the reply was overtaken. From
  these and `Events` `QuietIsCurrent`.

One lemma per action. `MessageKeeps`, `ConnectKeeps` and `RequestKeeps` are what
the actions on a message to the daemon, a new connection and a REST request have
in common. The theorems are `TypeCorrect`, `EventsAreRemembered`,
`ShownIsSubscribed`, `QuietIsCurrent` and `PushesGoForward`: all the safety
properties of run `git_status_feed`.

**BrowserStoreProofs**, sidebars (any set of workspaces, any number of agents,
gestures, reloads and bootstraps; assumed is that `Home` is a workspace, that
`"none"` is no path and that the bounds are numbers). The proof has four layers.

* *Lists.* The code filters, sorts, moves and renumbers lists.
  `RankedEnumerates` says that `Ranked` lists a finite set in its order, each
  element once, and `EnumerationIsRanked` that there is only one such list. From
  these: what a filter leaves (`PickedIs`), that the pinned come first and each
  part keeps its order (`NormalizeIs`), where the item at a place came from when
  one was moved (`MovedIs`), and that what is shown of a list renumbered after a
  drag is, but for the dragged agent, what was shown (`DragLeavesOthers`). Two
  lists are compared by saying what each enumerates, never by induction over
  them.
* *Types* (`SidebarTypes`). Each list has a path or an id once, what anything on
  its way names has a handle (`CallOk`, `ReplyOk`, `HydrateOk`, `SavedOk`), no
  handle ever goes (`Grows`), and the request that starts an agent is alone and
  has room (`Alone`, `Room`). With the lists this gives `GesturesMoveOne`, which
  needs nothing else of the state.
* *Selection* (`SelOk`). A selection that waits for its id has the request or
  the answer that brings it, and one of the page that is there (`IdAwaited`): an
  answer to an old page would not do. From this `SelectedServed`.
* *Agreement.* `QuietMeansSame` speaks of states with nothing on its way, so the
  invariant has to say what holds with anything on its way. As long as nothing
  was lost or overtaken: no two requests under way are about the same thing
  (`AloneCalls`); the disk is what the handles say unless a save is under way
  (`DiskIsCurrent`, and `OrdersKept` for the order of what is about to be
  saved), although a save writes what it collected before; a bootstrap that is
  not stale has found no request under way (`Calm`), so what it read is what the
  disk has, and once it has taken up the agents of the disk they all run
  (`TakenUp`) with the settings they had (`RevivalKeeps`): what it answers is
  what the daemon has (`Answered`). Once it has arrived, the page hears every
  answer (`AllHeard`); and from then on list and roots differ from the daemon's
  by the requests under way and by nothing else (`ListAgrees`, `AllListed`,
  `RootsAgree`). Since any bootstrap may take up an agent that exited, the list
  has to be right about every agent that runs or is saved (`Kept`), not only
  about those that run, and an agent that was stopped must be neither
  (`StopsHold`). An agent that is started has an answer on its way with the
  settings of its handle, and nobody has changed them in between, since nobody
  has seen it (`UntouchedCalls`, `UntouchedReplies`). From these `QuietSame`.

One lemma per part and action that can disturb it; `HandlesChange` and its like
say which actions those are. Each part was checked as an invariant of run
`sidebar_store` before it was proved. The theorems are `SidebarTypeCorrect`,
`GesturesMoveOne`, `SelectedServed` and `QuietSame`: all the properties of that
run.

**Only model-checked**: liveness (`ExitEndsTheLoop`, `ViewsAreServed`,
`SessionSettles`, `StartsAreAnswered`), which needs ENABLED, and that is out of
the prover's reach. Every safety property of a passing run is a theorem. What
recursive definitions compute for every input would need induction over data,
which the provers cannot do either; the modules proved about have none, and say
with CHOOSE or a quantifier what a loop of the code ends with.

## 5. Not modelled, and why

* Runners, prompts, and the recognition of prompts and commands in terminal
  text: functions on strings, whose outcome is a choice in `ActivityFeed`.
* The terminal library: that xterm writes in the order it was given text, and
  calls back after it, is taken for granted. Of `TerminalPagingController.ts`
  the sequence numbers, which are only logged, and the suppressing of input
  while history is written are left out.
* Discovery and connecting: one address after the other until one answers.
* `resolve` of paths inside a workspace, and the diff, browse and read
  endpoints: functions of the file system without state of their own.
* Attachments: written once and read by the agent alone.
* Resizing a PTY: no state but the terminal's.
* Rendering, themes, panels and the editor.
* Launch agents, configuration files and the `share` command line.
* The content of messages, and names and icons (`Labels` and `Names` stand for
  them in `WorkspaceStore`); paths beyond a link and its target; times, but for
  the ages of `Activity`.

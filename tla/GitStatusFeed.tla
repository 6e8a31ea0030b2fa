---------------------------- MODULE GitStatusFeed ----------------------------
(***************************************************************************)
(* The git status of one workspace on its way to the file tree: the        *)
(* FsWatcher (lw-fs watch.rs), the event WebSocket of the daemon and its   *)
(* git subscriptions (lw-api ws/handler.rs), GET git/status with its cache *)
(* (rest/git.rs), the WsClient of the browser (network/ws.ts), the         *)
(* subscription counts (daemon/ws.ts) and the views that show the status   *)
(* (useGitStatus.ts). A status is the version of the tree it describes.    *)
(*                                                                         *)
(*   version          of the working tree                                  *)
(*   watching, noted  the FsWatcher has an entry for the workspace; the    *)
(*                    callback still has to deliver an event               *)
(*   rest             git_status_cache of the daemon                       *)
(*   net, srv         a TCP connection and its handle_socket               *)
(*   inq, out         messages on the way to the handler, and queued for   *)
(*                    or on the way to the browser                         *)
(*   task, refused    git_subs of a connection: the task of the workspace; *)
(*                    its last git:subscribe was answered with an error.   *)
(*                    History: how its last git status ended, and whether  *)
(*                    the tree has changed since then or since it          *)
(*                    subscribed                                           *)
(*   token, sock, timer, pending   the WsClient: the connection it holds,  *)
(*                    the reconnect timer, the queued git:subscribes       *)
(*   refs, cache      gitSubscriptionRefs, gitStatusCache                  *)
(*   views            the mounts of useGitStatus: what each shows and      *)
(*                    where its REST request is. History: whether its      *)
(*                    reply was an error or older than a push some view    *)
(*                    had handled                                          *)
(*   seen, leaked     history: the last push a view handled; an            *)
(*                    unsubscribe was dropped while a subscribe was queued *)
(*   faults, limit    how often something went wrong; the bounds in force  *)
(***************************************************************************)
EXTENDS Naturals, Sequences, FiniteSets

CONSTANTS
    None,
    WatchCap,     \* of the broadcast channel of an FsWatcher entry (256)
    QueueCap,     \* messages the mpsc and the transport take (256 and more)
    Limits        \* bounds: each behaviour keeps one of these records of at most so
                  \* many changes of the tree, connections of the browser, mounts of
                  \* useGitStatus, and faults (lost connections, fs:unwatches,
                  \* refusals, failures of git)

ASSUME GitStatusFeedAssumption ==
    /\ WatchCap \in Nat \ {0} /\ QueueCap \in Nat \ {0}
    /\ Limits \subseteq [changes: Nat, conns: Nat \ {0}, mounts: Nat, faults: Nat] /\ Limits # {}

VARIABLES version, watching, noted, rest, net, srv, inq, out, task, refused,
          token, sock, timer, pending, refs, cache, views, seen, leaked, faults, limit

fs == <<version, watching, noted>>
daemon == <<srv, inq, out, task, refused>>
client == <<token, sock, timer, pending>>
ui == <<refs, cache, views, seen, leaked>>
bounds == <<faults, limit>>
vars == <<fs, rest, net, daemon, client, ui, bounds>>

Conns == UNION {1 .. l.conns : l \in Limits}
Mounts == UNION {1 .. l.mounts : l \in Limits}

\* The task of a subscription: its step, the events its receiver has waiting, whether
\* some were overwritten or the sender is gone, and the status it is about to send.
GitTask == [phase: {"recv", "drain", "compute", "send", "done"}, queued: Nat, lagged: BOOLEAN,
            closed: BOOLEAN, v: Nat, last: {"none", "ok", "failed"}, behind: BOOLEAN]

ASSUME NoneIsNoStatus == None \notin Nat /\ None \notin GitTask

NewView == [state |-> "new", data |-> None, fetch |-> "none", reply |-> None,
            late |-> FALSE]

Init ==
    /\ limit \in Limits
    /\ version = 0 /\ watching = FALSE /\ noted = FALSE /\ rest = None
    /\ net = [c \in Conns |-> FALSE] /\ srv = [c \in Conns |-> "none"]
    /\ inq = [c \in Conns |-> << >>] /\ out = [c \in Conns |-> << >>]
    /\ task = [c \in Conns |-> None] /\ refused = [c \in Conns |-> FALSE]
    /\ token = FALSE /\ sock = [n |-> 0, state |-> "none"] /\ timer = FALSE /\ pending = 0
    /\ refs = 0 /\ cache = None /\ views = [m \in Mounts |-> NewView]
    /\ seen = 0 /\ leaked = FALSE /\ faults = 0

Fault == faults < limit.faults /\ faults' = faults + 1 /\ UNCHANGED limit

Mounted == {m \in Mounts : views[m].state = "mounted"}

-----------------------------------------------------------------------------
(* The working tree and its watcher.                                       *)

\* Somebody changes a file; the kernel notes it when the tree is watched.
Change ==
    /\ version < limit.changes
    /\ version' = version + 1
    /\ noted' = watching
    /\ task' = [c \in Conns |-> IF task[c] = None \/ task[c].phase = "done" THEN task[c]
                              ELSE [task[c] EXCEPT !.behind = TRUE]]
    /\ UNCHANGED <<watching, rest, net, srv, inq, out, refused, client, ui, bounds>>

\* What broadcast::Sender::send does to a receiver: a full one lags.
Signalled(t) ==
    IF t = None \/ t.closed THEN t
    ELSE IF t.queued = WatchCap THEN [t EXCEPT !.lagged = TRUE]
    ELSE [t EXCEPT !.queued = @ + 1]

\* The callback of the watcher sends the event to every receiver.
Notice ==
    /\ noted
    /\ noted' = FALSE
    /\ task' = [c \in Conns |-> Signalled(task[c])]
    /\ UNCHANGED <<version, watching, rest, net, srv, inq, out, refused, client, ui, bounds>>

\* fs:unwatch of any client drops the entry, and with it everyone's sender.
Unwatch ==
    /\ Fault
    /\ watching
    /\ watching' = FALSE /\ noted' = FALSE
    /\ task' = [c \in Conns |-> IF task[c] = None THEN None ELSE [task[c] EXCEPT !.closed = TRUE]]
    /\ UNCHANGED <<version, rest, net, srv, inq, out, refused, client, ui>>

-----------------------------------------------------------------------------
(* A subscription: the task spawned by git:subscribe.                      *)

NewTask == [phase |-> "recv", queued |-> 0, lagged |-> FALSE, closed |-> FALSE,
            v |-> 0, last |-> "none", behind |-> FALSE]

SetTask(c, t) ==
    /\ task' = [task EXCEPT ![c] = t]
    /\ UNCHANGED <<fs, rest, net, srv, inq, refused, client, ui>>

In(c, phase) == task[c] # None /\ task[c].phase = phase
\* fs_rx.recv(): an event, or the error that some were overwritten.
TaskRecv(c) ==
    /\ In(c, "recv")
    /\ \/ /\ task[c].lagged
          /\ SetTask(c, [task[c] EXCEPT !.phase = "drain", !.lagged = FALSE])
       \/ /\ ~task[c].lagged /\ task[c].queued > 0
          /\ SetTask(c, [task[c] EXCEPT !.phase = "drain", !.queued = @ - 1])
       \/ /\ ~task[c].lagged /\ task[c].queued = 0 /\ task[c].closed
          /\ SetTask(c, [NewTask EXCEPT !.phase = "done", !.closed = TRUE])
    /\ UNCHANGED <<out, bounds>>

\* Mutant of TaskDrain: the drain comes after the computation.
TaskDrainLate(c) ==
    \/ /\ In(c, "drain")
       /\ SetTask(c, [task[c] EXCEPT !.phase = "compute"])
       /\ UNCHANGED <<out, bounds>>
    \/ /\ In(c, "send") /\ task[c].queued > 0
       /\ SetTask(c, [task[c] EXCEPT !.queued = 0, !.lagged = FALSE])
       /\ UNCHANGED <<out, bounds>>

\* The 500 ms are over: try_recv until it is not Ok, which Lagged is not either.
TaskDrain(c) ==
    /\ In(c, "drain")
    /\ SetTask(c, IF task[c].lagged THEN [task[c] EXCEPT !.phase = "compute", !.lagged = FALSE]
                  ELSE [task[c] EXCEPT !.phase = "compute", !.queued = 0])
    /\ UNCHANGED <<out, bounds>>

\* compute_git_status sees the tree as it is now; a failure is not retried.
TaskCompute(c) ==
    /\ In(c, "compute")
    /\ \/ /\ SetTask(c, [task[c] EXCEPT !.phase = "send", !.v = version, !.last = "ok", !.behind = FALSE])
          /\ UNCHANGED bounds
       \/ Fault /\ SetTask(c, [task[c] EXCEPT !.phase = "recv", !.last = "failed"])
    /\ UNCHANGED out

\* Mutant of TaskSend: a status that finds the queue full is dropped.
TaskSendDropping(c) ==
    /\ In(c, "send")
    /\ out' = IF Len(out[c]) < QueueCap THEN [out EXCEPT ![c] = Append(@, task[c].v)] ELSE out
    /\ SetTask(c, [task[c] EXCEPT !.phase = "recv", !.v = 0])
    /\ UNCHANGED bounds
\* tx_clone.send().await waits while the queue is full.
TaskSend(c) ==
    /\ In(c, "send") /\ Len(out[c]) < QueueCap
    /\ out' = [out EXCEPT ![c] = Append(@, task[c].v)]
    /\ SetTask(c, [task[c] EXCEPT !.phase = "recv", !.v = 0])
    /\ UNCHANGED bounds

-----------------------------------------------------------------------------
(* handle_socket.                                                          *)

\* ws_upgrade with a valid token.
Accept(c) ==
    /\ net[c] /\ srv[c] = "none"
    /\ srv' = [srv EXCEPT ![c] = "up"]
    /\ UNCHANGED <<fs, rest, net, inq, out, task, refused, client, ui, bounds>>

Next1(c) == srv[c] = "up" /\ inq[c] # << >> /\ inq' = [inq EXCEPT ![c] = Tail(@)]

\* FsWatcher::watch makes an entry or reuses the one there is; the receiver it
\* returns has none of the events sent before.
Watch ==
    /\ watching' = TRUE
    /\ UNCHANGED <<version, noted>>

\* git:subscribe: the old task is aborted first; no status is sent at once.
Subscribe(c) ==
    /\ Next1(c) /\ Head(inq[c]) = "subscribe"
    /\ Watch
    /\ task' = [task EXCEPT ![c] = NewTask]
    /\ refused' = [refused EXCEPT ![c] = FALSE]
    /\ UNCHANGED <<rest, net, srv, out, client, ui, bounds>>

\* The workspace is not registered, or it cannot be watched: send_error.
SubscribeRefused(c) ==
    /\ Fault
    /\ Next1(c) /\ Head(inq[c]) = "subscribe"
    /\ task' = [task EXCEPT ![c] = None]
    /\ refused' = [refused EXCEPT ![c] = TRUE]
    /\ UNCHANGED <<fs, rest, net, srv, out, client, ui>>

\* git:unsubscribe.
Unsubscribe(c) ==
    /\ Next1(c) /\ Head(inq[c]) = "unsubscribe"
    /\ task' = [task EXCEPT ![c] = None]
    /\ UNCHANGED <<fs, rest, net, srv, out, refused, client, ui, bounds>>

\* The loop breaks: the tasks are aborted, the sender dropped, send_task awaited.
ConnEnds(c) ==
    /\ srv[c] = "up" /\ ~net[c]
    /\ srv' = [srv EXCEPT ![c] = "done"]
    /\ task' = [task EXCEPT ![c] = None]
    /\ inq' = [inq EXCEPT ![c] = << >>]
    /\ refused' = [refused EXCEPT ![c] = FALSE]
    /\ UNCHANGED <<fs, rest, net, out, client, ui, bounds>>

\* The connection breaks.
NetDrops(c) ==
    /\ Fault
    /\ net[c]
    /\ net' = [net EXCEPT ![c] = FALSE]
    /\ UNCHANGED <<fs, rest, daemon, client, ui>>

-----------------------------------------------------------------------------
(* GET git/status.                                                         *)

SetView(m, v) ==
    /\ views' = [views EXCEPT ![m] = v]
    /\ UNCHANGED <<fs, net, daemon, client, refs, seen, leaked>>

\* An entry of the cache answers for 1.2 s ...
StatusCached(m) ==
    /\ views[m].fetch = "asked" /\ rest # None
    /\ SetView(m, [views[m] EXCEPT !.fetch = "answered", !.reply = rest])
    /\ UNCHANGED <<rest, cache, bounds>>

\* ... if there is none or it has expired, the status is computed, or that fails ...
StatusComputed(m) ==
    /\ views[m].fetch = "asked"
    /\ \/ /\ SetView(m, [views[m] EXCEPT !.fetch = "computed", !.reply = version])
          /\ UNCHANGED bounds
       \/ Fault /\ SetView(m, [views[m] EXCEPT !.fetch = "answered", !.reply = None])
    /\ UNCHANGED <<rest, cache>>

\* ... and stored and sent.
StatusStored(m) ==
    /\ views[m].fetch = "computed"
    /\ rest' = views[m].reply
    /\ SetView(m, [views[m] EXCEPT !.fetch = "answered"])
    /\ UNCHANGED <<cache, bounds>>

-----------------------------------------------------------------------------
(* The WsClient of the browser.                                            *)

\* connect(): the old socket is closed silently.
Connect ==
    /\ sock.n < limit.conns
    /\ sock' = [n |-> sock.n + 1, state |-> "connecting"]
    /\ net' = [c \in Conns |-> IF c = sock.n + 1 THEN TRUE ELSE IF c = sock.n THEN FALSE ELSE net[c]]

\* useDaemon: a token is set.
Login ==
    /\ ~token
    /\ token' = TRUE
    /\ Connect
    /\ UNCHANGED <<fs, rest, daemon, timer, pending, ui, bounds>>

\* Only the request of a view that is gone still matters.
Gone(v) ==
    IF v.state # "mounted" THEN v
    ELSE [NewView EXCEPT !.state = "gone", !.fetch = v.fetch, !.reply = v.reply]

\* The token is cleared: the views unmount (each drops its reference and, the
\* last one, unsubscribes), then daemonWsDisconnect.
Logout ==
    /\ token
    /\ token' = FALSE
    /\ sock' = [sock EXCEPT !.state = "none"]
    /\ net' = [c \in Conns |-> net[c] /\ c # sock.n]
    /\ timer' = FALSE /\ pending' = 0
    /\ refs' = 0 /\ leaked' = FALSE
    /\ views' = [m \in Mounts |-> Gone(views[m])]
    /\ UNCHANGED <<fs, rest, daemon, cache, seen, bounds>>

\* onopen: the queued messages first, then every view's onReconnect.
Flushed == pending + IF refs > 0 THEN Cardinality(Mounted) ELSE 0
SocketOpens ==
    /\ sock.state = "connecting" /\ net[sock.n] /\ srv[sock.n] = "up"
    /\ sock' = [sock EXCEPT !.state = "open"]
    /\ inq' = [inq EXCEPT ![sock.n] = [i \in 1 .. Flushed |-> "subscribe"]]
    /\ pending' = 0
    /\ UNCHANGED <<fs, rest, net, srv, out, task, refused, token, timer, ui, bounds>>

\* Mutant of SocketCloses: only a socket that was open is replaced.
SocketClosesQuietly ==
    /\ sock.state \in {"connecting", "open"} /\ ~net[sock.n]
    /\ sock' = [sock EXCEPT !.state = "closed"]
    /\ timer' = (timer \/ (token /\ sock.state = "open"))
    /\ UNCHANGED <<fs, rest, net, daemon, token, pending, ui, bounds>>

\* onclose of the current socket: scheduleReconnect.
SocketCloses ==
    /\ sock.state \in {"connecting", "open"} /\ ~net[sock.n]
    /\ sock' = [sock EXCEPT !.state = "closed"]
    /\ timer' = (timer \/ token)
    /\ UNCHANGED <<fs, rest, net, daemon, token, pending, ui, bounds>>

\* The reconnect timer.
TimerFires ==
    /\ timer /\ token
    /\ timer' = FALSE
    /\ Connect
    /\ UNCHANGED <<fs, rest, daemon, token, pending, ui, bounds>>

\* send() when the socket is open as far as the browser knows.
Sent(message) ==
    inq' = IF net[sock.n] /\ srv[sock.n] = "up" THEN [inq EXCEPT ![sock.n] = Append(@, message)] ELSE inq

-----------------------------------------------------------------------------
(* useGitStatus.                                                           *)

\* The effect: show the cache, ask for the status, subscribe (the first reference sends).
Mount(m) ==
    /\ token /\ m =< limit.mounts /\ views[m].state = "new" /\ \A k \in 1 .. m - 1 : views[k].state # "new"
    /\ views' = [views EXCEPT ![m] = [NewView EXCEPT !.state = "mounted", !.data = cache, !.fetch = "asked"]]
    /\ refs' = refs + 1
    /\ IF refs > 0 THEN UNCHANGED <<inq, pending, bounds>>
       ELSE IF sock.state = "open" THEN Sent("subscribe") /\ UNCHANGED pending
       ELSE pending' = pending + 1 /\ UNCHANGED inq
    /\ UNCHANGED <<fs, rest, net, srv, out, task, refused, token, sock, timer, cache, seen, leaked, bounds>>

\* Mutant of Unmount: every view that goes unsubscribes.
UnmountAlways(m) ==
    /\ views[m].state = "mounted"
    /\ views' = [views EXCEPT ![m] = Gone(@)]
    /\ refs' = IF refs =< 1 THEN 0 ELSE refs - 1
    /\ IF sock.state = "open" THEN Sent("unsubscribe") ELSE UNCHANGED inq
    /\ leaked' = (leaked \/ (refs =< 1 /\ sock.state # "open" /\ pending > 0))
    /\ UNCHANGED <<fs, rest, net, srv, out, task, refused, client, cache, seen, bounds>>

\* The cleanup: the last reference unsubscribes, which is never queued.
Unmount(m) ==
    /\ views[m].state = "mounted"
    /\ views' = [views EXCEPT ![m] = Gone(@)]
    /\ refs' = IF refs =< 1 THEN 0 ELSE refs - 1
    /\ IF refs =< 1 /\ sock.state = "open" THEN Sent("unsubscribe") ELSE UNCHANGED inq
    /\ leaked' = (leaked \/ (refs =< 1 /\ sock.state # "open" /\ pending > 0))
    /\ UNCHANGED <<fs, rest, net, srv, out, task, refused, client, cache, seen, bounds>>

\* The reply is older than a push that some view has handled, or it is an error.
Late(reply) == reply = None \/ reply < seen

\* The reply goes into the cache even if the view is gone, an error only into the view.
ReplyArrives(m) ==
    LET v == views[m] IN
    /\ v.fetch = "answered"
    /\ cache' = IF v.reply = None THEN cache ELSE v.reply
    /\ SetView(m, IF v.state = "gone" THEN [NewView EXCEPT !.state = "gone"]
                  ELSE [NewView EXCEPT !.state = "mounted", !.data = v.reply, !.late = Late(v.reply)])
    /\ UNCHANGED <<rest, bounds>>

\* What a git:status message does to a view.
Shown(v, status) ==
    IF v.state = "mounted" THEN [v EXCEPT !.data = status, !.late = FALSE] ELSE v

\* Mutant of Deliver: the handlers of an old socket stay.
DeliverStale(c) ==
    /\ out[c] # << >>
    /\ out' = [out EXCEPT ![c] = Tail(@)]
    /\ Mounted # {}
    /\ views' = [m \in Mounts |-> Shown(views[m], Head(out[c]))]
    /\ cache' = Head(out[c]) /\ seen' = Head(out[c])
    /\ UNCHANGED <<fs, rest, net, srv, inq, task, refused, client, refs, leaked, bounds>>

\* A message arrives; a socket that is not the current one has no handlers left.
Deliver(c) ==
    /\ out[c] # << >>
    /\ out' = [out EXCEPT ![c] = Tail(@)]
    /\ IF sock = [n |-> c, state |-> "open"] /\ Mounted # {}
       THEN /\ views' = [m \in Mounts |-> Shown(views[m], Head(out[c]))]
            /\ cache' = Head(out[c]) /\ seen' = Head(out[c])
       ELSE UNCHANGED <<views, cache, seen, bounds>>
    /\ UNCHANGED <<fs, rest, net, srv, inq, task, refused, client, refs, leaked, bounds>>

-----------------------------------------------------------------------------
\* What a task computes for a connection that is gone reaches nobody: not modelled.
TaskNext(c) == net[c] /\ (TaskRecv(c) \/ TaskDrain(c) \/ TaskCompute(c) \/ TaskSend(c))

HandlerNext(c) == Accept(c) \/ Subscribe(c) \/ SubscribeRefused(c) \/ Unsubscribe(c) \/ ConnEnds(c)

FetchNext(m) == StatusCached(m) \/ StatusComputed(m) \/ StatusStored(m) \/ ReplyArrives(m)

Next ==
    \/ Change \/ Notice \/ Unwatch
    \/ Login \/ Logout \/ SocketOpens \/ SocketCloses \/ TimerFires
    \/ \E c \in Conns : TaskNext(c) \/ HandlerNext(c) \/ NetDrops(c) \/ Deliver(c)
    \/ \E m \in Mounts : Mount(m) \/ Unmount(m) \/ FetchNext(m)

\* The watcher thread, the tokio runtime, the browser's event loop and its
\* timers run; a daemon that is asked for a connection accepts it.
Fairness ==
    /\ WF_vars(Notice) /\ WF_vars(SocketCloses) /\ WF_vars(TimerFires)
    /\ WF_vars(SocketOpens)
    /\ \A c \in Conns : WF_vars(TaskNext(c)) /\ WF_vars(HandlerNext(c)) /\ WF_vars(Deliver(c))

Spec == Init /\ [][Next]_vars /\ Fairness

-----------------------------------------------------------------------------
(* Properties.                                                             *)

\* A subscription that waits for an event has pushed the tree as it is, or the
\* tree has not changed since it subscribed: debouncing, the drain, a lagging
\* receiver and changes during git status lose no last change. Excused is the
\* one case the code gives up: the last git status failed.
NoEventForgotten ==
    \A c \in Conns :
        In(c, "recv") /\ task[c].queued = 0 /\ ~task[c].lagged /\ ~task[c].closed /\ ~noted =>
            task[c].last = "failed" \/ ~task[c].behind

\* No view is ever pushed a status older than one a view was pushed before: not
\* by an old connection after a reconnect, nor by an aborted subscription
\* (the stale checks of ws.ts, the abort in git:subscribe).
PushesNeverGoBack == [][seen' >= seen]_vars

\* The connection is up on both ends and nothing the browser sent is under way.
Heard(c) ==
    sock = [n |-> c, state |-> "open"] /\ net[c] /\ srv[c] = "up" /\ inq[c] = << >>

\* Views and subscriptions agree once the daemon has heard the browser: as long
\* as a view is mounted its connection has a subscription, or was refused one,
\* across reconnects and however views come and go; and no view is left with
\* none unless an unsubscribe was dropped while a subscribe was queued.
SubscribedWhileShown ==
    \A c \in Conns : Heard(c) =>
        IF Mounted # {} THEN task[c] # None \/ refused[c] ELSE task[c] = None \/ leaked

\* Nothing is under way between the tree and the views.
Quiet(c) ==
    /\ Heard(c) /\ ~noted /\ out[c] = << >>
    /\ In(c, "recv") /\ task[c].queued = 0 /\ ~task[c].lagged
    /\ \A m \in Mounted : views[m].fetch = "none"

\* When everything is quiet a view shows the tree as it is, unless the last
\* git status failed, an fs:unwatch ended the subscription, the tree changed
\* for the last time before the subscription (which sends no status of its
\* own), or the REST reply was an error or came late and hid a newer push.
QuietMeansCurrent ==
    \A c \in Conns : Quiet(c) =>
        \A m \in Mounted :
            \/ views[m].data = version \/ views[m].late
            \/ task[c].last # "ok" \/ task[c].closed

\* A view that is shown gets a subscription (or a refusal) from the daemon: a
\* connection lost before or after the subscribe was sent is replaced, and the
\* subscribe sent again, until the bound on connections is reached.
ViewsAreServed ==
    Mounted # {} ~>
        \/ Mounted = {}
        \/ \E c \in Conns : Heard(c) /\ (task[c] # None \/ refused[c])
        \/ sock.n = limit.conns /\ ~net[sock.n]
=============================================================================

----------------------------- MODULE ActivityFeed -----------------------------
(***************************************************************************)
(* The activity of one session on its way to the sidebar: the recorder of  *)
(* the daemon, shared by the monitor of the PTY and by the handlers of     *)
(* clients (lw-agent manager/recorder.rs, manager/session.rs), the         *)
(* broadcast channel and the event WebSocket (lw-api ws/handler.rs), and   *)
(* the store of the browser, which is hydrated over REST each time the     *)
(* socket opens (useDaemon.ts, app-store.ts). AgentSession has the steps   *)
(* of attaching and stopping that are one step here.                       *)
(*                                                                         *)
(*   state            activity_states of the session (Activity)            *)
(*   hold             the snapshot a recorder took under the lock and has  *)
(*                    not sent yet                                         *)
(*   pty, status      a process runs; the status of the handle             *)
(*   monitor          the task of the activity monitor                     *)
(*   doing            where the handler of a client is                     *)
(*   sub, feed        the socket task has subscribed; what the channel and *)
(*                    the transport hold for the browser                   *)
(*   sock             the event socket of the browser, of connection n     *)
(*   fetch            the reply to create_session (0) and the bootstrap    *)
(*                    requests of the connections                          *)
(*   store            what the browser shows, None without the session     *)
(*   used             how many inputs and outputs, and exits, there were   *)
(*   sent, told       history: the newest change that was sent, and that   *)
(*                    the browser was told of                              *)
(*   heard, overtaken history of the connection: an event was delivered;   *)
(*                    something older was sent or came after it            *)
(***************************************************************************)
EXTENDS Activity, Sequences

CONSTANTS
    FeedCap,    \* of the broadcast channel (512) and the transport
    Limits      \* bounds: each behaviour keeps one of these records of at most so many
                \* inputs and outputs, exits and stops, and connections

ASSUME ActivityFeedAssumption ==
    /\ FeedCap \in Nat \ {0}
    /\ Limits \subseteq [events: Nat, exits: Nat, conns: Nat \ {0}] /\ Limits # {}

VARIABLES state, hold, pty, status, monitor, doing, sub, feed, sock, fetch, store,
          used, limit, sent, told, heard, overtaken

session == <<state, hold, pty, status, monitor, doing, used>>
socket == <<sub, feed, sock>>
browser == <<fetch, store>>
history == <<sent, told, heard, overtaken>>
vars == <<session, socket, browser, history, limit>>

Recorders == {"monitor", "client", "list"}
Conns == UNION {1 .. l.conns : l \in Limits}
NoFetch == [step |-> "none", active |-> FALSE, reply |-> Snapshot(NewUnknown)]

\* The session has just been created by a browser that was connected and hydrated before.
Init ==
    /\ limit \in Limits
    /\ state = NewUnknown /\ hold = [r \in Recorders |-> None]
    /\ pty = TRUE /\ status = "running" /\ monitor = "up" /\ doing = "idle"
    /\ sub = TRUE /\ feed = << >> /\ sock = [n |-> 1, state |-> "open"]
    /\ fetch = [f \in Conns \cup {0} |->
                   CASE f = 0 -> [NoFetch EXCEPT !.step = "answered", !.active = TRUE]
                     [] f = 1 -> [NoFetch EXCEPT !.step = "done"]
                     [] OTHER -> NoFetch]
    /\ store = None
    /\ used = [events |-> 0, exits |-> 0] /\ sent = 0 /\ told = 0
    /\ heard = FALSE /\ overtaken = FALSE

-----------------------------------------------------------------------------
(* The recorder.                                                           *)

\* with_state: the state changes under the lock, and a change is sent after it.
Record(r, next) ==
    /\ hold[r] = None
    /\ state' = next
    /\ hold' = [hold EXCEPT ![r] = IF next.n # state.n THEN Snapshot(next) ELSE None]
\* tokio::sync::broadcast: with a full buffer the oldest event is gone.
Send(event) == IF Len(feed) = FeedCap THEN Append(Tail(feed), event) ELSE Append(feed, event)

Later(m, n) == IF m > n THEN m ELSE n

\* The browser asked for the activity on this connection and was told of something older.
ToldOlder(event) ==
    LET f == fetch[sock.n] IN
    f.step \in {"answered", "done"} /\ f.reply.n < event.n

\* emit_activity: two recorders can pass each other between the lock and the channel.
Emit(r) ==
    /\ hold[r] # None
    /\ hold' = [hold EXCEPT ![r] = None]
    /\ feed' = IF sub THEN Send(hold[r]) ELSE feed
    /\ sent' = Later(sent, hold[r].n)
    /\ overtaken' = (overtaken \/ IF sub THEN hold[r].n < sent ELSE ToldOlder(hold[r]))
    /\ UNCHANGED <<state, pty, status, monitor, doing, used, sub, sock, browser, told, heard, limit>>

-----------------------------------------------------------------------------
(* The monitor of the PTY.                                                 *)

Event == used.events < limit.events /\ used' = [used EXCEPT !.events = @ + 1]
Exit == used.exits < limit.exits /\ used' = [used EXCEPT !.exits = @ + 1]

\* The monitor receives output, which may end in a prompt.
Output(hint) ==
    /\ monitor = "up" /\ Event
    /\ Record("monitor", OnOutput(state, hint))
    /\ UNCHANGED <<pty, status, monitor, doing, socket, browser, history, limit>>

\* The tick of the monitor, where it does something.
Tick ==
    /\ monitor = "up" /\ OnTick(state) # state
    /\ Record("monitor", OnTick(state))
    /\ UNCHANGED <<pty, status, monitor, doing, used, socket, browser, history, limit>>

\* Time passes.
Elapse ==
    /\ Elapsed(state) # state /\ state' = Elapsed(state)
    /\ UNCHANGED <<hold, pty, status, monitor, doing, used, socket, browser, history, limit>>

\* The process ends by itself.
ProcessExits ==
    /\ pty /\ Exit /\ pty' = FALSE
    /\ UNCHANGED <<state, hold, status, monitor, doing, socket, browser, history, limit>>

\* The monitor receives the exit, records it and then marks the handle.
MonitorExit ==
    /\ monitor = "up" /\ ~pty
    /\ Record("monitor", OnSessionStopped(state, "session_exit"))
    /\ monitor' = "exiting"
    /\ UNCHANGED <<pty, status, doing, used, socket, browser, history, limit>>

MonitorMarks ==
    /\ monitor = "exiting" /\ hold["monitor"] = None
    /\ status' = "stopped" /\ monitor' = "gone"
    /\ UNCHANGED <<state, hold, pty, doing, used, socket, browser, history, limit>>

-----------------------------------------------------------------------------
(* The handlers of clients.                                                *)

\* input_session writes to the PTY, to a new one with a new monitor where it has stopped;
\* record_input follows when the write has returned.
Input(submitted) ==
    /\ doing = "idle" /\ hold["client"] = None /\ Event
    /\ doing' = IF submitted THEN "submitted" ELSE "typed"
    /\ pty' = TRUE
    /\ IF pty THEN UNCHANGED <<status, monitor>> ELSE status' = "running" /\ monitor' = "up"
    /\ UNCHANGED <<state, hold, socket, browser, history, limit>>

InputRecorded ==
    /\ doing \in {"typed", "submitted"}
    /\ Record("client", OnInput(state, doing = "submitted"))
    /\ doing' = "idle"
    /\ UNCHANGED <<pty, status, monitor, used, socket, browser, history, limit>>

\* stop_session aborts the monitor, kills the PTY and marks the handle before it records.
Stop ==
    /\ doing = "idle" /\ hold["client"] = None /\ Exit
    /\ doing' = "stopping" /\ pty' = FALSE /\ status' = "stopped" /\ monitor' = "gone"
    /\ UNCHANGED <<state, hold, socket, browser, history, limit>>

StopRecorded ==
    /\ doing = "stopping"
    /\ Record("client", OnSessionStopped(state, "session_stopped"))
    /\ doing' = "idle"
    /\ UNCHANGED <<pty, status, monitor, used, socket, browser, history, limit>>

-----------------------------------------------------------------------------
(* The event socket and the store of the browser.                          *)

\* The connection is lost, with all that was on its way.
Drop ==
    /\ sock.state # "closed"
    /\ sock' = [sock EXCEPT !.state = "closed"]
    /\ sub' = FALSE /\ feed' = << >>
    /\ UNCHANGED <<session, browser, history, limit>>

Dial ==
    /\ sock.state = "closed" /\ sock.n < limit.conns
    /\ sock' = [n |-> sock.n + 1, state |-> "opening"]
    /\ heard' = FALSE /\ overtaken' = FALSE
    /\ UNCHANGED <<session, sub, feed, browser, sent, told, limit>>

\* The socket task of the daemon subscribes, before or after the browser sees the open.
Subscribe ==
    /\ sock.state # "closed" /\ ~sub /\ sub' = TRUE
    /\ UNCHANGED <<session, feed, sock, browser, history, limit>>

\* onReconnect: hydrateFromDaemon.
Open ==
    /\ sock.state = "opening"
    /\ sock' = [sock EXCEPT !.state = "open"]
    /\ fetch' = [fetch EXCEPT ![sock.n].step = "asked"]
    /\ UNCHANGED <<session, sub, feed, store, history, limit>>

\* ensure_persisted_handles finds a stopped session that is still in the file of its workspace ...
FindsStopped(f) ==
    /\ fetch[f].step = "asked" /\ status = "stopped"
    /\ fetch' = [fetch EXCEPT ![f].step = "stopped"]
    /\ UNCHANGED <<session, socket, store, history, limit>>

\* ... and brings it back, whatever became of it meanwhile. Its activity stays as it is.
Restore(f) ==
    /\ fetch[f].step = "stopped"
    /\ status' = "restored"
    /\ fetch' = [fetch EXCEPT ![f].step = "ensured"]
    /\ UNCHANGED <<state, hold, pty, monitor, doing, used, socket, store, history, limit>>

\* list_sessions reconciles first: a handle whose process is gone is marked, but for a restored
\* one, which has none yet ...
Reconcile(f) ==
    /\ fetch[f].step \in {"asked", "ensured"}
    /\ status' = CASE status = "restored" -> "restored"
                   [] pty -> "running"
                   [] OTHER -> "stopped"
    /\ fetch' = [fetch EXCEPT ![f].step = IF status' = "stopped" THEN "marked" ELSE "reconciled"]
    /\ UNCHANGED <<state, hold, pty, monitor, doing, used, socket, store, history, limit>>

\* ... and recorded, when another request may have given the session a new process.
ReconcileRecords(f) ==
    /\ fetch[f].step = "marked"
    /\ Record("list", OnSessionStopped(state, "session_not_running"))
    /\ fetch' = [fetch EXCEPT ![f].step = "reconciled"]
    /\ UNCHANGED <<pty, status, monitor, doing, used, socket, store, history, limit>>

\* Then it copies the handles, and reads their activity afterwards.
FetchLists(f) ==
    /\ fetch[f].step = "reconciled" /\ hold["list"] = None
    /\ fetch' = [fetch EXCEPT ![f] = [@ EXCEPT !.step = "listed", !.active = (status # "stopped")]]
    /\ UNCHANGED <<session, socket, store, history, limit>>

FetchReads(f) ==
    /\ fetch[f].step = "listed"
    /\ fetch' = [fetch EXCEPT ![f] = [@ EXCEPT !.step = "answered", !.reply = Snapshot(state)]]
    /\ UNCHANGED <<session, socket, store, history, limit>>

\* Mutant of ReplyArrives: a session that the store has already is left as it is.
ReplyArrivesNew(f) ==
    /\ fetch[f].step = "answered"
    /\ fetch' = [fetch EXCEPT ![f].step = "done"]
    /\ store' = IF ~fetch[f].active THEN None ELSE IF store = None THEN fetch[f].reply ELSE store
    /\ overtaken' = (overtaken \/ (fetch[f].active /\ fetch[f].reply.n < told))
    /\ told' = Later(told, fetch[f].reply.n)
    /\ UNCHANGED <<session, socket, sent, heard, limit>>

\* A reply replaces what the store has; a bootstrap without the session takes it away.
ReplyArrives(f) ==
    /\ fetch[f].step = "answered"
    /\ fetch' = [fetch EXCEPT ![f].step = "done"]
    /\ store' = IF fetch[f].active THEN fetch[f].reply ELSE None
    /\ overtaken' = (overtaken \/ (fetch[f].active /\ fetch[f].reply.n < told))
    /\ told' = Later(told, fetch[f].reply.n)
    /\ UNCHANGED <<session, socket, sent, heard, limit>>

\* The hydration fails, is given up silently and not tried again.
FetchFails(f) ==
    /\ fetch[f].step \notin {"none", "done", "failed"} /\ f # 0
    /\ fetch' = [fetch EXCEPT ![f].step = "failed"]
    /\ UNCHANGED <<session, socket, store, history, limit>>

\* updateSessionActivity: an event of a session that the store does not have changes
\* nothing.
Deliver ==
    /\ sock.state = "open" /\ feed # << >>
    /\ feed' = Tail(feed)
    /\ store' = IF store = None THEN None ELSE Head(feed)
    /\ told' = Later(told, Head(feed).n) /\ heard' = TRUE
    /\ UNCHANGED <<session, sub, sock, fetch, sent, overtaken, limit>>

\* The terminal shows an exit, or a stop was answered, and the session leaves the store.
\* The terminal also asks for a stop, which is a Stop at some later time.
Remove ==
    /\ store # None /\ used.exits > 0 /\ store' = None
    /\ UNCHANGED <<session, socket, fetch, history, limit>>

-----------------------------------------------------------------------------
NextSession ==
    \/ \E r \in Recorders : Emit(r)
    \/ \E b \in BOOLEAN : Output(b) \/ Input(b)
    \/ Tick \/ Elapse \/ ProcessExits \/ MonitorExit \/ MonitorMarks
    \/ InputRecorded \/ Stop \/ StopRecorded

NextBrowser ==
    \/ Drop \/ Dial \/ Subscribe \/ Open \/ Deliver \/ Remove
    \/ \E f \in DOMAIN fetch : \/ FindsStopped(f) \/ Restore(f) \/ Reconcile(f) \/ ReconcileRecords(f)
                               \/ FetchLists(f) \/ FetchReads(f) \/ ReplyArrives(f) \/ FetchFails(f)

Next == NextSession \/ NextBrowser

\* A running daemon carries on with what it began, the clock of the monitor ticks.
Fairness ==
    /\ WF_vars(Tick) /\ WF_vars(Elapse)
    /\ WF_vars(InputRecorded) /\ WF_vars(StopRecorded)
    /\ \A r \in Recorders : WF_vars(Emit(r))

Spec == Init /\ [][Next]_vars /\ Fairness

-----------------------------------------------------------------------------
\* While a command is pending the session is shown at work, never idle or unknown: pending_command
\* is a field of its own, written by five methods beside the phase that all of them change.
CommandIsBusy == state.pending => state.phase \in {"processing", "streaming_output"}

Quiet ==
    /\ \A r \in Recorders : hold[r] = None
    /\ feed = << >> /\ sub /\ sock.state = "open"
    /\ \A f \in DOMAIN fetch : fetch[f].step \in {"none", "done", "failed"}

\* The connection has told the browser something: its bootstrap arrived, or an event did.
Told == fetch[sock.n].step = "done" \/ heard

\* When nothing is on its way any more, a browser whose socket is open shows the present activity
\* of each session it knows, across lost connections, lost bootstraps and events dropped from a
\* full channel, unless a recorder or a reply was overtaken by a newer one (useDaemon.ts,
\* recorder.rs emit_activity). A connection whose bootstrap failed, which nothing repeats
\* (useDaemon.ts:59-61), shows what the one before it showed until the first event comes.
ShownIsCurrent == Quiet /\ Told /\ store # None /\ ~overtaken => store = Snapshot(state)

\* A session with a monitor does not stay busy for ever: once nobody types and nothing is printed
\* any more, the clock makes it idle or unknown, with or without a prompt. The one exception is a
\* command of a session that has never printed anything (activity.rs on_tick).
SessionSettles ==
    <>[](monitor = "up" => \/ IsIdle(state) \/ state.phase = "unknown"
                           \/ state.phase = "processing" /\ state.out = None)
=============================================================================

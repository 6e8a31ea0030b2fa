--------------------------- MODULE TerminalStream ---------------------------
(***************************************************************************)
(* The life of a terminal: the reader thread of a PTY (lw-pty reader.rs)   *)
(* and whoever kills it (session.rs), the terminal WebSocket of the daemon *)
(* (lw-api ws/terminal.rs) and the TerminalChannel of the browser that     *)
(* reconnects to it.                                                       *)
(*                                                                         *)
(*   ptys             the PTY of the session ("now"), and the one it had   *)
(*                    before as long as the socket listens to it ("old")   *)
(*   gen              how often the session was given a new PTY            *)
(*   sock, rx, exitRx the socket task and its two receivers (next index)   *)
(*   queue            the pieces of the snapshot it still has to send      *)
(*   wire             messages on their way to the browser                 *)
(*   conn, timer, shouldReconnect, exitsLeft   the TerminalChannel         *)
(*   connects         how often it opened a WebSocket                      *)
(*   screen           the bytes written to xterm since its reset, and      *)
(*                    whether some are missing between them                *)
(*   writing          the paging controller waits for xterm to call back   *)
(*                    on history it was given (historyWriteInProgress)     *)
(*   due              the screen once the live frames that are held back   *)
(*                    meanwhile (queuedFrames) have been written to it     *)
(*   told             history: OUTPUT_LAGGED seen on this connection       *)
(*   shed             history: an error threw away frames that were held   *)
(*                    back on this connection                              *)
(***************************************************************************)
EXTENDS OutputHistory, Sequences

CONSTANTS
    Capacity,     \* of the output broadcast channel (4096)
    SnapBytes,    \* size of a history frame (64 KiB)
    WireCap,      \* messages the transport takes before send().await blocks
    ChunkSizes,   \* sizes of the reads
    MaxStream,    \* bound: bytes a PTY writes
    MaxGen,       \* bound: new PTYs
    MaxConnects   \* bound: WebSockets the channel opens

ASSUME TerminalStreamAssumption ==
    /\ Capacity \in Nat \ {0}
    /\ SnapBytes \in Nat \ {0}
    /\ WireCap \in Nat \ {0}
    /\ ChunkSizes \subseteq Nat \ {0}
    /\ MaxStream \in Nat /\ MaxGen \in Nat /\ MaxConnects \in Nat

Piece == [from : Nat, to : Nat]

Pty ==
    [hist : History, produced : Nat, pending : Piece \cup {None}, frames : Seq(Piece),
     reader : {"reading", "pushed", "broke", "waiting", "done"},
     exits : Seq({"code", "killed"}), child : {"running", "exited"}, stopped : BOOLEAN,
     killer : {"idle", "checked", "killed", "flagged"}]

Screen == [from : Nat, to : Nat, hole : BOOLEAN]

ASSUME NoneIsNoRecord == None \notin Piece \cup Pty \cup Screen

VARIABLES ptys, gen, sock, rx, exitRx, queue, wire, conn, timer,
          shouldReconnect, exitsLeft, connects, screen, due, writing, told, shed

socket == <<sock, rx, exitRx, queue>>
paging == <<screen, due, writing, told, shed>>
channel == <<conn, timer, shouldReconnect, exitsLeft, connects, paging>>
vars == <<ptys, gen, socket, wire, channel>>

Places == {"now", "old"}

Note(kind) == [kind |-> kind, from |-> 0, to |-> 0]

Frame(kind, piece) == [kind |-> kind, from |-> piece.from, to |-> piece.to]

\* A new PTY: create_session_channels and the spawned reader thread.
\*   hist, produced   the output history and the bytes read so far
\*   reader, pending  where the reader thread is, and the chunk it pushed
\*                    but has not broadcast yet
\*   frames, exits    everything broadcast so far, output and exit codes;
\*                    a receiver is an index into it
\*   child, stopped   the process runs; the AtomicBool `stopped`
\*   killer           where a kill() of the session is
FreshPty ==
    [hist |-> EmptyHistory, produced |-> 0, reader |-> "reading", pending |-> None,
     frames |-> << >>, exits |-> << >>, child |-> "running", stopped |-> FALSE,
     killer |-> "idle"]

Init ==
    /\ ptys = [w \in Places |-> IF w = "now" THEN FreshPty ELSE None] /\ gen = 0
    /\ sock = "none" /\ rx = 1 /\ exitRx = 1 /\ queue = << >> /\ wire = << >>
    /\ conn = "opening" /\ timer = FALSE
    /\ shouldReconnect = TRUE /\ exitsLeft = 1 /\ connects = 1
    /\ screen = None /\ due = None /\ writing = FALSE /\ told = FALSE /\ shed = FALSE

Exists(w) == ptys[w] # None

\* A step of the threads of one PTY.
Becomes(w, pty) ==
    /\ ptys' = [ptys EXCEPT ![w] = pty]
    /\ UNCHANGED <<gen, socket, wire, channel>>

-----------------------------------------------------------------------------
(* The reader thread.                                                      *)

\* read() returned n bytes: they go into the history first ...
ReadChunk(w, n) ==
    /\ Exists(w)
    /\ ptys[w].reader = "reading"
    /\ ptys[w].produced + n =< MaxStream
    /\ LET first == ptys[w].produced
           piece == [from |-> first, to |-> first + n]
       IN  \E h \in Pushed(ptys[w].hist, piece) :
             Becomes(w, [ptys[w] EXCEPT !.hist = h, !.produced = first + n, !.pending = piece,
                                        !.reader = "pushed"])

\* ... and to the receivers second.
SendChunk(w) ==
    /\ Exists(w)
    /\ ptys[w].reader = "pushed"
    /\ Becomes(w, [ptys[w] EXCEPT !.frames = Append(@, ptys[w].pending), !.pending = None,
                                  !.reader = "reading"])

\* read() returned 0, or failed and try_wait found the child dead.  An error
\* while the child lives is retried, which changes nothing.
ReadEnds(w) ==
    /\ Exists(w)
    /\ ptys[w].reader = "reading"
    /\ Becomes(w, [ptys[w] EXCEPT !.reader = "broke"])

StoreStopped(w) ==
    /\ Exists(w)
    /\ ptys[w].reader = "broke"
    /\ Becomes(w, [ptys[w] EXCEPT !.stopped = TRUE, !.reader = "waiting"])

\* child.wait() under the lock of the child, then the exit code goes out.
WaitChild(w) ==
    /\ Exists(w)
    /\ ptys[w].reader = "waiting"
    /\ ptys[w].child = "exited"
    /\ Becomes(w, [ptys[w] EXCEPT !.exits = Append(@, "code"), !.reader = "done"])

ChildExits(w) ==
    /\ Exists(w)
    /\ ptys[w].child = "running"
    /\ Becomes(w, [ptys[w] EXCEPT !.child = "exited"])

-----------------------------------------------------------------------------
(* kill() of the session: only of the PTY that the session has.            *)

KillCheck ==
    /\ ptys["now"].killer = "idle"
    /\ ~ptys["now"].stopped
    /\ Becomes("now", [ptys["now"] EXCEPT !.killer = "checked"])

\* The lock of the child is free unless the reader waits for the child; the
\* kill of a child that is already gone may fail, and kill() returns.
KillChild(w) ==
    /\ Exists(w)
    /\ ptys[w].killer = "checked"
    /\ ptys[w].reader # "waiting" \/ ptys[w].child = "exited"
    /\ \/ Becomes(w, [ptys[w] EXCEPT !.child = "exited", !.killer = "killed"])
       \/ ptys[w].child = "exited" /\ Becomes(w, [ptys[w] EXCEPT !.killer = "idle"])

KillFlag(w) ==
    /\ Exists(w)
    /\ ptys[w].killer = "killed"
    /\ Becomes(w, [ptys[w] EXCEPT !.stopped = TRUE, !.killer = "flagged"])

KillSend(w) ==
    /\ Exists(w)
    /\ ptys[w].killer = "flagged"
    /\ Becomes(w, [ptys[w] EXCEPT !.exits = Append(@, "killed"), !.killer = "idle"])

-----------------------------------------------------------------------------
(* The socket task of the daemon.                                          *)

\* The PTY whose channels the socket has subscribed to, and its history.
Heard == ptys[IF Exists("old") THEN "old" ELSE "now"]

\* ensure_pty_attached: the live PTY, or a new one when it has stopped.
Attach ==
    /\ conn = "opening"
    /\ conn' = "open"
    /\ sock' = "attached"
    /\ wire' = << >>
    /\ IF ~ptys["now"].stopped THEN UNCHANGED <<ptys, gen>>
       ELSE gen < MaxGen /\ gen' = gen + 1 /\ ptys' = [ptys EXCEPT !["now"] = FreshPty]
    /\ UNCHANGED <<rx, exitRx, queue, timer, shouldReconnect, exitsLeft, connects, paging>>

SubscribeOutput ==
    /\ sock = "attached"
    /\ rx' = Len(Heard.frames) + 1
    /\ sock' = "output"
    /\ UNCHANGED <<ptys, gen, exitRx, queue, wire, channel>>

SubscribeExit ==
    /\ sock = "output"
    /\ exitRx' = Len(Heard.exits) + 1
    /\ sock' = "subscribed"
    /\ UNCHANGED <<ptys, gen, rx, queue, wire, channel>>

Room == Len(wire) < WireCap

SendReady ==
    /\ sock = "subscribed"
    /\ Room
    /\ wire' = Append(wire, Note("ready"))
    /\ sock' = "ready"
    /\ UNCHANGED <<ptys, gen, rx, exitRx, queue, channel>>

TakeSnapshot ==
    /\ sock = "ready"
    /\ queue' = SnapshotChunked(Heard.hist, SnapBytes)
    /\ sock' = "history"
    /\ UNCHANGED <<ptys, gen, rx, exitRx, wire, channel>>

\* Mutant of SendHistory: output is subscribed to once the history is sent.
SendHistoryThenSubscribe ==
    /\ sock = "history"
    /\ IF queue = << >>
       THEN sock' = "loop" /\ rx' = Len(Heard.frames) + 1 /\ UNCHANGED <<queue, wire>>
       ELSE /\ Room
            /\ wire' = Append(wire, Frame("history", Head(queue)))
            /\ queue' = Tail(queue)
            /\ UNCHANGED <<sock, rx>>
    /\ UNCHANGED <<ptys, gen, exitRx, channel>>

SendHistory ==
    /\ sock = "history"
    /\ IF queue = << >>
       THEN sock' = "loop" /\ UNCHANGED <<queue, wire>>
       ELSE /\ Room
            /\ wire' = Append(wire, Frame("history", Head(queue)))
            /\ queue' = Tail(queue)
            /\ UNCHANGED sock
    /\ UNCHANGED <<ptys, gen, rx, exitRx, channel>>

Lagging == Len(Heard.frames) + 1 - rx > Capacity

\* output_rx.recv() returned a frame.
SendLive ==
    /\ sock = "loop"
    /\ rx =< Len(Heard.frames)
    /\ ~Lagging
    /\ Room
    /\ wire' = Append(wire, Frame("live", Heard.frames[rx]))
    /\ rx' = rx + 1
    /\ UNCHANGED <<ptys, gen, sock, exitRx, queue, channel>>
\* It lagged: the oldest frames are gone, the receiver stands at the oldest
\* one the channel still has, and the client is told.
SendLagged ==
    /\ sock = "loop"
    /\ Lagging
    /\ Room
    /\ wire' = Append(wire, Note("lagged"))
    /\ rx' = Len(Heard.frames) + 1 - Capacity
    /\ UNCHANGED <<ptys, gen, sock, exitRx, queue, channel>>

\* Mutant of SendExit: the exit branch goes on looping.
SendExitAndStay ==
    /\ sock = "loop"
    /\ exitRx =< Len(Heard.exits)
    /\ Room
    /\ wire' = Append(wire, Note("exit"))
    /\ exitRx' = exitRx + 1
    /\ UNCHANGED <<ptys, gen, sock, rx, queue, channel>>

\* The task is gone, and with it its receivers.
Detached ==
    /\ sock' = "none" /\ queue' = << >> /\ rx' = 1 /\ exitRx' = 1
    /\ ptys' = [ptys EXCEPT !["old"] = None]

\* exit_rx.recv() returned: the client is told and the loop ends, whatever
\* output is still to be received.
SendExit ==
    /\ sock = "loop"
    /\ exitRx =< Len(Heard.exits)
    /\ Room
    /\ wire' = Append(wire, Note("exit"))
    /\ Detached
    /\ UNCHANGED <<gen, channel>>

\* write_input_bytes: what is typed goes to the PTY of the session, and one
\* that has stopped is replaced first, as in Attach; the socket goes on
\* listening to the PTY that it has subscribed to.
Input ==
    /\ sock = "loop" /\ conn = "open"
    /\ ptys["now"].stopped
    /\ gen < MaxGen
    /\ gen' = gen + 1
    /\ ptys' = [now |-> FreshPty, old |-> Heard]
    /\ UNCHANGED <<socket, wire, channel>>

\* An input cannot be written, the session it is for cannot be brought back,
\* or the terminal cannot be resized, which the browser asks for as soon as it
\* is ready: the client is sent an error, and the socket stays.
InputFails ==
    /\ sock = "loop" /\ conn = "open"
    /\ Room
    /\ wire' = Append(wire, Note("unwritten"))
    /\ UNCHANGED <<ptys, gen, socket, channel>>

-----------------------------------------------------------------------------
(* The TerminalChannel of the browser.                                     *)

\* Writing a frame to the terminal.
Written(s, piece) ==
    IF s = None THEN [from |-> piece.from, to |-> piece.to, hole |-> FALSE]
    ELSE [from |-> Lesser(s.from, piece.from),
          to   |-> Greater(s.to, piece.to),
          hole |-> s.hole \/ piece.from > s.to]

\* One reconnect is allowed after an exit, none after the next.  The session is
\* taken off the list and stopped as well: KillCheck, and Disconnect when its
\* terminal is unmounted, which may come at any time.
HandleExit ==
    /\ Head(wire).kind = "exit"
    /\ IF exitsLeft = 0
       THEN shouldReconnect' = FALSE /\ UNCHANGED exitsLeft
       ELSE exitsLeft' = exitsLeft - 1 /\ UNCHANGED shouldReconnect
    /\ UNCHANGED paging

\* The paging controller and the terminal are reset.
HandleReady ==
    /\ Head(wire).kind = "ready"
    /\ screen' = None /\ due' = None /\ writing' = FALSE
    /\ told' = FALSE /\ shed' = FALSE
    /\ UNCHANGED <<shouldReconnect, exitsLeft>>

\* processFrame: history goes to the terminal at once, and so does a live
\* frame, unless the terminal has still to call back on history.
HandleFrame ==
    /\ Head(wire).kind \in {"history", "live"}
    /\ due' = Written(due, Head(wire))
    /\ writing' = (writing \/ Head(wire).kind = "history")
    /\ screen' = IF writing /\ Head(wire).kind = "live" THEN screen
                 ELSE Written(screen, Head(wire))
    /\ UNCHANGED <<told, shed, shouldReconnect, exitsLeft>>

\* paging.reset(): what is held back is thrown away.
PagingReset == due' = screen /\ writing' = FALSE

\* An error event of either kind is shown to the user and resets the paging
\* controller; the channel stays as it is.
HandleError ==
    /\ Head(wire).kind \in {"lagged", "unwritten"}
    /\ PagingReset
    /\ told' = (told \/ Head(wire).kind = "lagged")
    /\ shed' = (shed \/ due # screen)
    /\ UNCHANGED <<screen, shouldReconnect, exitsLeft>>

Handle ==
    /\ conn = "open"
    /\ wire # << >>
    /\ wire' = Tail(wire)
    /\ HandleReady \/ HandleFrame \/ HandleError \/ HandleExit
    /\ UNCHANGED <<ptys, gen, socket, conn, timer, connects>>

\* Mutant of HistoryWritten: the frames held back are forgotten.
HistoryWrittenForgets ==
    /\ writing
    /\ PagingReset
    /\ UNCHANGED <<ptys, gen, socket, wire, conn, timer, shouldReconnect, exitsLeft, connects,
                   screen, told, shed>>

\* xterm calls back on the history it was given: the frames held back are
\* written in their order.  What it calls back on may be an earlier piece of
\* history than the last.
HistoryWritten ==
    /\ writing
    /\ writing' = FALSE
    /\ screen' = due
    /\ UNCHANGED <<ptys, gen, socket, wire, conn, timer, shouldReconnect, exitsLeft, connects,
                   due, told, shed>>

\* onclose: the channel forgets the socket and schedules a reconnect, and the
\* paging controller is reset.
Closed ==
    /\ conn' = "none"
    /\ timer' = shouldReconnect
    /\ PagingReset
    /\ UNCHANGED <<shouldReconnect, exitsLeft, connects, screen, told, shed>>

\* The daemon's task ended and everything it sent has been handled.
OnClose ==
    /\ conn = "open" /\ sock = "none" /\ wire = << >>
    /\ Closed
    /\ UNCHANGED <<ptys, gen, socket, wire>>

\* The upgrade is refused: the session is not known, or cannot be spawned.
Refused ==
    /\ conn = "opening"
    /\ Closed
    /\ UNCHANGED <<ptys, gen, socket, wire>>

\* The connection breaks; what was under way is lost.
Drop ==
    /\ conn = "open"
    /\ wire' = << >>
    /\ Detached
    /\ Closed
    /\ UNCHANGED gen

\* The reconnect timer fires: openSocket.
Reconnect ==
    /\ timer
    /\ connects < MaxConnects
    /\ timer' = FALSE
    /\ conn' = "opening"
    /\ connects' = connects + 1
    /\ UNCHANGED <<ptys, gen, socket, wire, shouldReconnect, exitsLeft, paging>>

\* disconnect(): the terminal is unmounted.
Disconnect ==
    /\ conn # "none" \/ timer
    /\ conn' = "none" /\ timer' = FALSE /\ shouldReconnect' = FALSE
    /\ wire' = << >>
    /\ Detached
    /\ PagingReset
    /\ UNCHANGED <<gen, exitsLeft, connects, screen, told, shed>>

-----------------------------------------------------------------------------
Socket ==
    \/ Attach \/ SubscribeOutput \/ SubscribeExit \/ SendReady \/ TakeSnapshot
    \/ SendHistory \/ SendLive \/ SendLagged \/ SendExit
    \/ Input \/ InputFails

Next ==
    \/ \E w \in Places :
          \/ \E n \in ChunkSizes : ReadChunk(w, n)
          \/ SendChunk(w) \/ ReadEnds(w) \/ StoreStopped(w) \/ WaitChild(w) \/ ChildExits(w)
          \/ KillChild(w) \/ KillFlag(w) \/ KillSend(w)
    \/ KillCheck
    \/ Socket
    \/ Handle \/ HistoryWritten \/ OnClose \/ Refused \/ Drop \/ Reconnect \/ Disconnect

\* The browser runs its callbacks, and select! picks at random among its ready
\* branches, so that the exit is not passed over for ever, although a full
\* transport holds it up now and then.  Nothing else has to happen.
Fairness == WF_vars(Handle) /\ SF_vars(SendExit)

Spec == Init /\ [][Next]_vars /\ Fairness

-----------------------------------------------------------------------------
\* The terminal never shows output with a piece missing unless, on this
\* connection, the client was told of a loss or an error event threw away what
\* was held back: subscribing before the snapshot, and pushing before
\* broadcasting, leave no byte between history and live, and holding live
\* frames back leaves none out.
NoSilentHole == (screen # None /\ screen.hole) => told \/ shed

\* A client that has handled all there is to handle, with no history waiting to
\* be called back on, shows everything the history of the PTY that its socket
\* listens to retains; unless, on this connection, it was told of a loss or an
\* error event threw away what was held back.
SettledMeansComplete ==
    (/\ sock = "loop" /\ wire = << >> /\ rx > Len(Heard.frames)
     /\ Heard.reader # "pushed" /\ ~writing /\ ~told /\ ~shed
     /\ Heard.hist.start < Heard.hist.end)
    => /\ screen # None
       /\ screen.from =< Heard.hist.start
       /\ screen.to = Heard.hist.end

\* An exit that a listening socket has still to receive ends its loop: the
\* browser is not left with a live connection to a dead process, not even
\* when input has brought the session back in the meantime.
ExitEndsTheLoop ==
    (sock = "loop" /\ exitRx =< Len(Heard.exits)) ~> (sock # "loop")
=============================================================================

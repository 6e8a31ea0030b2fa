---------------------------- MODULE AgentSession ----------------------------
(***************************************************************************)
(* One agent session of the daemon: its handle in the AgentManager of      *)
(* lw-agent, the PTYs spawned for it, the activity monitors that watch     *)
(* them, the copy in workspace.json, and the requests of lw-api that work  *)
(* on all of these at the same time, each giving way at every await.       *)
(*                                                                         *)
(* A handler is a program, a sequence of step names; a step runs from one  *)
(* await to the next, and may put another program in the place of what is  *)
(* left.  The sessions of a daemon share nothing but locks, so that one is *)
(* enough.  Names, icons, sort order and activity are left out.            *)
(*                                                                         *)
(*   run        the run of the daemon, which may crash and start again     *)
(*   handle     the AgentHandle, None while the session is unknown         *)
(*   ptys       every PTY ever spawned; its index stands for the pid of    *)
(*              its process, and pids are not used twice                   *)
(*   mapped     the PTY in the PtyManager's map, 0 when there is none      *)
(*   watched    the PTY the session's activity monitor listens to, or 0    *)
(*   late       monitors that were sent an exit and have yet to act on it  *)
(*   disk       the entry of the session in workspace.json                 *)
(*   req        the requests under way: what is left of the program, the   *)
(*              copy of the handle or entry it took, the PTY or pid it     *)
(*              holds, and whether that PTY has a conversation of its own  *)
(*   overlapped two programs that may spawn were under way at once         *)
(*   limit      the bounds in force                                        *)
(***************************************************************************)
EXTENDS Naturals, Sequences

CONSTANTS
    None,
    Requests,   \* requests the daemon serves at the same time
    Limits,     \* bounds: each behaviour keeps one of these records of the handlers the
                \* requests may be for and of at most so many processes and runs of the daemon
    MaxLate     \* bound: monitors with an exit to act on; one more is aborted in time

ASSUME AgentSessionAssumption ==
    /\ Limits \subseteq [offered: SUBSET {"start", "list", "settings", "stop", "bootstrap", "attach"},
                         ptys: Nat \ {0}, runs: Nat \ {0}]
    /\ Limits # {} /\ MaxLate \in Nat \ {0}

VARIABLES run, handle, ptys, mapped, watched, late, disk, req, overlapped, limit

monitors == <<watched, late>>
vars == <<run, handle, ptys, mapped, monitors, disk, req, overlapped, limit>>

\* The conversation the session was started with, or one begun later on.
Conversations == {"first", "later"}

Resumability == {"Resumable", "Unresumable"}

\* Starting and Failed are never assigned.
AgentStatus == {"Running", "Stopped", "Restored"}

AgentHandle ==
    [status: AgentStatus, pid: Nat, conv: Conversations, resum: Resumability]

\* WorkspaceAgentEntry; its pid is written, but nothing uses what is read.
Entry == [conv: Conversations, resum: Resumability]

Pty ==
    [run: Nat, child: {"running", "exited", "reaped"}, stopped: BOOLEAN]

ASSUME NoneIsNoRecord == None \notin AgentHandle \cup Entry

Steps == {"spawn", "reconcile", "watch", "collect", "promote", "save", "peek",
          "promoteOne", "readPid", "unmonitor", "kill", "terminate", "mark",
          "readDisk", "check", "hydrate", "readHandle", "look", "killStale",
          "resume", "fallback", "insert", "regain", "attach",
          "freshKill", "freshRemove", "freshSpawn", "freshUpdate"}

Request ==
    [todo: Seq(Steps), copy: Entry \cup {None},
     pty: Nat, fresh: BOOLEAN]

Idle == [todo |-> << >>, copy |-> None, pty |-> 0, fresh |-> FALSE]

TypeOK ==
    /\ limit \in Limits
    /\ run \in 1 .. limit.runs
    /\ handle \in AgentHandle \cup {None}
    /\ ptys \in Seq(Pty) /\ Len(ptys) =< limit.ptys
    /\ mapped \in 0 .. Len(ptys)
    /\ watched \in 0 .. Len(ptys)
    /\ late \in 0 .. MaxLate
    /\ disk \in Entry \cup {None}
    /\ req \in [Requests -> Request]
    /\ overlapped \in BOOLEAN

Init ==
    /\ limit \in Limits
    /\ run = 1
    /\ handle = None
    /\ ptys = << >>
    /\ mapped = 0
    /\ watched = 0 /\ late = 0
    /\ disk = None
    /\ req = [r \in Requests |-> Idle]
    /\ overlapped = FALSE

-----------------------------------------------------------------------------
(* Programs.                                                               *)

\* list_sessions, the persisting of what it returned, and get_handle.
Listing == <<"reconcile", "watch", "collect", "promote">>
Saving == Listing \o <<"save">>
Getting == <<"reconcile", "watch", "peek", "promoteOne">>

Attaching == <<"reconcile", "watch", "readHandle", "look">>
Stopping == <<"readPid", "unmonitor", "kill", "terminate", "mark">>
Resuming == <<"killStale", "resume", "insert", "attach", "regain", "attach">>
Refreshing == <<"freshKill", "freshRemove", "freshSpawn", "freshUpdate", "attach">>

Programs ==
    [start     |-> <<"spawn", "attach">> \o (Getting \o Saving),
     list      |-> Listing,
     settings  |-> Getting \o Saving,
     stop      |-> Getting \o (Stopping \o Saving),
     bootstrap |-> <<"readDisk", "check", "hydrate">> \o Listing,
     attach    |-> Attaching]

At(r, step) == req[r].todo # << >> /\ Head(req[r].todo) = step

\* The request goes on, or goes on with another program.
Onward(r) == req' = [req EXCEPT ![r].todo = Tail(@)]
Go(r, program) == req' = [req EXCEPT ![r].todo = program]
Finish(r) == req' = [req EXCEPT ![r] = Idle]
Done(r) == IF Len(req[r].todo) = 1 THEN Finish(r) ELSE Onward(r)

MaySpawn(r) == \E i \in DOMAIN req[r].todo : req[r].todo[i] \in
    {"look", "killStale", "resume", "fallback", "insert",
     "freshKill", "freshRemove", "freshSpawn", "freshUpdate"}

Begin(r, name) ==
    /\ req[r] = Idle
    /\ name = "start" <=> ptys = << >> /\ handle = None /\ \A q \in Requests : req[q] = Idle
    /\ Go(r, Programs[name])
    /\ overlapped' = (overlapped \/ (name = "attach" /\ \E q \in Requests : MaySpawn(q)))
    /\ UNCHANGED <<run, handle, ptys, mapped, monitors, disk, limit>>

-----------------------------------------------------------------------------
(* Processes and PTYs.                                                     *)

Alive(pid) == pid # 0 /\ ptys[pid].child # "reaped"

\* `kill -0` finds a process until it is reaped.
LivePty == mapped # 0 /\ ~ptys[mapped].stopped

Active(h) == h # None /\ h.status \in {"Running", "Restored"}

Exited(p) == [p EXCEPT !.child = IF @ = "running" THEN "exited" ELSE @]

OneMore(n) == IF n < MaxLate THEN n + 1 ELSE n

\* The exit of PTY n is broadcast: the monitor that listens will act on it.
Announce(n) ==
    IF watched = n THEN watched' = 0 /\ late' = OneMore(late) ELSE UNCHANGED monitors

Spawned == [run |-> run, child |-> "running", stopped |-> FALSE]

\* Mutant of Create: the map keeps the PTY it has.
CreateKeepsOld ==
    /\ Len(ptys) < limit.ptys
    /\ ptys' = Append(ptys, Spawned)
    /\ mapped' = IF mapped = 0 THEN Len(ptys) + 1 ELSE mapped

\* PtyManager::create: whatever was in the map is dropped from it.
Create ==
    /\ Len(ptys) < limit.ptys
    /\ ptys' = Append(ptys, Spawned)
    /\ mapped' = Len(ptys) + 1

ChildExits(n) ==
    /\ ptys[n].child = "running"
    /\ ptys' = [ptys EXCEPT ![n] = Exited(@)]
    /\ UNCHANGED <<run, handle, mapped, monitors, disk, req, overlapped, limit>>

\* The reader thread sees the end of the output.
ReaderStops(n) ==
    /\ ptys[n].run = run
    /\ ~ptys[n].stopped
    /\ ptys' = [ptys EXCEPT ![n].stopped = TRUE]
    /\ UNCHANGED <<run, handle, mapped, monitors, disk, req, overlapped, limit>>

ReaderReaps(n) ==
    /\ ptys[n].run = run
    /\ ptys[n].stopped
    /\ ptys[n].child = "exited"
    /\ ptys' = [ptys EXCEPT ![n].child = "reaped"]
    /\ Announce(n)
    /\ UNCHANGED <<run, handle, mapped, disk, req, overlapped, limit>>

-----------------------------------------------------------------------------
(* Activity monitors.                                                      *)

\* ensure_activity_monitor aborts the task it replaces, which comes too late
\* for one that has already been sent the exit.
Listen(n) == watched' = n /\ UNCHANGED late

\* Every sender of the PTY is gone.  The exit branch of the select takes
\* that for an exit, the output branch only breaks.
MonitorClosed ==
    /\ watched # 0 /\ mapped # watched /\ ptys[watched].child = "reaped"
    /\ watched' = 0
    /\ late' \in {late, OneMore(late)}
    /\ UNCHANGED <<run, handle, ptys, mapped, disk, req, overlapped, limit>>

\* Mutant of MonitorMarks: does not wait for the exit.
MonitorMarksUnasked ==
    /\ late' = late - 1
    /\ handle' = IF handle = None THEN None
                 ELSE [handle EXCEPT !.status = "Stopped", !.pid = 0]
    /\ UNCHANGED <<run, ptys, mapped, watched, disk, req, overlapped, limit>>

\* The status is overwritten before it is compared with Restored, so that
\* the handle never becomes unresumable here.
MonitorMarks ==
    /\ late > 0
    /\ late' = late - 1
    /\ handle' = IF handle = None THEN None
                 ELSE [handle EXCEPT !.status = "Stopped", !.pid = 0]
    /\ UNCHANGED <<run, ptys, mapped, watched, disk, req, overlapped, limit>>

-----------------------------------------------------------------------------
(* Steps: reconcile, list, get, save.                                      *)

NextStatus(alive, status) ==
    IF status = "Restored" THEN "Restored"
    ELSE IF alive THEN "Running" ELSE "Stopped"

Reconcile(r) ==
    /\ At(r, "reconcile")
    /\ LET h == IF handle = None THEN None
                ELSE [handle EXCEPT !.status = NextStatus(Alive(handle.pid), @)]
       IN  /\ handle' = h
           /\ req' = [req EXCEPT ![r].todo = Tail(@),
                                 ![r].pty = IF Active(h) /\ LivePty THEN mapped ELSE 0]
    /\ UNCHANGED <<run, ptys, mapped, monitors, disk, overlapped, limit>>

\* The monitor of the PTY that reconcile found; and of the one attached to.
Watch(r) ==
    /\ At(r, "watch") \/ At(r, "attach")
    /\ IF req[r].pty = 0 THEN UNCHANGED monitors ELSE Listen(req[r].pty)
    /\ req' = [req EXCEPT ![r] = [Idle EXCEPT !.todo = Tail(req[r].todo)]]
    /\ UNCHANGED <<run, handle, ptys, mapped, disk, overlapped, limit>>

EntryOf(h) == [conv |-> h.conv, resum |-> h.resum]

\* What list_sessions returns is taken before Restored handles are promoted.
Collect(r) ==
    /\ At(r, "collect")
    /\ req' = [req EXCEPT ![r].todo = Tail(@),
                          ![r].copy = IF Active(handle) THEN EntryOf(handle) ELSE None]
    /\ UNCHANGED <<run, handle, ptys, mapped, monitors, disk, overlapped, limit>>

Promotable(h) == h # None /\ h.status = "Restored" /\ (LivePty \/ Alive(h.pid))

Promote(r) ==
    /\ At(r, "promote")
    /\ handle' = IF Promotable(handle) THEN [handle EXCEPT !.status = "Running"] ELSE handle
    /\ Done(r)
    /\ UNCHANGED <<run, ptys, mapped, monitors, disk, overlapped, limit>>

\* get_handle looks first and promotes later.
Peek(r) ==
    /\ At(r, "peek")
    /\ Go(r, IF Promotable(handle) THEN Tail(req[r].todo) ELSE Tail(Tail(req[r].todo)))
    /\ UNCHANGED <<run, handle, ptys, mapped, monitors, disk, overlapped, limit>>

PromoteOne(r) ==
    /\ At(r, "promoteOne")
    /\ handle' = IF handle # None /\ handle.status = "Restored"
                 THEN [handle EXCEPT !.status = "Running"] ELSE handle
    /\ Onward(r)
    /\ UNCHANGED <<run, ptys, mapped, monitors, disk, overlapped, limit>>

Save(r) ==
    /\ At(r, "save")
    /\ disk' = req[r].copy
    /\ Finish(r)
    /\ UNCHANGED <<run, handle, ptys, mapped, monitors, overlapped, limit>>

-----------------------------------------------------------------------------
(* Steps: start and stop.                                                  *)

\* start_session: nobody knows the new id before the handle is inserted.
Spawn(r) ==
    /\ At(r, "spawn")
    /\ Create
    /\ handle' = [status |-> "Running", pid |-> mapped', conv |-> "first", resum |-> "Resumable"]
    /\ req' = [req EXCEPT ![r].todo = Tail(@), ![r].pty = mapped']
    /\ UNCHANGED <<run, monitors, disk, overlapped, limit>>

ReadPid(r) ==
    /\ At(r, "readPid")
    /\ req' = [req EXCEPT ![r].todo = Tail(@),
                          ![r].pty = IF handle = None THEN 0 ELSE handle.pid]
    /\ UNCHANGED <<run, handle, ptys, mapped, monitors, disk, overlapped, limit>>

Unmonitor(r) ==
    /\ At(r, "unmonitor")
    /\ Listen(0)
    /\ Onward(r)
    /\ UNCHANGED <<run, handle, ptys, mapped, disk, overlapped, limit>>

\* PtySession::kill.
KillMapped(r) ==
    /\ At(r, "kill") \/ At(r, "freshKill")
    /\ IF LivePty
       THEN /\ ptys' = [ptys EXCEPT ![mapped] = [Exited(@) EXCEPT !.stopped = TRUE]]
            /\ Announce(mapped)
       ELSE UNCHANGED <<ptys, monitors>>
    /\ Onward(r)
    /\ UNCHANGED <<run, handle, mapped, disk, overlapped, limit>>

\* terminate_process of the pid in the copy: TERM, then KILL.
Terminate(r) ==
    /\ At(r, "terminate") \/ At(r, "killStale")
    /\ LET pid == req[r].pty
       IN  ptys' = IF pid = 0 THEN ptys ELSE [ptys EXCEPT ![pid] = Exited(@)]
    /\ req' = [req EXCEPT ![r].todo = Tail(@), ![r].pty = 0]
    /\ UNCHANGED <<run, handle, mapped, monitors, disk, overlapped, limit>>

\* process_id is left as it is.
Mark(r) ==
    /\ At(r, "mark")
    /\ handle' = IF handle = None THEN None ELSE [handle EXCEPT !.status = "Stopped"]
    /\ Onward(r)
    /\ UNCHANGED <<run, ptys, mapped, monitors, disk, overlapped, limit>>

-----------------------------------------------------------------------------
(* Steps: bootstrap.                                                       *)

\* The pid of the entry is not taken over.
Hydrated(entry) ==
    [status |-> "Restored", pid |-> 0, conv |-> entry.conv, resum |-> entry.resum]

ReadDisk(r) ==
    /\ At(r, "readDisk")
    /\ req' = IF disk = None THEN [req EXCEPT ![r].todo = Listing]
              ELSE [req EXCEPT ![r].todo = Tail(@), ![r].copy = disk]
    /\ UNCHANGED <<run, handle, ptys, mapped, monitors, disk, overlapped, limit>>

Check(r) ==
    /\ At(r, "check")
    /\ req' = IF Active(handle) THEN [req EXCEPT ![r] = [Idle EXCEPT !.todo = Listing]]
              ELSE [req EXCEPT ![r].todo = Tail(@)]
    /\ UNCHANGED <<run, handle, ptys, mapped, monitors, disk, overlapped, limit>>

Hydrate(r) ==
    /\ At(r, "hydrate")
    /\ handle' = Hydrated(req[r].copy)
    /\ req' = [req EXCEPT ![r].todo = Tail(@), ![r].copy = None]
    /\ UNCHANGED <<run, ptys, mapped, monitors, disk, overlapped, limit>>

-----------------------------------------------------------------------------
(* Steps: ensure_pty_attached, restore_session, spawn_fresh_for_session.   *)

ReadHandle(r) ==
    /\ At(r, "readHandle")
    /\ IF handle = None THEN Finish(r)
       ELSE req' = [req EXCEPT ![r].todo = Tail(@), ![r].copy = EntryOf(handle),
                               ![r].pty = handle.pid]
    /\ UNCHANGED <<run, handle, ptys, mapped, monitors, disk, overlapped, limit>>

\* Mutant of Look: spawns although the PTY runs.
LookPastLive(r) ==
    /\ At(r, "look")
    /\ IF req[r].copy.resum = "Unresumable"
       THEN req' = [req EXCEPT ![r] = [Idle EXCEPT !.todo = Refreshing]]
       ELSE Go(r, Resuming)
    /\ UNCHANGED <<run, handle, ptys, mapped, monitors, disk, overlapped, limit>>

\* The PTY that runs is returned; otherwise a process is spawned.
Look(r) ==
    /\ At(r, "look")
    /\ IF LivePty
       THEN req' = [req EXCEPT ![r] = [Idle EXCEPT !.todo = <<"attach">>, !.pty = mapped]]
       ELSE IF req[r].copy.resum = "Unresumable"
       THEN req' = [req EXCEPT ![r] = [Idle EXCEPT !.todo = Refreshing]]
       ELSE Go(r, Resuming)
    /\ UNCHANGED <<run, handle, ptys, mapped, monitors, disk, overlapped, limit>>

\* Create the PTY that is to resume the conversation; when that fails, one
\* with a conversation of its own; and when that fails too, give up.
Resume(r) ==
    /\ At(r, "resume")
    /\ \/ /\ Create
          /\ req' = [req EXCEPT ![r].todo = Tail(@), ![r].pty = mapped', ![r].fresh = FALSE]
       \/ /\ Go(r, <<"fallback">> \o Tail(req[r].todo))
          /\ UNCHANGED <<ptys, mapped>>
    /\ UNCHANGED <<run, handle, monitors, disk, overlapped, limit>>

Fallback(r) ==
    /\ At(r, "fallback") \/ At(r, "freshSpawn")
    /\ \/ /\ Create
          /\ req' = [req EXCEPT ![r].todo = Tail(@), ![r].pty = mapped', ![r].fresh = TRUE]
       \/ /\ Finish(r)
          /\ UNCHANGED <<ptys, mapped>>
    /\ UNCHANGED <<run, handle, monitors, disk, overlapped, limit>>

\* Mutant of Insert: a session that could not be resumed looks as if it had.
InsertResumable(r) ==
    /\ At(r, "insert")
    /\ handle' = [status |-> "Restored", pid |-> req[r].pty,
                  conv  |-> IF req[r].fresh THEN "later" ELSE req[r].copy.conv,
                  resum |-> "Resumable"]
    /\ req' = [req EXCEPT ![r].todo = Tail(@), ![r].copy = None, ![r].fresh = FALSE]
    /\ UNCHANGED <<run, ptys, mapped, monitors, disk, overlapped, limit>>

Insert(r) ==
    /\ At(r, "insert")
    /\ handle' = [status |-> "Restored", pid |-> req[r].pty,
                  conv  |-> IF req[r].fresh THEN "later" ELSE req[r].copy.conv,
                  resum |-> IF req[r].fresh THEN "Unresumable" ELSE "Resumable"]
    /\ req' = [req EXCEPT ![r].todo = Tail(@), ![r].copy = None, ![r].fresh = FALSE]
    /\ UNCHANGED <<run, ptys, mapped, monitors, disk, overlapped, limit>>

\* The PTY that is in the map by now.
Regain(r) ==
    /\ At(r, "regain")
    /\ IF mapped = 0 THEN Finish(r)
       ELSE req' = [req EXCEPT ![r].todo = Tail(@), ![r].pty = mapped]
    /\ UNCHANGED <<run, handle, ptys, mapped, monitors, disk, overlapped, limit>>

FreshRemove(r) ==
    /\ At(r, "freshRemove")
    /\ mapped' = 0
    /\ Onward(r)
    /\ UNCHANGED <<run, handle, ptys, monitors, disk, overlapped, limit>>

FreshUpdate(r) ==
    /\ At(r, "freshUpdate")
    /\ handle' = IF handle = None THEN None
                 ELSE [status |-> "Running", pid |-> req[r].pty, conv |-> "later",
                       resum |-> "Unresumable"]
    /\ Onward(r)
    /\ UNCHANGED <<run, ptys, mapped, monitors, disk, overlapped, limit>>

-----------------------------------------------------------------------------
\* The daemon dies, with or without shutdown_all, and starts again from
\* workspace.json.  A process may survive the loss of its terminal.
Restart ==
    /\ run < limit.runs
    /\ run' = run + 1
    /\ \E survivors \in SUBSET {n \in DOMAIN ptys : ptys[n].child = "running"} :
          ptys' = [n \in DOMAIN ptys |->
                     [ptys[n] EXCEPT !.stopped = TRUE,
                                     !.child = IF n \in survivors THEN @ ELSE "reaped"]]
    /\ handle' = IF disk = None THEN None ELSE Hydrated(disk)
    /\ mapped' = 0
    /\ watched' = 0 /\ late' = 0
    /\ req' = [r \in Requests |-> Idle]
    /\ overlapped' = FALSE
    /\ UNCHANGED <<disk, limit>>

Listed(r) == Reconcile(r) \/ Watch(r) \/ Collect(r) \/ Promote(r)

Serve(r) ==
    \/ Listed(r) \/ Peek(r) \/ PromoteOne(r) \/ Save(r)
    \/ Spawn(r) \/ ReadPid(r) \/ Unmonitor(r) \/ KillMapped(r) \/ Terminate(r) \/ Mark(r)
    \/ ReadDisk(r) \/ Check(r) \/ Hydrate(r)
    \/ ReadHandle(r) \/ Look(r) \/ Resume(r) \/ Fallback(r) \/ Insert(r) \/ Regain(r)
    \/ FreshRemove(r) \/ FreshUpdate(r)

Next ==
    \/ \E r \in Requests : Serve(r) \/ \E name \in limit.offered : Begin(r, name)
    \/ \E n \in DOMAIN ptys : ChildExits(n) \/ ReaderStops(n) \/ ReaderReaps(n)
    \/ MonitorClosed \/ MonitorMarks
    \/ Restart

Spec == Init /\ [][Next]_vars
-----------------------------------------------------------------------------
\* A conversation is never lost without a word: whatever requests, exits and
\* restarts came between, a handle, a saved entry or a request that holds
\* another conversation than the first says that this could not be resumed.
NoSilentLoss ==
    /\ handle # None /\ handle.conv = "later" => handle.resum = "Unresumable"
    /\ disk # None /\ disk.conv = "later" => disk.resum = "Unresumable"
    /\ \A r \in Requests :
          LET c == req[r].copy IN c # None /\ c.conv = "later" => c.resum = "Unresumable"

\* restore_session kills the process of the pid it was given as stale: it is
\* never the one of the PTY that clients are attached to by then.
StaleIsNotAttached ==
    \A r \in Requests : At(r, "killStale") /\ LivePty => req[r].pty # mapped

\* Unless two attaching requests overlapped, no process runs whose terminal
\* is still being read but that the PtyManager has lost sight of.
LeakNeedsOverlap ==
    ~overlapped => \A n \in DOMAIN ptys : ~ptys[n].stopped => n = mapped

\* The comment in recorder.rs: an exit that finds the session Restored means
\* that resuming it failed, and marks it as unresumable.
FailedResumeIsMarked ==
    [][(/\ late' < late /\ run' = run
        /\ handle # None /\ handle.status = "Restored")
       => handle'.resum = "Unresumable"]_vars
=============================================================================

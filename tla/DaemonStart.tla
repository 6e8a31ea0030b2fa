----------------------------- MODULE DaemonStart -----------------------------
(***************************************************************************)
(* The commands that start, stop and watch the daemon, and the pid file    *)
(* through which they know of each other (loopwired/src/main.rs and        *)
(* lib.rs).  Every command is a process of its own; nothing locks the pid  *)
(* file, and each step below is one read, write, removal or signal.        *)
(*                                                                         *)
(* A pid may be given to another process once its process is gone, as a    *)
(* reboot does to the pid that a crashed daemon left in the file.          *)
(***************************************************************************)
EXTENDS Naturals, FiniteSets

CONSTANTS Pids,   \* the process ids of the machine
          Ports,  \* the values of --port
          Absent

ASSUME AbsentIsNoPid == Absent \notin Pids

VARIABLES pidFile, \* the pid file: a pid, or Absent when it is missing or not a number
          proc,    \* what the process of each pid is and where it stands
          holder,  \* who listens on each port
          overlap, \* some command ran while a daemon was starting
          struck   \* a signal reached a program that was never checked to be loopwired

daemonVars == <<pidFile, proc, holder, overlap, struck>>

Commands == {"start", "run", "stop", "status"}
Programs == {"other", "heir"}  \* programs that are not loopwired, see Stranger

Nobody == [kind |-> "other", at |-> "gone", sees |-> Absent, wants |-> Absent]

DaemonInit ==
  /\ pidFile = Absent
  /\ proc = [p \in Pids |-> Nobody]
  /\ holder = [x \in Ports |-> Absent]
  /\ overlap = FALSE
  /\ struck = FALSE

-----------------------------------------------------------------------------
(* What a command asks the system about a pid.                             *)

IsAlive(p) == proc[p].at # "gone"

\* pid_looks_like_loopwired: any process of the binary, whatever its command.
LooksLikeLoopwired(p) == IsAlive(p) /\ proc[p].kind \in Commands

\* Mutant of Found: any live process will do.
FoundAlive(p) == proc[p].sees # Absent /\ IsAlive(proc[p].sees)

\* Mutant of Found: only start, and not the run it spawns, looks for a daemon.
FoundUnlessRun(p) == proc[p].kind # "run" /\ proc[p].sees # Absent /\ LooksLikeLoopwired(proc[p].sees)

\* The process that a command has read from the file is taken for the daemon.
Found(p) == proc[p].sees # Absent /\ LooksLikeLoopwired(proc[p].sees)

GoesTo(p, place) == proc' = [proc EXCEPT ![p].at = place]
Gone(p) == proc' = [proc EXCEPT ![p] = Nobody]
Released(p) == [x \in Ports |-> IF holder[x] = p THEN Absent ELSE holder[x]]
At(p, kinds, place) == proc[p].kind \in kinds /\ proc[p].at = place

\* A command that has not ended, a daemon only until it serves.
Starting(p) == At(p, {"run"}, proc[p].at) /\ proc[p].at \in {"begun", "read", "stale", "clear", "wrote"}
InProgress(p) == Starting(p) \/ (IsAlive(p) /\ proc[p].kind \in Commands \ {"run"})

Meets(kind, others) ==
  \E q \in others : InProgress(q) /\ (kind = "run" \/ proc[q].kind = "run")

Born(kind, x) == [kind |-> kind, at |-> "begun", sees |-> Absent, wants |-> x]

-----------------------------------------------------------------------------
(* What every command does first.                                          *)

Begin(kind, p, x) ==
  /\ ~IsAlive(p)
  /\ proc' = [proc EXCEPT ![p] = Born(kind, x)]
  /\ overlap' = (overlap \/ Meets(kind, Pids))
  /\ UNCHANGED <<pidFile, holder, struck>>

\* read_pid
Read(p) ==
  /\ At(p, Commands, "begun")
  /\ proc' = [proc EXCEPT ![p].sees = pidFile, ![p].at = "read"]
  /\ UNCHANGED <<pidFile, holder, overlap, struck>>

\* "Daemon already running", and what status prints of a daemon it finds.
Bail(p) ==
  /\ At(p, Commands \ {"stop"}, "read")
  /\ Found(p)
  /\ Gone(p)
  /\ UNCHANGED <<pidFile, holder, overlap, struck>>

\* The process is gone, or of another program.
FindsStale(p) ==
  /\ At(p, Commands, "read")
  /\ proc[p].sees # Absent
  /\ ~Found(p)
  /\ GoesTo(p, "stale")
  /\ UNCHANGED <<pidFile, holder, overlap, struck>>

\* remove_pid, whatever the file holds by now.
CleanUp(p) ==
  /\ At(p, Commands, "stale")
  /\ pidFile' = Absent
  /\ IF proc[p].kind \in {"start", "run"} THEN GoesTo(p, "clear") ELSE Gone(p)
  /\ UNCHANGED <<holder, overlap, struck>>

NoPid(p) ==
  /\ At(p, Commands, "read")
  /\ proc[p].sees = Absent
  /\ IF proc[p].kind \in {"start", "run"} THEN GoesTo(p, "clear") ELSE Gone(p)
  /\ UNCHANGED <<pidFile, holder, overlap, struck>>

\* start spawns `loopwired run` and ends without waiting for it.
Spawn(p, q) ==
  /\ At(p, {"start"}, "clear")
  /\ ~IsAlive(q)
  /\ proc' = [proc EXCEPT ![q] = Born("run", proc[p].wants), ![p] = Nobody]
  /\ overlap' = (overlap \/ Meets("run", Pids \ {p}))
  /\ UNCHANGED <<pidFile, holder, struck>>

-----------------------------------------------------------------------------
(* The daemon.                                                             *)

WritePid(p) ==
  /\ At(p, {"run"}, "clear")
  /\ pidFile' = p
  /\ GoesTo(p, "wrote")
  /\ UNCHANGED <<holder, overlap, struck>>

\* fs::write has truncated the file when the process dies.
WriteTorn(p) ==
  /\ At(p, {"run"}, "clear")
  /\ pidFile' = Absent
  /\ Gone(p)
  /\ UNCHANGED <<holder, overlap, struck>>

\* After the state is loaded: TcpListener::bind, then axum::serve with its handler of SIGTERM.
Bind(p) ==
  /\ At(p, {"run"}, "wrote")
  /\ holder[proc[p].wants] = Absent
  /\ holder' = [holder EXCEPT ![proc[p].wants] = p]
  /\ GoesTo(p, "serving")
  /\ UNCHANGED <<pidFile, overlap, struck>>

\* The ? of bind: the process ends and leaves its pid in the file.
BindFails(p) ==
  /\ At(p, {"run"}, "wrote")
  /\ holder[proc[p].wants] # Absent
  /\ Gone(p)
  /\ UNCHANGED <<pidFile, holder, overlap, struck>>

\* ctrl-c, or the SIGTERM of a service manager.
Interrupt(p) ==
  /\ At(p, {"run"}, "serving")
  /\ GoesTo(p, "stopping")
  /\ UNCHANGED <<pidFile, holder, overlap, struck>>

\* shutdown_all has returned: remove_pid, in the shutdown future.
RemovePid(p) ==
  /\ At(p, {"run"}, "stopping")
  /\ pidFile' = Absent
  /\ GoesTo(p, "removed")
  /\ UNCHANGED <<holder, overlap, struck>>

\* Mutant of CloseListener: the port is kept until the last request has ended.
CloseListenerLate(p) ==
  /\ At(p, {"run"}, "removed")
  /\ GoesTo(p, "draining")
  /\ UNCHANGED <<pidFile, holder, overlap, struck>>

\* axum drops the listener once that future is ready, and lets the open requests end.
CloseListener(p) ==
  /\ At(p, {"run"}, "removed")
  /\ holder' = Released(p)
  /\ GoesTo(p, "draining")
  /\ UNCHANGED <<pidFile, overlap, struck>>

Drained(p) ==
  /\ At(p, {"run"}, "draining")
  /\ Gone(p)
  /\ UNCHANGED <<pidFile, holder, overlap, struck>>

\* A process of the binary dies: a panic, a failing load of the state, kill -9.
Crash(p) ==
  /\ LooksLikeLoopwired(p)
  /\ Gone(p)
  /\ holder' = Released(p)
  /\ UNCHANGED <<pidFile, overlap, struck>>

-----------------------------------------------------------------------------
(* stop                                                                    *)

StopFinds(p) ==
  /\ At(p, {"stop"}, "read")
  /\ Found(p)
  /\ GoesTo(p, "signal")
  /\ UNCHANGED <<pidFile, holder, overlap, struck>>

\* A daemon that serves shuts down and one that shuts down already goes on;
\* before that, and in any other process, SIGTERM has its default action.
StopTerminates(p) ==
  /\ At(p, {"stop"}, "signal")
  /\ IsAlive(proc[p].sees)
  /\ LET t == proc[p].sees
         died == proc[t].at \notin {"serving", "stopping", "removed", "draining", "dying"}
         felled == [proc EXCEPT ![p].at = "polling",
                                ![t] = CASE proc[t].at = "serving" -> [@ EXCEPT !.at = "stopping"]
                                         [] died -> Nobody
                                         [] OTHER -> @]
     IN  /\ proc' = IF t = p THEN [proc EXCEPT ![p] = Nobody] ELSE felled
         /\ struck' = (struck \/ proc[t].kind = "other")
  /\ UNCHANGED <<pidFile, holder, overlap>>

\* The ? of send_signal: the process ended just before, and its pid stays in the file.
StopFails(p) ==
  /\ At(p, {"stop"}, "signal") \/ At(p, {"stop"}, "polled")
  /\ ~IsAlive(proc[p].sees)
  /\ Gone(p)
  /\ UNCHANGED <<pidFile, holder, overlap, struck>>

\* The process is gone, or has been polled 50 times.
StopPolled(p) ==
  /\ At(p, {"stop"}, "polling")
  /\ GoesTo(p, "polled")
  /\ UNCHANGED <<pidFile, holder, overlap, struck>>

\* SIGKILL for what is still alive under that pid; nobody waits for it to end.
StopKills(p) ==
  /\ At(p, {"stop"}, "polled")
  /\ LET t == proc[p].sees IN
       /\ IF IsAlive(t) THEN proc' = [proc EXCEPT ![p].at = "killed", ![t].at = "dying"]
          ELSE GoesTo(p, "killed")
       /\ struck' = (struck \/ (proc[t].kind = "other" /\ IsAlive(t)))
  /\ UNCHANGED <<pidFile, holder, overlap>>

StopEnds(p) ==
  /\ At(p, {"stop"}, "killed")
  /\ pidFile' = Absent
  /\ Gone(p)
  /\ UNCHANGED <<holder, overlap, struck>>

\* A killed process is gone, and its listener with it.
Dies(p) ==
  /\ proc[p].at = "dying"
  /\ Gone(p)
  /\ holder' = Released(p)
  /\ UNCHANGED <<pidFile, overlap, struck>>

-----------------------------------------------------------------------------
(* The rest of the machine: other programs that come and go.  An heir gets *)
(* a pid that a stop has checked and not yet let go.                       *)

Stranger(p) ==
  /\ ~IsAlive(p)
  /\ LET heir == \E q \in Pids : At(q, {"stop"}, proc[q].at) /\ IsAlive(q) /\ proc[q].sees = p
     IN  proc' = [proc EXCEPT ![p] = [Nobody EXCEPT !.at = "living", !.kind = IF heir THEN "heir" ELSE "other"]]
  /\ UNCHANGED <<pidFile, holder, overlap, struck>>

StrangerEnds(p) ==
  /\ At(p, Programs, "living")
  /\ Gone(p)
  /\ UNCHANGED <<pidFile, holder, overlap, struck>>

DaemonNext ==
  \E p \in Pids :
    \/ \E x \in Ports : Begin("start", p, x) \/ Begin("run", p, x)
    \/ Begin("stop", p, Absent) \/ Begin("status", p, Absent)
    \/ Read(p) \/ Bail(p) \/ FindsStale(p) \/ CleanUp(p) \/ NoPid(p)
    \/ \E q \in Pids : Spawn(p, q)
    \/ WritePid(p) \/ WriteTorn(p) \/ Bind(p) \/ BindFails(p)
    \/ Interrupt(p) \/ RemovePid(p) \/ CloseListener(p) \/ Drained(p) \/ Crash(p)
    \/ StopFinds(p) \/ StopTerminates(p) \/ StopFails(p) \/ StopPolled(p) \/ StopKills(p) \/ StopEnds(p) \/ Dies(p)
    \/ Stranger(p) \/ StrangerEnds(p)

DaemonSpec == DaemonInit /\ [][DaemonNext]_daemonVars

-----------------------------------------------------------------------------
(* As long as no other command runs while a daemon starts, every daemon    *)
(* that serves is the one the pid file names: there is one of them, on     *)
(* whatever port, and status and stop find it.  The file is written before *)
(* the port is taken, removed by three commands and by the daemon itself,  *)
(* and left behind by crashes and failed binds (main.rs:199-470).          *)
PidFileNamesTheDaemon ==
  ~overlap => \A p \in Pids : At(p, {"run"}, "serving") => pidFile = p

(* As long as no other command runs while a daemon starts, a daemon that   *)
(* finds its port taken has found a daemon that is leaving: one between    *)
(* the removal of its pid and the end of its listener, or one that stop    *)
(* has killed and not waited for (main.rs:361, 447).                       *)
PortIsLostToALeaverOnly ==
  ~overlap => \A p \in Pids : At(p, {"run"}, "wrote") =>
    LET q == holder[proc[p].wants] IN q = Absent \/ proc[q].at \in {"removed", "dying"}

(* No signal reaches a program that already had its pid when the command   *)
(* looked: only one that inherits the pid of a daemon which ends while     *)
(* stop polls can be killed in its place (main.rs:436-449).                *)
StrangersAreSpared == ~struck
=============================================================================

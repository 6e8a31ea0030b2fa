------------------------------- MODULE Activity -------------------------------
(***************************************************************************)
(* What an agent session is doing, guessed from its input, its output and  *)
(* the time: SessionActivityState (lw-agent activity.rs). The operators    *)
(* below are its methods, as functions of the state.                       *)
(*                                                                         *)
(*   phase, reason   activity.phase and activity.reason; is_idle is TRUE   *)
(*                   in the phase awaiting_user and in no other            *)
(*   pending         pending_command                                       *)
(*   in, out, busy   time since last_input_at, last_output_at and          *)
(*                   busy_since, which never matters beyond a threshold    *)
(*   n               history: how many times the activity has changed      *)
(***************************************************************************)
EXTENDS Naturals

CONSTANTS
    None,
    IdleDebounce,       \* idle_debounce (1200 ms)
    BusyMinHold,        \* busy_min_hold (500 ms)
    ProcessingStale,    \* processing_stale (120 s)
    StreamingQuiet      \* streaming_quiet_to_processing (1500 ms)

ASSUME ActivityAssumption ==
    /\ BusyMinHold \in Nat /\ IdleDebounce \in Nat /\ StreamingQuiet \in Nat /\ ProcessingStale \in Nat
    /\ BusyMinHold =< IdleDebounce /\ IdleDebounce =< StreamingQuiet /\ StreamingQuiet =< ProcessingStale
    /\ None \notin Nat

Phases == {"unknown", "awaiting_user", "user_input", "processing", "streaming_output"}

Reasons == {"session_started", "command_submitted", "input_observed", "prompt_hint",
            "output_activity", "input_idle", "awaiting_completion", "idle_timeout",
            "processing_stale", "session_exit", "session_stopped", "session_not_running"}

Age == Nat \cup {None}

SessionActivityState ==
    [phase: Phases, reason: Reasons, pending: BOOLEAN, in: Age, out: Age, busy: Age, n: Nat]

NewUnknown ==
    [phase |-> "unknown", reason |-> "session_started", pending |-> FALSE,
     in |-> None, out |-> None, busy |-> None, n |-> 0]

IsIdle(s) == s.phase = "awaiting_user"

\* What the clients are told.
AgentActivity == [phase: Phases, reason: Reasons, n: Nat]

ASSUME NoneIsNoRecord == None \notin AgentActivity

Snapshot(s) == [phase |-> s.phase, reason |-> s.reason, n |-> s.n]

Transition(s, phase, reason) ==
    [s EXCEPT !.phase = phase, !.reason = reason,
              !.busy = IF phase = "awaiting_user" THEN None ELSE IF @ = None THEN 0 ELSE @,
              !.n = IF s.phase # phase \/ s.reason # reason THEN @ + 1 ELSE @]

\* Input with or without a newline. Typing on top of a running command changes nothing.
OnInput(s, submitted) ==
    LET t == [s EXCEPT !.in = 0] IN
    IF submitted THEN Transition([t EXCEPT !.pending = TRUE], "processing", "command_submitted")
    ELSE IF s.phase \in {"unknown", "awaiting_user"} THEN Transition(t, "user_input", "input_observed")
    ELSE t

\* Mutant of OnOutput: a prompt leaves the command pending.
OnOutputStillPending(s, hint) ==
    LET t == [s EXCEPT !.out = 0] IN
    IF hint THEN Transition(t, "awaiting_user", "prompt_hint")
    ELSE IF s.phase = "user_input" THEN t
    ELSE Transition(t, "streaming_output", "output_activity")

\* Output that ends like a prompt or not. While the user types, output is an echo.
OnOutput(s, hint) ==
    LET t == [s EXCEPT !.out = 0] IN
    IF hint THEN Transition([t EXCEPT !.pending = FALSE], "awaiting_user", "prompt_hint")
    ELSE IF s.phase = "user_input" THEN t
    ELSE Transition(t, "streaming_output", "output_activity")

OnSessionStopped(s, reason) == Transition([s EXCEPT !.pending = FALSE], "unknown", reason)

AtLeast(age, threshold) == age # None /\ age >= threshold

\* The agent has been quiet, and busy before, for long enough.
WentQuiet(s) ==
    /\ AtLeast(s.out, IdleDebounce)
    /\ (IF s.busy = None THEN 0 ELSE s.busy) >= BusyMinHold

\* Mutant of OnTick: only output counts, so the end of typing goes unnoticed.
OnTickOutputOnly(s) ==
    CASE s.out = None -> s
      [] s.phase \in {"streaming_output", "processing"} /\ WentQuiet(s) ->
            Transition([s EXCEPT !.pending = FALSE], "awaiting_user", "idle_timeout")
      [] OTHER -> s

\* The clock of the monitor: the first case that applies, in the order of the code.
OnTick(s) ==
    CASE s.phase = "user_input" ->
            IF AtLeast(s.in, IdleDebounce) THEN Transition(s, "awaiting_user", "input_idle") ELSE s
      [] s.phase # "user_input" /\ s.out # None /\ s.pending ->
            IF s.phase = "streaming_output" /\ AtLeast(s.out, StreamingQuiet)
            THEN Transition(s, "processing", "awaiting_completion")
            ELSE IF s.phase = "processing" /\ WentQuiet(s)
            THEN Transition([s EXCEPT !.pending = FALSE], "awaiting_user", "idle_timeout")
            ELSE IF AtLeast(s.in, ProcessingStale)
            THEN Transition([s EXCEPT !.pending = FALSE], "unknown", "processing_stale")
            ELSE s
      [] s.phase \in {"streaming_output", "processing"} /\ ~s.pending /\ WentQuiet(s) ->
            Transition(s, "awaiting_user", "idle_timeout")
      [] OTHER -> s

\* Time passes, as far as the thresholds can tell.
Older(age, most) == IF age = None \/ age >= most THEN age ELSE age + 1

Elapsed(s) ==
    [s EXCEPT !.in = Older(@, ProcessingStale), !.out = Older(@, StreamingQuiet),
              !.busy = Older(@, BusyMinHold)]
=============================================================================

---------------------------- MODULE ActivityProofs ----------------------------
(***************************************************************************)
(* The activity of a session, proved for every timing, every number of     *)
(* events and connections, and every interleaving of ActivityFeed: while a *)
(* command is pending the session is shown at work. The lemmas go through  *)
(* the five methods of SessionActivityState, the invariant through the     *)
(* recorders that call them.                                               *)
(***************************************************************************)
EXTENDS ActivityFeed, SequenceTheorems, TLAPS

Busy(s) == s.pending => s.phase \in {"processing", "streaming_output"}

IInv == state \in SessionActivityState /\ Busy(state)

\* A transition of a state keeps its type and leaves whether a command is pending alone.
LEMMA TransitionKeeps ==
    ASSUME NEW s \in SessionActivityState, NEW phase \in Phases, NEW reason \in Reasons
    PROVE  /\ Transition(s, phase, reason) \in SessionActivityState
           /\ Transition(s, phase, reason).phase = phase
           /\ Transition(s, phase, reason).pending = s.pending
<1> DEFINE b == IF phase = "awaiting_user" THEN None ELSE IF s.busy = None THEN 0 ELSE s.busy
           m == IF s.phase # phase \/ s.reason # reason THEN s.n + 1 ELSE s.n
<1>1. b \in Age /\ m \in Nat
  BY DEF SessionActivityState, Age
<1>2. Transition(s, phase, reason) =
          [s EXCEPT !.phase = phase, !.reason = reason, !.busy = b, !.n = m]
  BY DEF Transition, SessionActivityState
<1> HIDE DEF b, m
<1> QED
  BY <1>1, <1>2 DEF SessionActivityState

\* Every method keeps the type, and a pending command busy.
LEMMA OnInputKeeps ==
    ASSUME NEW s \in SessionActivityState, Busy(s), NEW submitted \in BOOLEAN
    PROVE  OnInput(s, submitted) \in SessionActivityState /\ Busy(OnInput(s, submitted))
<1> DEFINE t == [s EXCEPT !.in = 0]
           u == [t EXCEPT !.pending = TRUE]
<1>1. t \in SessionActivityState /\ u \in SessionActivityState /\ t.phase = s.phase /\ t.pending = s.pending
  BY DEF SessionActivityState, Age
<1>2. OnInput(s, submitted) =
          IF submitted THEN Transition(u, "processing", "command_submitted")
          ELSE IF s.phase \in {"unknown", "awaiting_user"} THEN Transition(t, "user_input", "input_observed")
          ELSE t
  BY DEF OnInput
<1> HIDE DEF t, u
<1>3. CASE submitted
  BY <1>1, <1>2, <1>3, TransitionKeeps DEF Busy, Phases, Reasons
<1>4. CASE ~submitted /\ s.phase \in {"unknown", "awaiting_user"}
  <2>1. s.pending = FALSE
    BY <1>4 DEF Busy, SessionActivityState
  <2> QED
    BY <1>1, <1>2, <1>4, <2>1, TransitionKeeps DEF Busy, Phases, Reasons
<1>5. CASE ~submitted /\ s.phase \notin {"unknown", "awaiting_user"}
  BY <1>1, <1>2, <1>5 DEF Busy
<1> QED
  BY <1>3, <1>4, <1>5

LEMMA OnOutputKeeps ==
    ASSUME NEW s \in SessionActivityState, Busy(s), NEW hint \in BOOLEAN
    PROVE  OnOutput(s, hint) \in SessionActivityState /\ Busy(OnOutput(s, hint))
<1> DEFINE t == [s EXCEPT !.out = 0]
           u == [t EXCEPT !.pending = FALSE]
<1>1. t \in SessionActivityState /\ u \in SessionActivityState /\ t.phase = s.phase /\ t.pending = s.pending /\ u.pending = FALSE
  BY DEF SessionActivityState, Age
<1>2. OnOutput(s, hint) =
          IF hint THEN Transition(u, "awaiting_user", "prompt_hint")
          ELSE IF s.phase = "user_input" THEN t
          ELSE Transition(t, "streaming_output", "output_activity")
  BY DEF OnOutput
<1> HIDE DEF t, u
<1>3. CASE hint
  BY <1>1, <1>2, <1>3, TransitionKeeps DEF Busy, Phases, Reasons
<1>4. CASE ~hint /\ s.phase = "user_input"
  BY <1>1, <1>2, <1>4 DEF Busy
<1>5. CASE ~hint /\ s.phase # "user_input"
  BY <1>1, <1>2, <1>5, TransitionKeeps DEF Busy, Phases, Reasons
<1> QED
  BY <1>3, <1>4, <1>5

LEMMA OnSessionStoppedKeeps ==
    ASSUME NEW s \in SessionActivityState, NEW reason \in Reasons
    PROVE  OnSessionStopped(s, reason) \in SessionActivityState /\ Busy(OnSessionStopped(s, reason))
<1> DEFINE u == [s EXCEPT !.pending = FALSE]
<1>1. u \in SessionActivityState /\ u.pending = FALSE
  BY DEF SessionActivityState
<1>2. OnSessionStopped(s, reason) = Transition(u, "unknown", reason)
  BY DEF OnSessionStopped
<1> HIDE DEF u
<1> QED
  BY <1>1, <1>2, TransitionKeeps DEF Busy, Phases, Reasons

\* A tick either leaves the state, or moves it, and only a move to processing leaves a command pending.
LEMMA OnTickKeeps ==
    ASSUME NEW s \in SessionActivityState, Busy(s)
    PROVE  OnTick(s) \in SessionActivityState /\ Busy(OnTick(s))
<1> DEFINE u == [s EXCEPT !.pending = FALSE]
<1>1. u \in SessionActivityState /\ u.pending = FALSE
  BY DEF SessionActivityState
<1>2. \/ OnTick(s) = s
      \/ s.phase = "user_input" /\ OnTick(s) = Transition(s, "awaiting_user", "input_idle")
      \/ OnTick(s) = Transition(s, "processing", "awaiting_completion")
      \/ OnTick(s) = Transition(u, "awaiting_user", "idle_timeout")
      \/ OnTick(s) = Transition(u, "unknown", "processing_stale")
      \/ ~s.pending /\ OnTick(s) = Transition(s, "awaiting_user", "idle_timeout")
  BY ZenonT(30) DEF OnTick
<1> HIDE DEF u
<1>3. CASE OnTick(s) = s
  BY <1>3
<1>4. CASE s.phase = "user_input" /\ OnTick(s) = Transition(s, "awaiting_user", "input_idle")
  <2>1. s.pending = FALSE
    BY <1>4 DEF Busy, SessionActivityState
  <2> QED
    BY <1>4, <2>1, TransitionKeeps DEF Busy, Phases, Reasons
<1>5. CASE OnTick(s) = Transition(s, "processing", "awaiting_completion")
  BY <1>5, TransitionKeeps DEF Busy, Phases, Reasons
<1>6. CASE OnTick(s) = Transition(u, "awaiting_user", "idle_timeout")
  BY <1>1, <1>6, TransitionKeeps DEF Busy, Phases, Reasons
<1>7. CASE OnTick(s) = Transition(u, "unknown", "processing_stale")
  BY <1>1, <1>7, TransitionKeeps DEF Busy, Phases, Reasons
<1>8. CASE ~s.pending /\ OnTick(s) = Transition(s, "awaiting_user", "idle_timeout")
  <2>1. s.pending = FALSE
    BY <1>8 DEF SessionActivityState
  <2> QED
    BY <1>8, <2>1, TransitionKeeps DEF Busy, Phases, Reasons
<1> QED
  BY <1>2, <1>3, <1>4, <1>5, <1>6, <1>7, <1>8

LEMMA ElapsedKeeps ==
    ASSUME NEW s \in SessionActivityState, Busy(s)
    PROVE  Elapsed(s) \in SessionActivityState /\ Busy(Elapsed(s))
<1>1. \A age \in Age : \A most \in Nat : Older(age, most) \in Age
  BY DEF Older, Age
<1>2. s.in \in Age /\ s.out \in Age /\ s.busy \in Age
  BY DEF SessionActivityState
<1> DEFINE i == Older(s.in, ProcessingStale)
           o == Older(s.out, StreamingQuiet)
           b == Older(s.busy, BusyMinHold)
<1>3. i \in Age /\ o \in Age /\ b \in Age
  BY <1>1, <1>2, ActivityAssumption
<1>4. Elapsed(s) = [s EXCEPT !.in = i, !.out = o, !.busy = b]
  BY DEF Elapsed, SessionActivityState
<1> HIDE DEF i, o, b
<1> QED
  BY <1>3, <1>4 DEF SessionActivityState, Busy

-----------------------------------------------------------------------------
\* A new session has no command pending.
LEMMA InitIInv == Init => IInv
<1> SUFFICES ASSUME Init PROVE IInv
  OBVIOUS
<1>1. state = NewUnknown
  BY DEF Init
<1> QED
  BY <1>1 DEF IInv, Busy, SessionActivityState, NewUnknown, Age, Phases, Reasons

\* Whoever records, the state changes by one of the methods.
LEMMA NextIInv == IInv /\ [Next]_vars => IInv'
<1> SUFFICES ASSUME IInv, [Next]_vars PROVE IInv'
  OBVIOUS
<1>1. state \in SessionActivityState /\ Busy(state)
  BY DEF IInv
<1>2. CASE UNCHANGED state
  BY <1>1, <1>2 DEF IInv
<1>3. ASSUME NEW hint \in BOOLEAN, Output(hint) PROVE IInv'
  <2>1. state' = OnOutput(state, hint)
    BY <1>3 DEF Output, Record
  <2> QED
    BY <1>1, <2>1, OnOutputKeeps DEF IInv
<1>4. CASE Tick
  <2>1. state' = OnTick(state)
    BY <1>4 DEF Tick, Record
  <2> QED
    BY <1>1, <2>1, OnTickKeeps DEF IInv
<1>5. CASE Elapse
  <2>1. state' = Elapsed(state)
    BY <1>5 DEF Elapse
  <2> QED
    BY <1>1, <2>1, ElapsedKeeps DEF IInv
<1>6. CASE MonitorExit
  <2>1. state' = OnSessionStopped(state, "session_exit")
    BY <1>6 DEF MonitorExit, Record
  <2> QED
    BY <1>1, <2>1, OnSessionStoppedKeeps DEF IInv, Reasons
<1>7. CASE InputRecorded
  <2>1. state' = OnInput(state, doing = "submitted")
    BY <1>7 DEF InputRecorded, Record
  <2> QED
    BY <1>1, <2>1, OnInputKeeps DEF IInv
<1>8. CASE StopRecorded
  <2>1. state' = OnSessionStopped(state, "session_stopped")
    BY <1>8 DEF StopRecorded, Record
  <2> QED
    BY <1>1, <2>1, OnSessionStoppedKeeps DEF IInv, Reasons
<1>9. CASE NextSession
  <2>1. CASE \E r \in Recorders : Emit(r)
    BY <1>2, <2>1 DEF Emit
  <2>2. CASE \E b \in BOOLEAN : Output(b) \/ Input(b)
    BY <1>2, <1>3, <2>2 DEF Input
  <2>3. CASE ProcessExits \/ MonitorMarks \/ Stop
    BY <1>2, <2>3 DEF ProcessExits, MonitorMarks, Stop
  <2> QED
    BY <1>4, <1>5, <1>6, <1>7, <1>8, <1>9, <2>1, <2>2, <2>3 DEF NextSession
<1>10. CASE NextBrowser
  <2>1. CASE Drop \/ Dial \/ Subscribe \/ Open \/ Deliver \/ Remove
    BY <1>2, <2>1 DEF Drop, Dial, Subscribe, Open, Deliver, Remove, session
  <2>2. ASSUME NEW f \in DOMAIN fetch, ReconcileRecords(f) PROVE IInv'
    <3>1. state' = OnSessionStopped(state, "session_not_running")
      BY <2>2 DEF ReconcileRecords, Record
    <3> QED
      BY <1>1, <3>1, OnSessionStoppedKeeps DEF IInv, Reasons
  <2>3. ASSUME NEW f \in DOMAIN fetch,
               \/ FindsStopped(f) \/ Restore(f) \/ Reconcile(f) \/ FetchLists(f) \/ FetchReads(f)
               \/ ReplyArrives(f) \/ FetchFails(f)
        PROVE IInv'
    BY <1>2, <2>3 DEF FindsStopped, Restore, Reconcile, FetchLists, FetchReads, ReplyArrives, FetchFails, session
  <2> QED
    BY <1>10, <2>1, <2>2, <2>3 DEF NextBrowser
<1>11. CASE UNCHANGED vars
  BY <1>2, <1>11 DEF vars, session
<1> QED
  BY <1>9, <1>10, <1>11 DEF Next

\* While a command is pending the session is shown at work (activity.rs), for every timing and
\* every interleaving of the monitor, the handlers and the clock.
THEOREM PendingIsBusy == Spec => []CommandIsBusy
<1>1. IInv => CommandIsBusy
  BY DEF IInv, Busy, CommandIsBusy
<1> QED
  BY <1>1, InitIInv, NextIInv, PTL DEF Spec
(* What the browser is told.  A change is known by its number: whatever is *)
(* on its way carries one, and the newest is the activity itself.          *)
Current(x) == x.n =< state.n /\ (x.n = state.n => x = Snapshot(state))

Working == {"asked", "stopped", "ensured", "marked", "reconciled", "listed", "answered"}

Fetch ==
    [step : Working \cup {"none", "done", "failed"},
     active : BOOLEAN, reply : AgentActivity]

FeedTypes ==
    /\ hold \in [Recorders -> AgentActivity \cup {None}]
    /\ sub \in BOOLEAN /\ feed \in Seq(AgentActivity)
    /\ limit \in Limits /\ sock \in [n : Conns, state : {"opening", "open", "closed"}]
    /\ fetch \in [Conns \cup {0} -> Fetch]
    /\ store \in AgentActivity \cup {None}
    /\ sent \in Nat /\ told \in Nat /\ heard \in BOOLEAN

AllCurrent ==
    /\ \A r \in Recorders : hold[r] # None => Current(hold[r])
    /\ \A i \in DOMAIN feed : Current(feed[i])
    /\ store # None => Current(store)
    /\ \A f \in DOMAIN fetch : Current(fetch[f].reply)

(* The newest change was sent, or a recorder is about to send it.          *)
NewestSent ==
    /\ sent =< state.n
    /\ sent = state.n \/ \E r \in Recorders : hold[r] # None /\ hold[r].n = state.n

(* A connection is hydrated once, after it opened and before it is closed, *)
(* and brings events once it has a subscription.                           *)
Connected ==
    /\ ~sub => feed = << >>
    /\ sock.state = "closed" => ~sub
    /\ sock.state = "opening" => fetch[sock.n].step = "none"
    /\ \A f \in DOMAIN fetch : f > sock.n => fetch[f].step = "none"
    /\ heard => sub \/ sock.state = "closed"
    /\ sock.state = "opening" => ~heard
    /\ \A f \in DOMAIN fetch : fetch[f].step = "done" => fetch[f].reply.n =< told

(* The last of what is under way to the browser is the newest that was     *)
(* sent.                                                                   *)
LastIsNewest == feed # << >> => feed[Len(feed)].n = sent

(* Once the connection told the browser something, and after what is under *)
(* way, it was told of that and shows it.                                  *)
ToldOfNewest ==
    sock.state = "open" /\ feed = << >> =>
        /\ fetch[sock.n].step = "answered" => sent =< told \/ sent =< fetch[sock.n].reply.n
        /\ Told => sent =< told
        /\ Told /\ store # None => sent =< store.n

(* Without a subscription nothing comes after the replies.                 *)
OnlyReplies ==
    sock.state = "open" /\ ~sub /\ Told /\ store # None => told =< store.n

FeedInv ==
    /\ FeedTypes /\ AllCurrent /\ NewestSent /\ Connected
    /\ ~overtaken => LastIsNewest /\ ToldOfNewest /\ OnlyReplies
-----------------------------------------------------------------------------
\* The numbers of connections.
LEMMA ConnsAreNumbers ==
    /\ Conns \subseteq Nat /\ 1 \in Conns /\ 0 \notin Conns
    /\ \A l \in Limits : \A k \in 1 .. l.conns : k \in Conns
<1>1. \A l \in Limits : l.conns \in Nat \ {0}
  BY ActivityFeedAssumption
<1>2. PICK l \in Limits : TRUE
  BY ActivityFeedAssumption
<1>3. 1 \in 1 .. l.conns
  BY <1>1
<1> QED
  BY <1>1, <1>2, <1>3 DEF Conns

\* A method changes what is told and counts it, or leaves both as they are.
Advances(s, t) == t.n = s.n + 1 \/ (t.n = s.n /\ Snapshot(t) = Snapshot(s))

LEMMA TransitionAdvances ==
    ASSUME NEW s \in SessionActivityState, NEW phase, NEW reason
    PROVE  Advances(s, Transition(s, phase, reason))
<1> DEFINE b == IF phase = "awaiting_user" THEN None ELSE IF s.busy = None THEN 0 ELSE s.busy
           m == IF s.phase # phase \/ s.reason # reason THEN s.n + 1 ELSE s.n
<1>1. Transition(s, phase, reason) =
          [s EXCEPT !.phase = phase, !.reason = reason, !.busy = b, !.n = m]
  BY DEF Transition, SessionActivityState
<1> HIDE DEF b
<1> QED
  BY <1>1 DEF Advances, Snapshot, SessionActivityState

\* What a method does first leaves what is told alone.
LEMMA AdvancesOver ==
    ASSUME NEW s, NEW t, NEW u, t.n = s.n, t.phase = s.phase, t.reason = s.reason, Advances(t, u)
    PROVE  Advances(s, u)
  BY DEF Advances, Snapshot

LEMMA MethodsAdvance ==
    ASSUME NEW s \in SessionActivityState
    PROVE  /\ \A b \in BOOLEAN : Advances(s, OnInput(s, b)) /\ Advances(s, OnOutput(s, b))
           /\ \A reason \in Reasons : Advances(s, OnSessionStopped(s, reason))
           /\ Advances(s, OnTick(s))
           /\ Elapsed(s).n = s.n /\ Snapshot(Elapsed(s)) = Snapshot(s)
<1>1. PICK i : i = [s EXCEPT !.in = 0]
  OBVIOUS
<1>2. PICK o : o = [s EXCEPT !.out = 0]
  OBVIOUS
<1>3. PICK t \in SessionActivityState : t = [i EXCEPT !.pending = TRUE]
  BY <1>1 DEF SessionActivityState, Age
<1>4. PICK p \in SessionActivityState : p = [o EXCEPT !.pending = FALSE]
  BY <1>2 DEF SessionActivityState, Age
<1>5. PICK q \in SessionActivityState : q = [s EXCEPT !.pending = FALSE]
  BY DEF SessionActivityState
<1>6. i \in SessionActivityState /\ o \in SessionActivityState
  BY <1>1, <1>2 DEF SessionActivityState, Age
<1>7. \A u \in {i, o, t, p, q} : u.n = s.n /\ u.phase = s.phase /\ u.reason = s.reason
  BY <1>1, <1>2, <1>3, <1>4, <1>5 DEF SessionActivityState
<1>8. \A u \in {s, i, o, t, p, q} : \A phase, reason : Advances(s, Transition(u, phase, reason))
  BY ZenonT(60), <1>3, <1>4, <1>5, <1>6, <1>7, TransitionAdvances, AdvancesOver
<1>9. Advances(s, s) /\ Advances(s, i) /\ Advances(s, o)
  BY <1>7 DEF Advances, Snapshot
<1>10. ASSUME NEW b \in BOOLEAN PROVE Advances(s, OnInput(s, b))
  <2>1. OnInput(s, b) =
          IF b THEN Transition(t, "processing", "command_submitted")
          ELSE IF s.phase \in {"unknown", "awaiting_user"} THEN Transition(i, "user_input", "input_observed")
          ELSE i
    BY <1>1, <1>3 DEF OnInput
  <2> QED
    BY <1>8, <1>9, <2>1
<1>11. ASSUME NEW b \in BOOLEAN PROVE Advances(s, OnOutput(s, b))
  <2>1. OnOutput(s, b) =
          IF b THEN Transition(p, "awaiting_user", "prompt_hint")
          ELSE IF s.phase = "user_input" THEN o
          ELSE Transition(o, "streaming_output", "output_activity")
    BY <1>2, <1>4 DEF OnOutput
  <2> QED
    BY <1>8, <1>9, <2>1
<1>12. ASSUME NEW reason \in Reasons PROVE Advances(s, OnSessionStopped(s, reason))
  BY <1>5, <1>8 DEF OnSessionStopped
<1>13. Advances(s, OnTick(s))
  <2>1. \/ OnTick(s) = s
        \/ \E u \in {s, q} : \E phase, reason : OnTick(s) = Transition(u, phase, reason)
    BY <1>5, ZenonT(30) DEF OnTick
  <2> QED
    BY <1>8, <1>9, <2>1
<1>14. Elapsed(s).n = s.n /\ Snapshot(Elapsed(s)) = Snapshot(s)
  BY DEF Elapsed, Snapshot, SessionActivityState
<1> QED
  BY <1>10, <1>11, <1>12, <1>13, <1>14

LEMMA SnapshotType ==
    ASSUME NEW s \in SessionActivityState
    PROVE  Snapshot(s) \in AgentActivity /\ Snapshot(s).n = s.n /\ Snapshot(s) # None
  BY NoneIsNoRecord DEF Snapshot, AgentActivity, SessionActivityState

-----------------------------------------------------------------------------
LEMMA FeedElements ==
    ASSUME FeedTypes
    PROVE  Len(feed) \in Nat /\ DOMAIN feed = 1 .. Len(feed)
           /\ \A i \in DOMAIN feed : feed[i] \in AgentActivity
<1>1. feed \in Seq(AgentActivity)
  BY DEF FeedTypes
<1>2. Len(feed) \in Nat /\ DOMAIN feed = 1 .. Len(feed)
  BY <1>1, LenProperties
<1> QED
  BY <1>1, <1>2, ElementOfSeq

\* What is on its way stays current when the activity moves on.
LEMMA CurrentStays ==
    ASSUME NEW s \in SessionActivityState, NEW t \in SessionActivityState, Advances(s, t),
           state = s, state' = t
    PROVE  \A x \in AgentActivity : Current(x) => Current(x)'
<1>1. s.n \in Nat /\ t.n \in Nat
  BY DEF SessionActivityState
<1> QED
  BY <1>1 DEF Current, AgentActivity, Advances

\* The part of the invariant about what was sent, where the state or a recorder moved.
LEMMA NumbersStay ==
    ASSUME FeedTypes, AllCurrent, NEW s \in SessionActivityState, NEW t \in SessionActivityState,
           Advances(s, t), state = s, state' = t, UNCHANGED <<feed, store>>,
           DOMAIN fetch' = DOMAIN fetch, \A f \in DOMAIN fetch : fetch'[f].reply = fetch[f].reply,
           \A r \in Recorders : hold'[r] = hold[r] \/ hold'[r] = None \/ hold'[r] = Snapshot(t)
    PROVE  AllCurrent'
<1>1. \A x \in AgentActivity : Current(x) => Current(x)'
  BY CurrentStays
<1>2. Current(Snapshot(t))'
  BY SnapshotType DEF Current, SessionActivityState
<1>3. \A r \in Recorders : hold'[r] # None => Current(hold[r])' \/ hold'[r] = Snapshot(t)
  BY <1>1 DEF FeedTypes, AllCurrent
<1>4. \A i \in DOMAIN feed : feed[i] \in AgentActivity
  BY FeedElements
<1>5. ASSUME NEW r \in Recorders, NEW x, x = hold'[r], x # None PROVE Current(x)'
  <2>1. x = hold[r] \/ x = Snapshot(t)
    BY <1>5
  <2>2. CASE x = hold[r]
    BY <1>1, <1>5, <2>2 DEF FeedTypes, AllCurrent
  <2> QED
    BY <1>2, <2>1, <2>2
<1>6. ASSUME NEW i \in DOMAIN feed, NEW x, x = feed[i] PROVE Current(x)'
  BY <1>1, <1>4, <1>6 DEF AllCurrent
<1>7. ASSUME NEW x, x = store, x # None PROVE Current(x)'
  BY <1>1, <1>7 DEF FeedTypes, AllCurrent
<1>8. ASSUME NEW f \in DOMAIN fetch, NEW x, x = fetch[f].reply PROVE Current(x)'
  <2>1. x \in AgentActivity
    BY <1>8 DEF FeedTypes, Fetch
  <2> QED
    BY <1>1, <1>8, <2>1 DEF AllCurrent
<1> QED
  BY <1>5, <1>6, <1>7, <1>8 DEF AllCurrent, Current

\* A method was called: the number of its change, if it made one, is held.
LEMMA RecordKeeps ==
    ASSUME FeedTypes, AllCurrent, NewestSent, state \in SessionActivityState,
           NEW r \in Recorders, NEW t \in SessionActivityState, Advances(state, t), Record(r, t),
           UNCHANGED <<feed, store, sent>>,
           DOMAIN fetch' = DOMAIN fetch, \A f \in DOMAIN fetch : fetch'[f].reply = fetch[f].reply
    PROVE  /\ AllCurrent' /\ NewestSent'
           /\ hold' \in [Recorders -> AgentActivity \cup {None}]
<1>1. PICK s \in SessionActivityState : s = state
  OBVIOUS
<1>2. /\ state' = t /\ hold[r] = None
      /\ hold' = [hold EXCEPT ![r] = IF t.n # s.n THEN Snapshot(t) ELSE None]
  BY <1>1 DEF Record
<1>3. PICK x \in AgentActivity \cup {None} : x = IF t.n # s.n THEN Snapshot(t) ELSE None
  BY SnapshotType
<1>4. hold \in [Recorders -> AgentActivity \cup {None}] /\ hold' = [hold EXCEPT ![r] = x]
  BY <1>2, <1>3 DEF FeedTypes
<1>5. hold'[r] = x /\ \A q \in Recorders \ {r} : hold'[q] = hold[q]
  BY <1>4
<1>6. AllCurrent'
  BY <1>1, <1>2, <1>3, <1>5, NumbersStay
<1>7. s.n \in Nat /\ t.n \in Nat /\ sent \in Nat /\ (t.n = s.n \/ t.n = s.n + 1)
  BY <1>1 DEF SessionActivityState, FeedTypes, Advances
<1>8. sent' =< state'.n
  BY <1>1, <1>2, <1>7 DEF NewestSent
<1>9. sent' = state'.n \/ \E q \in Recorders : hold'[q] # None /\ hold'[q].n = state'.n
  <2>1. CASE t.n = s.n
    <3>1. \A q \in Recorders : hold[q] # None => hold'[q] = hold[q]
      BY <1>2, <1>5
    <3> QED
      BY <1>1, <1>2, <2>1, <3>1 DEF NewestSent
  <2>2. CASE t.n # s.n
    BY <1>2, <1>3, <1>5, <2>2, SnapshotType
  <2> QED
    BY <2>1, <2>2
<1> QED
  BY <1>4, <1>6, <1>8, <1>9 DEF NewestSent

\* The rest of the invariant, where the browser is not concerned, or a reply to it is being
\* worked on or given up.
LEMMA BrowserStays ==
    ASSUME FeedInv, UNCHANGED <<sub, feed, sock, store, history, limit>>,
           hold' \in [Recorders -> AgentActivity \cup {None}],
           \/ fetch' = fetch
           \/ \E f \in DOMAIN fetch : \E x \in Fetch :
                 /\ fetch' = [fetch EXCEPT ![f] = x] /\ x.reply = fetch[f].reply
                 /\ fetch[f].step \in Working
                 /\ x.step \in {"stopped", "ensured", "marked", "reconciled", "listed", "failed"}
    PROVE  /\ FeedTypes' /\ Connected' /\ (~overtaken' => LastIsNewest' /\ ToldOfNewest' /\ OnlyReplies')
           /\ DOMAIN fetch' = DOMAIN fetch /\ \A f \in DOMAIN fetch : fetch'[f].reply = fetch[f].reply
<1>1. CASE fetch' = fetch
  BY <1>1 DEF FeedInv, FeedTypes, Connected, LastIsNewest, ToldOfNewest, OnlyReplies, Told, history
<1>2. ASSUME NEW f \in DOMAIN fetch, NEW x \in Fetch,
             fetch' = [fetch EXCEPT ![f] = x], x.reply = fetch[f].reply,
             fetch[f].step \in Working,
             x.step \in {"stopped", "ensured", "marked", "reconciled", "listed", "failed"}
      PROVE  /\ FeedTypes' /\ Connected' /\ (~overtaken' => LastIsNewest' /\ ToldOfNewest' /\ OnlyReplies')
             /\ DOMAIN fetch' = DOMAIN fetch /\ \A g \in DOMAIN fetch : fetch'[g].reply = fetch[g].reply
  <2>1. PICK new : new = fetch'
    OBVIOUS
  <2>2. /\ new \in [Conns \cup {0} -> Fetch] /\ DOMAIN new = DOMAIN fetch /\ new[f] = x
        /\ \A g \in DOMAIN fetch : g # f => new[g] = fetch[g]
    BY <1>2, <2>1 DEF FeedInv, FeedTypes
  <2>3. /\ \A g \in DOMAIN fetch : new[g].reply = fetch[g].reply
        /\ \A g \in DOMAIN fetch : new[g].step = "none" <=> fetch[g].step = "none"
        /\ \A g \in DOMAIN fetch : new[g].step = "done" => fetch[g].step = "done"
        /\ \A g \in DOMAIN fetch : new[g].step = "answered" => fetch[g].step = "answered"
    BY <1>2, <2>2 DEF Working
  <2>4. sock.n \in DOMAIN fetch
    BY DEF FeedInv, FeedTypes
  <2>5. FeedTypes'
    BY <2>1, <2>2 DEF FeedInv, FeedTypes, history
  <2>6. Connected'
    BY <2>1, <2>2, <2>3, <2>4 DEF FeedInv, Connected, history
  <2>7. ~overtaken' => LastIsNewest' /\ ToldOfNewest' /\ OnlyReplies'
    BY <1>2, <2>1, <2>2, <2>3, <2>4 DEF FeedInv, LastIsNewest, ToldOfNewest, OnlyReplies, Told, Working, history
  <2> QED
    BY <2>1, <2>2, <2>3, <2>5, <2>6, <2>7
<1> QED
  BY <1>1, <1>2

LEMMA OneMore ==
    ASSUME NEW s \in Seq(AgentActivity), NEW e \in AgentActivity
    PROVE  /\ Append(s, e) \in Seq(AgentActivity) /\ Append(s, e) # << >>
           /\ Append(s, e)[Len(Append(s, e))] = e
           /\ \A i \in DOMAIN Append(s, e) :
                 Append(s, e)[i] = e \/ \E j \in DOMAIN s : Append(s, e)[i] = s[j]
<1>1. /\ Append(s, e) \in Seq(AgentActivity) /\ Len(Append(s, e)) = Len(s) + 1
      /\ \A i \in 1 .. (Len(s) + 1) : Append(s, e)[i] = IF i = Len(s) + 1 THEN e ELSE s[i]
  BY AppendProperties
<1>2. Len(s) \in Nat /\ DOMAIN s = 1 .. Len(s) /\ DOMAIN Append(s, e) = 1 .. (Len(s) + 1)
  BY <1>1, LenProperties
<1>3. Append(s, e) # << >>
  BY <1>1, <1>2, EmptySeq
<1>4. Append(s, e)[Len(Append(s, e))] = e
  BY <1>1, <1>2
<1>5. \A i \in DOMAIN Append(s, e) : Append(s, e)[i] = e \/ \E j \in DOMAIN s : Append(s, e)[i] = s[j]
  BY <1>1, <1>2
<1> QED
  BY <1>1, <1>3, <1>4, <1>5

\* A recorder sends: what it sends is the last under way.
LEMMA SendLast ==
    ASSUME FeedTypes, NEW e \in AgentActivity, NEW t, t = Send(e)
    PROVE  /\ t \in Seq(AgentActivity) /\ t # << >> /\ t[Len(t)] = e
           /\ \A i \in DOMAIN t : t[i] = e \/ \E j \in DOMAIN feed : t[i] = feed[j]
<1>1. feed \in Seq(AgentActivity) /\ Len(feed) \in Nat /\ DOMAIN feed = 1 .. Len(feed)
  BY FeedElements DEF FeedTypes
<1>2. CASE Len(feed) = FeedCap
  <2>1. feed # << >>
    BY <1>2, EmptySeq, ActivityFeedAssumption
  <2>2. PICK s \in Seq(AgentActivity) : s = Tail(feed) /\ Len(s) = Len(feed) - 1
                                        /\ \A i \in 1 .. Len(s) : s[i] = feed[i + 1]
    BY <1>1, <2>1, HeadTailProperties
  <2>3. \A j \in DOMAIN s : j + 1 \in DOMAIN feed /\ s[j] = feed[j + 1]
    BY <1>1, <2>2, LenProperties
  <2>4. t = Append(s, e)
    BY <1>2, <2>2 DEF Send
  <2>5. /\ t \in Seq(AgentActivity) /\ t # << >> /\ t[Len(t)] = e
        /\ \A i \in DOMAIN t : t[i] = e \/ \E j \in DOMAIN s : t[i] = s[j]
    BY <2>4, OneMore
  <2> QED
    BY <2>3, <2>5
<1>3. CASE Len(feed) # FeedCap
  <2>1. t = Append(feed, e)
    BY <1>3 DEF Send
  <2> QED
    BY <1>1, <2>1, OneMore
<1> QED
  BY <1>2, <1>3

LEMMA EmitKeeps == ASSUME FeedInv, state \in SessionActivityState, NEW r \in Recorders, Emit(r) PROVE FeedInv'
<1>1. PICK e \in AgentActivity : e = hold[r]
  BY DEF Emit, FeedInv, FeedTypes
<1>2. /\ hold[r] # None /\ hold' = [hold EXCEPT ![r] = None]
      /\ sent' = Later(sent, e.n) /\ UNCHANGED <<state, sub, sock, fetch, store, told, heard, limit>>
      /\ overtaken' = (overtaken \/ IF sub THEN e.n < sent ELSE ToldOlder(e))
  BY <1>1 DEF Emit, browser
<1>3. PICK new \in Seq(AgentActivity) :
         /\ new = feed'
         /\ \A i \in DOMAIN new : new[i] = e \/ \E j \in DOMAIN feed : new[i] = feed[j]
         /\ sub => new # << >> /\ new[Len(new)] = e
         /\ ~sub => new = << >>
  <2>1. CASE sub
    <3>1. feed' = Send(e)
      BY <1>1, <2>1 DEF Emit
    <3> QED
      BY <2>1, <3>1, SendLast DEF FeedInv
  <2>2. CASE ~sub
    <3>1. feed' = feed /\ feed = << >> /\ feed \in Seq(AgentActivity)
      BY <2>2 DEF Emit, FeedInv, Connected, FeedTypes
    <3> QED
      BY <2>2, <3>1
  <2> QED
    BY <2>1, <2>2
<1>4. /\ e.n \in Nat /\ sent \in Nat /\ told \in Nat /\ state.n \in Nat
      /\ sent' \in Nat /\ sent =< sent' /\ e.n =< sent' /\ (sent' = sent \/ sent' = e.n)
  BY <1>1, <1>2 DEF FeedInv, FeedTypes, AgentActivity, SessionActivityState, Later
<1>5. e.n =< state.n /\ Current(e)
  BY <1>1, <1>2 DEF FeedInv, AllCurrent, Current
<1>6. /\ hold' \in [Recorders -> AgentActivity \cup {None}]
      /\ \A q \in Recorders : hold'[q] = None \/ hold'[q] = hold[q]
      /\ \A q \in Recorders \ {r} : hold'[q] = hold[q]
  BY <1>2 DEF FeedInv, FeedTypes
<1>8. FeedTypes'
  BY <1>2, <1>3, <1>4, <1>6 DEF FeedInv, FeedTypes
<1>9. AllCurrent'
  <2>1. \A i \in DOMAIN new : Current(new[i])
    BY <1>3, <1>5 DEF FeedInv, AllCurrent
  <2> QED
    BY <1>2, <1>3, <1>6, <2>1 DEF FeedInv, AllCurrent, Current
<1>10. NewestSent'
  BY <1>1, <1>2, <1>4, <1>5, <1>6 DEF FeedInv, NewestSent
<1>11. Connected'
  BY <1>2, <1>3 DEF FeedInv, Connected
<1>12. ASSUME ~overtaken' PROVE LastIsNewest' /\ ToldOfNewest' /\ OnlyReplies'
  <2>0. ~overtaken /\ (sub => ~(e.n < sent)) /\ (~sub => ~ToldOlder(e))
    BY <1>2, <1>12, Zenon
  <2>1. ~overtaken /\ (sub => sent =< e.n) /\ (~sub => ~ToldOlder(e))
    BY <1>4, <2>0
  <2>2. LastIsNewest'
    <3>1. sub => sent' = e.n
      BY <1>2, <1>4, <2>1 DEF Later
    <3> QED
      BY <1>3, <3>1 DEF LastIsNewest
  <2>3. CASE sub
    BY <1>2, <1>3, <2>2, <2>3 DEF ToldOfNewest, OnlyReplies, Told
  <2>4. CASE ~sub
    <3>1. feed = << >> /\ feed' = << >>
      BY <1>3, <2>4 DEF FeedInv, Connected
    <3>2. PICK f \in DOMAIN fetch : f = sock.n
      BY DEF FeedInv, FeedTypes
    <3>3. fetch[f].step \in {"answered", "done"} => e.n =< fetch[f].reply.n
      BY <1>4, <2>1, <2>4, <3>2 DEF ToldOlder, FeedInv, FeedTypes, Fetch, AgentActivity
    <3>4. /\ fetch[f].reply.n \in Nat /\ (store # None => store.n \in Nat)
      BY <3>2 DEF FeedInv, FeedTypes, Fetch, AgentActivity
    <3>5. fetch[f].step = "done" => fetch[f].reply.n =< told
      BY DEF FeedInv, Connected
    <3>6. OnlyReplies'
      BY <1>2, <2>1, <2>4 DEF FeedInv, OnlyReplies, Told
    <3>7. ToldOfNewest'
      <4> SUFFICES ASSUME sock.state = "open"
                   PROVE  /\ fetch[f].step = "answered" => sent' =< told \/ sent' =< fetch[f].reply.n
                          /\ fetch[f].step = "done" => sent' =< told
                          /\ fetch[f].step = "done" /\ store # None => sent' =< store.n
        <5>1. sock.state = "open" => ~heard
          BY <2>4 DEF FeedInv, Connected
        <5> QED
          BY <1>2, <3>2, <5>1 DEF ToldOfNewest, Told
      <4>1. /\ fetch[f].step = "answered" => sent =< told \/ sent =< fetch[f].reply.n
            /\ fetch[f].step = "done" => sent =< told
            /\ fetch[f].step = "done" /\ store # None => sent =< store.n
            /\ fetch[f].step = "done" /\ store # None => told =< store.n
        BY <2>1, <2>4, <3>1, <3>2 DEF FeedInv, ToldOfNewest, OnlyReplies, Told
      <4> QED
        BY <1>4, <3>3, <3>4, <3>5, <4>1
    <3> QED
      BY <2>2, <3>6, <3>7
  <2> QED
    BY <2>2, <2>3, <2>4
<1> QED
  BY <1>8, <1>9, <1>10, <1>11, <1>12 DEF FeedInv

\* The browser works on an event.
LEMMA DeliverKeeps == ASSUME FeedInv, state \in SessionActivityState, Deliver PROVE FeedInv'
<1>1. /\ sock.state = "open" /\ feed # << >>
      /\ UNCHANGED <<state, hold, sub, sock, fetch, sent, overtaken, limit>>
  BY DEF Deliver, session
<1>2. feed \in Seq(AgentActivity) /\ Len(feed) \in Nat /\ DOMAIN feed = 1 .. Len(feed)
  BY FeedElements DEF FeedInv, FeedTypes
<1>3. PICK e \in AgentActivity : e = Head(feed) /\ e = feed[1] /\ 1 \in DOMAIN feed
  <2>1. 1 \in DOMAIN feed
    BY <1>1, <1>2, EmptySeq
  <2>2. Head(feed) = feed[1]
    BY <1>1, <1>2, HeadTailProperties
  <2> QED
    BY <2>1, <2>2, FeedElements DEF FeedInv
<1>4. PICK new \in Seq(AgentActivity) :
         /\ new = feed' /\ Len(new) = Len(feed) - 1 /\ DOMAIN new = 1 .. Len(new)
         /\ \A i \in DOMAIN new : i + 1 \in DOMAIN feed /\ new[i] = feed[i + 1]
  <2>1. /\ Tail(feed) \in Seq(AgentActivity) /\ Len(Tail(feed)) = Len(feed) - 1
        /\ \A i \in 1 .. Len(Tail(feed)) : Tail(feed)[i] = feed[i + 1]
    BY <1>1, <1>2, HeadTailProperties
  <2>2. DOMAIN Tail(feed) = 1 .. Len(Tail(feed))
    BY <2>1, LenProperties
  <2>3. feed' = Tail(feed)
    BY DEF Deliver
  <2>4. \A i \in DOMAIN Tail(feed) : i + 1 \in DOMAIN feed
    BY <1>2, <2>1, <2>2
  <2> QED
    BY <2>1, <2>2, <2>3, <2>4
<1>5. /\ store' = (IF store = None THEN None ELSE e) /\ told' = Later(told, e.n)
     /\ heard' = TRUE
  BY <1>3 DEF Deliver
<1>6. /\ e.n \in Nat /\ told \in Nat /\ sent \in Nat /\ told' \in Nat /\ told =< told' /\ e.n =< told'
      /\ e # None /\ Current(e)
  BY <1>3, <1>5, NoneIsNoRecord DEF FeedInv, FeedTypes, AllCurrent, AgentActivity, Later
<1>7. FeedTypes'
  BY <1>1, <1>4, <1>5, <1>6 DEF FeedInv, FeedTypes
<1>8. AllCurrent'
  <2>1. \A i \in DOMAIN new : Current(new[i])
    BY <1>4 DEF FeedInv, AllCurrent
  <2> QED
    BY <1>1, <1>4, <1>5, <1>6, <2>1 DEF FeedInv, AllCurrent, Current
<1>9. NewestSent'
  BY <1>1 DEF FeedInv, NewestSent
<1>10. Connected'
  <2>1. \A f \in DOMAIN fetch : fetch[f].reply.n \in Nat
    BY DEF FeedInv, FeedTypes, Fetch, AgentActivity
  <2>2. \A f \in DOMAIN fetch : fetch[f].step = "done" => fetch[f].reply.n =< told'
    BY <1>6, <2>1 DEF FeedInv, Connected
  <2> QED
    BY <1>1, <1>4, <1>5, <2>2 DEF FeedInv, Connected
<1>11. ASSUME ~overtaken' PROVE LastIsNewest' /\ ToldOfNewest' /\ OnlyReplies'
  <2>1. ~overtaken
    BY <1>1, <1>11
  <2>2. feed[Len(feed)].n = sent
    BY <1>1, <2>1 DEF FeedInv, LastIsNewest
  <2>3. new # << >> => Len(new) \in DOMAIN new /\ new[Len(new)] = feed[Len(feed)]
    <3>1. new # << >> => Len(new) \in DOMAIN new
      BY <1>2, <1>4, EmptySeq
    <3> QED
      BY <1>2, <1>4, <3>1
  <2>4. new = << >> => e.n = sent
    <3>0. new = << >> => Len(new) = 0
      BY <1>4, EmptySeq
    <3>1. new = << >> => Len(feed) = 1
      BY <1>2, <1>4, <3>0
    <3> QED
      BY <1>3, <2>2, <3>1
  <2>5. LastIsNewest'
    BY <1>1, <1>4, <2>2, <2>3 DEF LastIsNewest
  <2>6. ToldOfNewest'
    BY <1>1, <1>4, <1>5, <1>6, <2>4 DEF ToldOfNewest, Told
  <2>7. OnlyReplies'
    BY <1>1 DEF FeedInv, Connected, OnlyReplies
  <2> QED
    BY <2>5, <2>6, <2>7
<1> QED
  BY <1>7, <1>8, <1>9, <1>10, <1>11 DEF FeedInv

\* A reply is put together, or comes to the browser.
LEMMA FetchReadsKeeps ==
    ASSUME FeedInv, state \in SessionActivityState, NEW f \in DOMAIN fetch, FetchReads(f) PROVE FeedInv'
<1>1. /\ fetch[f].step = "listed"
      /\ UNCHANGED <<state, hold, sub, feed, sock, store, sent, told, heard, overtaken, limit>>
  BY DEF FetchReads, session, socket, history
<1>2. PICK x \in Fetch : /\ x = [fetch[f] EXCEPT !.step = "answered", !.reply = Snapshot(state)]
                         /\ x.step = "answered" /\ x.reply = Snapshot(state)
  <2>1. PICK c \in Fetch : c = fetch[f]
    BY DEF FeedInv, FeedTypes
  <2>2. PICK y \in AgentActivity : y = Snapshot(state)
    BY SnapshotType
  <2>3. [c EXCEPT !.step = "answered", !.reply = y] \in Fetch
    BY DEF Fetch, Working
  <2>4. PICK x \in Fetch : x = [c EXCEPT !.step = "answered", !.reply = y]
    BY <2>3
  <2>5. x.step = "answered" /\ x.reply = y
    BY <2>4 DEF Fetch
  <2> QED
    BY <2>1, <2>2, <2>4, <2>5
<1>3. PICK new \in [Conns \cup {0} -> Fetch] : new = fetch' /\ new = [fetch EXCEPT ![f] = x]
  BY <1>2 DEF FetchReads, FeedInv, FeedTypes
<1>4. /\ DOMAIN new = DOMAIN fetch /\ new[f] = x /\ sock.n \in DOMAIN fetch
      /\ \A g \in DOMAIN fetch : g # f => new[g] = fetch[g]
  BY <1>3 DEF FeedInv, FeedTypes
<1>5. /\ x.reply.n = state.n /\ state.n \in Nat /\ Current(x.reply)
  BY <1>2, SnapshotType DEF SessionActivityState, Current
<1>6. FeedTypes' /\ NewestSent'
  BY <1>1, <1>3 DEF FeedInv, FeedTypes, NewestSent
<1>7. AllCurrent'
  <2>1. \A g \in DOMAIN new : Current(new[g].reply)
    BY <1>2, <1>4, <1>5 DEF FeedInv, AllCurrent
  <2> QED
    BY <1>1, <1>3, <2>1 DEF FeedInv, AllCurrent, Current
<1>8. /\ \A g \in DOMAIN fetch : new[g].step = "none" <=> fetch[g].step = "none"
      /\ \A g \in DOMAIN fetch : new[g].step = "done" => new[g] = fetch[g]
  BY <1>1, <1>2, <1>4
<1>9. Connected'
  BY <1>1, <1>3, <1>4, <1>8 DEF FeedInv, Connected
<1>10. ~overtaken' => LastIsNewest' /\ OnlyReplies'
  BY <1>1, <1>2, <1>3, <1>4, <1>8 DEF FeedInv, LastIsNewest, OnlyReplies, Told
<1>11. ~overtaken' => ToldOfNewest'
  <2>1. sent =< state.n
    BY DEF FeedInv, NewestSent
  <2>2. sock.n = f \/ new[sock.n] = fetch[sock.n]
    BY <1>4
  <2> QED
    BY <1>1, <1>2, <1>3, <1>4, <1>5, <2>1, <2>2 DEF FeedInv, ToldOfNewest, Told
<1> QED
  BY <1>6, <1>7, <1>9, <1>10, <1>11 DEF FeedInv

LEMMA ReplyArrivesKeeps ==
    ASSUME FeedInv, state \in SessionActivityState, NEW f \in DOMAIN fetch, ReplyArrives(f) PROVE FeedInv'
<1>1. /\ fetch[f].step = "answered" /\ UNCHANGED <<state, hold, sub, feed, sock, sent, heard, limit>>
  BY DEF ReplyArrives, session, socket
<1>2. PICK c \in Fetch : c = fetch[f]
  BY DEF FeedInv, FeedTypes
<1>3. PICK x \in Fetch : x = [c EXCEPT !.step = "done"] /\ x.step = "done" /\ x.reply = c.reply
  <2>1. [c EXCEPT !.step = "done"] \in Fetch
    BY DEF Fetch
  <2> QED
    BY <2>1 DEF Fetch
<1>4. PICK new \in [Conns \cup {0} -> Fetch] : new = fetch' /\ new = [fetch EXCEPT ![f] = x]
  BY <1>2, <1>3 DEF ReplyArrives, FeedInv, FeedTypes
<1>5. /\ DOMAIN new = DOMAIN fetch /\ new[f] = x /\ sock.n \in DOMAIN fetch
      /\ \A g \in DOMAIN fetch : g # f => new[g] = fetch[g]
  BY <1>4 DEF FeedInv, FeedTypes
<1>6. /\ store' = (IF c.active THEN c.reply ELSE None) /\ told' = Later(told, c.reply.n)
      /\ overtaken' = (overtaken \/ (c.active /\ c.reply.n < told))
  BY <1>2 DEF ReplyArrives
<1>7. /\ c.reply \in AgentActivity /\ c.reply.n \in Nat /\ told \in Nat /\ sent \in Nat
      /\ told' \in Nat /\ told =< told' /\ c.reply.n =< told' /\ (told' = told \/ told' = c.reply.n)
  BY <1>2, <1>6 DEF Fetch, AgentActivity, FeedInv, FeedTypes, Later
<1>8. FeedTypes' /\ NewestSent'
  BY <1>1, <1>4, <1>6, <1>7 DEF FeedInv, FeedTypes, NewestSent
<1>9. AllCurrent'
  <2>1. \A g \in DOMAIN new : Current(new[g].reply)
    BY <1>2, <1>3, <1>5 DEF FeedInv, AllCurrent
  <2>2. Current(c.reply)
    BY <1>2 DEF FeedInv, AllCurrent
  <2> QED
    BY <1>1, <1>4, <1>6, <2>1, <2>2 DEF FeedInv, AllCurrent, Current
<1>10. Connected'
  <2>1. \A g \in DOMAIN fetch : new[g].step = "none" <=> fetch[g].step = "none"
    BY <1>1, <1>3, <1>5
  <2>2. ASSUME NEW g \in DOMAIN fetch, new[g].step = "done" PROVE new[g].reply.n =< told'
    <3>1. CASE g = f
      BY <1>3, <1>5, <1>7, <3>1
    <3>2. CASE g # f
      <4>1. fetch[g].reply.n \in Nat
        BY DEF FeedInv, FeedTypes, Fetch, AgentActivity
      <4> QED
        BY <1>5, <1>7, <2>2, <3>2, <4>1 DEF FeedInv, Connected
    <3> QED
      BY <3>1, <3>2
  <2> QED
    BY <1>1, <1>4, <1>5, <2>1, <2>2 DEF FeedInv, Connected
<1>11. ASSUME ~overtaken' PROVE LastIsNewest' /\ ToldOfNewest' /\ OnlyReplies'
  <2>0. ~overtaken /\ (c.active => ~(c.reply.n < told))
    BY <1>6, <1>11, Zenon
  <2>1. ~overtaken /\ (store' # None => store'.n = told')
    <3>1. c.active => told =< c.reply.n
      BY <1>7, <2>0
    <3> QED
      BY <1>6, <1>7, <2>0, <3>1 DEF Later
  <2>2. LastIsNewest'
    BY <1>1, <2>1 DEF FeedInv, LastIsNewest
  <2>3. sock.state = "open" /\ feed = << >> /\ (new[sock.n].step = "done" \/ heard) => sent =< told'
    <3>1. CASE sock.n = f
      BY <1>1, <1>2, <1>7, <2>1, <3>1 DEF FeedInv, ToldOfNewest
    <3>2. CASE sock.n # f
      BY <1>5, <1>7, <2>1, <3>2 DEF FeedInv, ToldOfNewest, Told
    <3> QED
      BY <3>1, <3>2
  <2>4. ASSUME sock.state = "open", feed = << >>, new[sock.n].step = "answered"
        PROVE  sent =< told' \/ sent =< new[sock.n].reply.n
    <3>1. sock.n # f
      BY <1>3, <1>5, <2>4
    <3> QED
      BY <1>5, <1>7, <2>1, <2>4, <3>1 DEF FeedInv, ToldOfNewest
  <2>5. ToldOfNewest'
    BY <1>1, <1>4, <2>1, <2>3, <2>4 DEF ToldOfNewest, Told
  <2>6. OnlyReplies'
    BY <1>7, <2>1 DEF OnlyReplies
  <2> QED
    BY <2>2, <2>5, <2>6
<1> QED
  BY <1>8, <1>9, <1>10, <1>11 DEF FeedInv

\* A connection comes and goes.
LEMMA SocketKeeps ==
    ASSUME FeedInv, state \in SessionActivityState, Drop \/ Dial \/ Subscribe \/ Open PROVE FeedInv'
<1>1. /\ UNCHANGED <<state, hold, store, sent, told, limit>> /\ << >> \in Seq(AgentActivity)
      /\ sock \in [n : Conns, state : {"opening", "open", "closed"}] /\ sock.n \in Nat
      /\ sock.n \in Conns \cup {0} /\ DOMAIN fetch = Conns \cup {0}
  BY EmptySeq, ConnsAreNumbers
  DEF Drop, Dial, Subscribe, Open, session, browser, history, FeedInv, FeedTypes
<1>2. NewestSent'
  BY <1>1 DEF FeedInv, NewestSent
<1>3. CASE Drop
  <2>1. sub' = FALSE /\ feed' = << >> /\ sock' = [sock EXCEPT !.state = "closed"] /\ UNCHANGED <<fetch, heard, overtaken>>
    BY <1>3 DEF Drop, browser, history
  <2>2. sock'.state = "closed" /\ sock'.n = sock.n /\ sock' \in [n : Conns, state : {"opening", "open", "closed"}]
    BY <1>1, <2>1
  <2>3. FeedTypes' /\ Connected'
    BY <1>1, <2>1, <2>2 DEF FeedInv, FeedTypes, Connected
  <2>4. AllCurrent'
    BY <1>1, <2>1, EmptySeq DEF FeedInv, AllCurrent, Current
  <2>5. LastIsNewest' /\ ToldOfNewest' /\ OnlyReplies'
    BY <2>1, <2>2 DEF LastIsNewest, ToldOfNewest, OnlyReplies
  <2> QED
    BY <1>2, <2>3, <2>4, <2>5 DEF FeedInv
<1>4. CASE Dial
  <2>1. /\ sock.state = "closed" /\ sock.n < limit.conns /\ heard' = FALSE /\ overtaken' = FALSE
        /\ sock' = [n |-> sock.n + 1, state |-> "opening"] /\ UNCHANGED <<sub, feed, fetch>>
    BY <1>4 DEF Dial, browser
  <2>2. sock.n + 1 \in Conns
    <3>1. limit \in Limits /\ limit.conns \in Nat
      BY ActivityFeedAssumption DEF FeedInv, FeedTypes
    <3>2. sock.n + 1 \in 1 .. limit.conns
      BY <1>1, <2>1, <3>1
    <3> QED
      BY <3>1, <3>2, ConnsAreNumbers
  <2>3. sock'.state = "opening" /\ sock'.n = sock.n + 1 /\ sock' \in [n : Conns, state : {"opening", "open", "closed"}]
    BY <2>1, <2>2
  <2>4. FeedTypes'
    BY <1>1, <2>1, <2>3 DEF FeedInv, FeedTypes
  <2>5. AllCurrent'
    BY <1>1, <2>1 DEF FeedInv, AllCurrent, Current
  <2>6. Connected'
    <3>0. Conns \cup {0} \subseteq Nat
      BY ConnsAreNumbers
    <3>1. \A f \in DOMAIN fetch : f \in Nat /\ (f >= sock.n + 1 => fetch[f].step = "none")
      <4> SUFFICES ASSUME NEW f \in DOMAIN fetch
                   PROVE  f \in Nat /\ (f >= sock.n + 1 => fetch[f].step = "none")
        OBVIOUS
      <4>1. f \in Conns \cup {0}
        BY <1>1
      <4>2. f \in Nat /\ sock.n \in Nat
        BY <1>1, <3>0, <4>1
      <4>3. f > sock.n => fetch[f].step = "none"
        BY DEF FeedInv, Connected
      <4> QED
        BY <4>2, <4>3
    <3> QED
      BY <1>1, <2>1, <2>2, <2>3, <3>1 DEF FeedInv, Connected
  <2>7. ~overtaken' => LastIsNewest' /\ ToldOfNewest' /\ OnlyReplies'
    <3>1. feed = << >>
      BY <2>1 DEF FeedInv, Connected
    <3> QED
      BY <2>1, <2>3, <3>1 DEF LastIsNewest, ToldOfNewest, OnlyReplies, Told
  <2> QED
    BY <1>2, <2>4, <2>5, <2>6, <2>7 DEF FeedInv
<1>5. CASE Subscribe
  <2>1. /\ sub' = TRUE /\ feed = << >> /\ sock.state # "closed"
        /\ UNCHANGED <<feed, sock, fetch, heard, overtaken>>
    BY <1>5 DEF Subscribe, browser, history, FeedInv, Connected
  <2>2. FeedTypes' /\ Connected'
    BY <1>1, <2>1 DEF FeedInv, FeedTypes, Connected
  <2>3. AllCurrent'
    BY <1>1, <2>1 DEF FeedInv, AllCurrent, Current
  <2>4. ~overtaken' => LastIsNewest' /\ ToldOfNewest' /\ OnlyReplies'
    BY <1>1, <2>1 DEF FeedInv, LastIsNewest, ToldOfNewest, OnlyReplies, Told
  <2> QED
    BY <1>2, <2>2, <2>3, <2>4 DEF FeedInv
<1>6. CASE Open
  <2>1. /\ sock.state = "opening" /\ sock' = [sock EXCEPT !.state = "open"]
        /\ fetch' = [fetch EXCEPT ![sock.n].step = "asked"] /\ UNCHANGED <<sub, feed, heard, overtaken>>
    BY <1>6 DEF Open, history
  <2>2. PICK c \in Fetch : c = fetch[sock.n]
    BY <1>1 DEF FeedInv, FeedTypes
  <2>3. [c EXCEPT !.step = "asked"] \in Fetch
    BY DEF Fetch, Working
  <2>4. PICK x \in Fetch : x = [c EXCEPT !.step = "asked"] /\ x.step = "asked" /\ x.reply = c.reply
    BY <2>3 DEF Fetch
  <2>5. PICK new \in [Conns \cup {0} -> Fetch] : new = fetch' /\ new = [fetch EXCEPT ![sock.n] = x]
    BY <1>1, <2>1, <2>2, <2>4 DEF FeedInv, FeedTypes
  <2>6. /\ DOMAIN new = DOMAIN fetch /\ new[sock.n] = x
        /\ \A g \in DOMAIN fetch : g # sock.n => new[g] = fetch[g]
    BY <1>1, <2>5
  <2>7. sock'.state = "open" /\ sock'.n = sock.n /\ sock' \in [n : Conns, state : {"opening", "open", "closed"}]
    BY <1>1, <2>1
  <2>8. FeedTypes'
    BY <1>1, <2>1, <2>5, <2>7 DEF FeedInv, FeedTypes
  <2>9. AllCurrent'
    <3>1. \A g \in DOMAIN new : Current(new[g].reply)
      BY <2>2, <2>4, <2>6 DEF FeedInv, AllCurrent
    <3> QED
      BY <1>1, <2>1, <2>5, <3>1 DEF FeedInv, AllCurrent, Current
  <2>10. Connected'
    <3>1. \A g \in DOMAIN fetch : g > sock.n => g # sock.n
      BY <1>1, ConnsAreNumbers
    <3> QED
      BY <1>1, <2>1, <2>4, <2>5, <2>6, <2>7, <3>1 DEF FeedInv, Connected
  <2>11. ~overtaken' => LastIsNewest' /\ ToldOfNewest' /\ OnlyReplies'
    BY <1>1, <2>1, <2>4, <2>5, <2>6, <2>7 DEF FeedInv, Connected, LastIsNewest, ToldOfNewest, OnlyReplies, Told
  <2> QED
    BY <1>2, <2>8, <2>9, <2>10, <2>11 DEF FeedInv
<1> QED
  BY <1>3, <1>4, <1>5, <1>6

\* A session that leaves the store.
LEMMA RemoveKeeps == ASSUME FeedInv, Remove PROVE FeedInv'
<1>1. store' = None /\ UNCHANGED <<state, hold, sub, feed, sock, fetch, sent, told, heard, overtaken, limit>>
  BY DEF Remove, session, socket, history
<1> QED
  BY <1>1
  DEF FeedInv, FeedTypes, AllCurrent, Current, NewestSent, Connected, LastIsNewest, ToldOfNewest, OnlyReplies, Told

\* Steps of the session that neither change its activity nor send it.
LEMMA OthersKeep ==
    ASSUME FeedInv, UNCHANGED <<state, hold, socket, browser, history, limit>> PROVE FeedInv'
  BY DEF FeedInv, FeedTypes, AllCurrent, Current, NewestSent, Connected, LastIsNewest, ToldOfNewest,
         OnlyReplies, Told, socket, browser, history

\* A step that records, whoever does, with what else it does for a reply.
LEMMA RecordsKeep ==
    ASSUME FeedInv, state \in SessionActivityState, NEW r \in Recorders,
           NEW t \in SessionActivityState, Advances(state, t), Record(r, t),
           UNCHANGED <<sub, feed, sock, store, history, limit>>,
           \/ fetch' = fetch
           \/ \E f \in DOMAIN fetch : \E x \in Fetch :
                 /\ fetch' = [fetch EXCEPT ![f] = x] /\ x.reply = fetch[f].reply
                 /\ fetch[f].step \in Working
                 /\ x.step \in {"stopped", "ensured", "marked", "reconciled", "listed", "failed"}
    PROVE  FeedInv'
<1>1. DOMAIN fetch' = DOMAIN fetch /\ \A f \in DOMAIN fetch : fetch'[f].reply = fetch[f].reply
  <2>1. \A f \in DOMAIN fetch : \A x \in Fetch : x.reply = fetch[f].reply =>
           /\ DOMAIN [fetch EXCEPT ![f] = x] = DOMAIN fetch
           /\ \A g \in DOMAIN fetch : [fetch EXCEPT ![f] = x][g].reply = fetch[g].reply
    BY DEF FeedInv, FeedTypes
  <2> QED
    BY <2>1
<1>2. /\ AllCurrent' /\ NewestSent' /\ hold' \in [Recorders -> AgentActivity \cup {None}]
  BY <1>1, RecordKeeps DEF FeedInv, history
<1>3. FeedTypes' /\ Connected' /\ (~overtaken' => LastIsNewest' /\ ToldOfNewest' /\ OnlyReplies')
  BY <1>2, BrowserStays
<1> QED
  BY <1>2, <1>3 DEF FeedInv

LEMMA SessionStepsKeep == ASSUME IInv, FeedInv, NextSession PROVE FeedInv'
<1>1. PICK s \in SessionActivityState : s = state
  BY DEF IInv
<1>2. {"monitor", "client", "list"} = Recorders
  BY DEF Recorders
<1>3. CASE \E r \in Recorders : Emit(r)
  BY <1>1, <1>3, EmitKeeps
<1>4. ASSUME NEW hint \in BOOLEAN, Output(hint) PROVE FeedInv'
  <2>1. PICK t \in SessionActivityState : t = OnOutput(s, hint)
    BY <1>1, OnOutputKeeps DEF IInv
  <2>2. Record("monitor", t) /\ UNCHANGED <<socket, browser, history, limit>>
    BY <1>1, <1>4, <2>1 DEF Output
  <2> QED
    BY <1>1, <1>2, <2>1, <2>2, MethodsAdvance, RecordsKeep DEF socket, browser
<1>5. CASE Tick
  <2>1. PICK t \in SessionActivityState : t = OnTick(s)
    BY <1>1, OnTickKeeps DEF IInv
  <2>2. Record("monitor", t) /\ UNCHANGED <<socket, browser, history, limit>>
    BY <1>1, <1>5, <2>1 DEF Tick
  <2> QED
    BY <1>1, <1>2, <2>1, <2>2, MethodsAdvance, RecordsKeep DEF socket, browser
<1>6. CASE MonitorExit
  <2>1. PICK t \in SessionActivityState : t = OnSessionStopped(s, "session_exit")
    BY <1>1, OnSessionStoppedKeeps DEF Reasons
  <2>2. Record("monitor", t) /\ UNCHANGED <<socket, browser, history, limit>>
    BY <1>1, <1>6, <2>1 DEF MonitorExit
  <2>3. Advances(s, t)
    BY <2>1, MethodsAdvance DEF Reasons
  <2> QED
    BY <1>1, <1>2, <2>2, <2>3, RecordsKeep DEF socket, browser
<1>7. CASE InputRecorded
  <2>1. PICK b \in BOOLEAN : b = (doing = "submitted")
    OBVIOUS
  <2>2. PICK t \in SessionActivityState : t = OnInput(s, b)
    BY <1>1, OnInputKeeps DEF IInv
  <2>3. Record("client", t) /\ UNCHANGED <<socket, browser, history, limit>>
    BY <1>1, <1>7, <2>1, <2>2 DEF InputRecorded
  <2> QED
    BY <1>1, <1>2, <2>2, <2>3, MethodsAdvance, RecordsKeep DEF socket, browser
<1>8. CASE StopRecorded
  <2>1. PICK t \in SessionActivityState : t = OnSessionStopped(s, "session_stopped")
    BY <1>1, OnSessionStoppedKeeps DEF Reasons
  <2>2. Record("client", t) /\ UNCHANGED <<socket, browser, history, limit>>
    BY <1>1, <1>8, <2>1 DEF StopRecorded
  <2>3. Advances(s, t)
    BY <2>1, MethodsAdvance DEF Reasons
  <2> QED
    BY <1>1, <1>2, <2>2, <2>3, RecordsKeep DEF socket, browser
<1>9. CASE Elapse
  <2>1. PICK t \in SessionActivityState : t = Elapsed(s)
    BY <1>1, ElapsedKeeps DEF IInv
  <2>2. state' = t /\ UNCHANGED <<hold, sub, feed, sock, fetch, store, history, limit>>
    BY <1>1, <1>9, <2>1 DEF Elapse, socket, browser
  <2>3. t.n = s.n /\ Snapshot(t) = Snapshot(s)
    BY <2>1, MethodsAdvance
  <2>4. AllCurrent' /\ NewestSent'
    BY <1>1, <2>2, <2>3 DEF FeedInv, AllCurrent, Current, NewestSent, history
  <2>5. hold' \in [Recorders -> AgentActivity \cup {None}]
    BY <2>2 DEF FeedInv, FeedTypes
  <2> QED
    BY <2>2, <2>4, <2>5, BrowserStays DEF FeedInv
<1>10. CASE ProcessExits \/ MonitorMarks \/ Stop \/ \E b \in BOOLEAN : Input(b)
  <2>1. UNCHANGED <<state, hold, socket, browser, history, limit>>
    BY <1>10 DEF ProcessExits, MonitorMarks, Stop, Input
  <2> QED
    BY <2>1, OthersKeep
<1> QED
  BY <1>3, <1>4, <1>5, <1>6, <1>7, <1>8, <1>9, <1>10 DEF NextSession

LEMMA BrowserStepsKeep == ASSUME IInv, FeedInv, NextBrowser PROVE FeedInv'
<1>1. PICK s \in SessionActivityState : s = state
  BY DEF IInv
<1>2. CASE Drop \/ Dial \/ Subscribe \/ Open \/ Deliver \/ Remove
  BY <1>1, <1>2, SocketKeeps, DeliverKeeps, RemoveKeeps
<1>3. ASSUME NEW f \in DOMAIN fetch PROVE FetchReads(f) \/ ReplyArrives(f) => FeedInv'
  BY <1>1, FetchReadsKeeps, ReplyArrivesKeeps
<1>4. ASSUME NEW f \in DOMAIN fetch, NEW b \in BOOLEAN
      PROVE  \E x \in Fetch : x = [fetch[f] EXCEPT !.step = "listed", !.active = b]
                              /\ x.reply = fetch[f].reply /\ x.step = "listed"
  <2>1. PICK c \in Fetch : c = fetch[f]
    BY DEF FeedInv, FeedTypes
  <2>2. [c EXCEPT !.step = "listed", !.active = b] \in Fetch
    BY DEF Fetch, Working
  <2>3. PICK x \in Fetch : x = [c EXCEPT !.step = "listed", !.active = b]
    BY <2>2
  <2> QED
    BY <2>1, <2>3 DEF Fetch
<1>5. ASSUME NEW f \in DOMAIN fetch, NEW step \in {"stopped", "ensured", "marked", "reconciled", "listed", "failed"}
      PROVE  \E x \in Fetch : x = [fetch[f] EXCEPT !.step = step]
                              /\ x.reply = fetch[f].reply /\ x.step = step
  <2>1. PICK c \in Fetch : c = fetch[f]
    BY DEF FeedInv, FeedTypes
  <2>2. [c EXCEPT !.step = step] \in Fetch
    BY DEF Fetch, Working
  <2>3. PICK x \in Fetch : x = [c EXCEPT !.step = step]
    BY <2>2
  <2> QED
    BY <2>1, <2>3 DEF Fetch
<1>6. hold \in [Recorders -> AgentActivity \cup {None}]
  BY DEF FeedInv, FeedTypes
<1>7. ASSUME NEW f \in DOMAIN fetch, ReconcileRecords(f) PROVE FeedInv'
  <2>1. PICK t \in SessionActivityState : t = OnSessionStopped(s, "session_not_running")
    BY <1>1, OnSessionStoppedKeeps DEF Reasons
  <2>2. /\ Record("list", t) /\ UNCHANGED <<sub, feed, sock, store, history, limit>>
        /\ fetch[f].step = "marked" /\ fetch' = [fetch EXCEPT ![f].step = "reconciled"]
    BY <1>1, <1>7, <2>1 DEF ReconcileRecords, socket
  <2>3. Advances(s, t)
    BY <2>1, MethodsAdvance DEF Reasons
  <2>4. PICK x \in Fetch : /\ x = [fetch[f] EXCEPT !.step = "reconciled"]
                           /\ x.reply = fetch[f].reply /\ x.step = "reconciled"
    BY <1>5
  <2>5. fetch' = [fetch EXCEPT ![f] = x]
    BY <2>2, <2>4
  <2>6. "list" \in Recorders /\ fetch[f].step \in Working
    BY <2>2 DEF Recorders, Working
  <2> QED
    BY <1>1, <2>2, <2>3, <2>4, <2>5, <2>6, RecordsKeep
<1>8. ASSUME NEW f \in DOMAIN fetch, FindsStopped(f) \/ Restore(f) \/ Reconcile(f) \/ FetchLists(f) \/ FetchFails(f)
      PROVE  FeedInv'
  <2>1. UNCHANGED <<state, hold, sub, feed, sock, store, history, limit>>
    BY <1>8 DEF FindsStopped, Restore, Reconcile, FetchLists, FetchFails, session, socket
  <2>2. \E x \in Fetch :
           /\ fetch' = [fetch EXCEPT ![f] = x] /\ x.reply = fetch[f].reply
           /\ fetch[f].step \in Working
           /\ x.step \in {"stopped", "ensured", "marked", "reconciled", "listed", "failed"}
    <3>1. CASE FindsStopped(f) \/ Restore(f) \/ Reconcile(f) \/ FetchFails(f)
      <4>1. PICK step \in {"stopped", "ensured", "marked", "reconciled", "failed"} :
               fetch[f].step \in Working /\ fetch' = [fetch EXCEPT ![f].step = step]
        <5>1. fetch[f].step \in Working \cup {"none", "done", "failed"}
          BY DEF FeedInv, FeedTypes, Fetch
        <5> QED
          BY <3>1, <5>1 DEF FindsStopped, Restore, Reconcile, FetchFails, Working
      <4>2. PICK x \in Fetch : /\ x = [fetch[f] EXCEPT !.step = step]
                               /\ x.reply = fetch[f].reply /\ x.step = step
        BY <1>5
      <4>3. fetch' = [fetch EXCEPT ![f] = x]
        BY <4>1, <4>2
      <4> QED
        BY <4>1, <4>2, <4>3
    <3>2. CASE FetchLists(f)
      <4>1. PICK b \in BOOLEAN : b = (status # "stopped")
        OBVIOUS
      <4>2. /\ fetch[f].step = "reconciled"
            /\ fetch' = [fetch EXCEPT ![f] = [@ EXCEPT !.step = "listed", !.active = b]]
        BY <3>2, <4>1 DEF FetchLists
      <4>3. PICK x \in Fetch : /\ x = [fetch[f] EXCEPT !.step = "listed", !.active = b]
                               /\ x.reply = fetch[f].reply /\ x.step = "listed"
        BY <1>4
      <4>4. fetch' = [fetch EXCEPT ![f] = x]
        BY <4>2, <4>3
      <4> QED
        BY <4>2, <4>3, <4>4 DEF Working
    <3> QED
      BY <1>8, <3>1, <3>2
  <2>3. /\ FeedTypes' /\ Connected' /\ (~overtaken' => LastIsNewest' /\ ToldOfNewest' /\ OnlyReplies')
        /\ DOMAIN fetch' = DOMAIN fetch /\ \A g \in DOMAIN fetch : fetch'[g].reply = fetch[g].reply
    BY <1>6, <2>1, <2>2, BrowserStays
  <2>4. AllCurrent' /\ NewestSent'
    BY <2>1, <2>3 DEF FeedInv, AllCurrent, Current, NewestSent, history
  <2> QED
    BY <2>3, <2>4 DEF FeedInv
<1> QED
  BY <1>2, <1>3, <1>7, <1>8 DEF NextBrowser

LEMMA InitFeed == Init => FeedInv
<1> SUFFICES ASSUME Init PROVE FeedInv
  OBVIOUS
<1>1. PICK x \in AgentActivity : x = Snapshot(NewUnknown) /\ x.n = 0
  <2>1. [phase |-> "unknown", reason |-> "session_started", n |-> 0] \in AgentActivity
    BY DEF AgentActivity, Phases, Reasons
  <2>2. Snapshot(NewUnknown) = [phase |-> "unknown", reason |-> "session_started", n |-> 0]
    BY DEF Snapshot, NewUnknown
  <2> QED
    BY <2>1, <2>2
<1>2. state.n = 0 /\ Snapshot(state) = x /\ Current(x)
  BY <1>1 DEF Init, Current, NewUnknown
<1>3. PICK c \in Fetch : c = NoFetch /\ c.step = "none" /\ c.reply = x
  <2>1. [step |-> "none", active |-> FALSE, reply |-> x] \in Fetch
    BY DEF Fetch
  <2>2. NoFetch = [step |-> "none", active |-> FALSE, reply |-> x]
    BY <1>1 DEF NoFetch
  <2> QED
    BY <2>1, <2>2
<1>4. [c EXCEPT !.step = "answered", !.active = TRUE] \in Fetch /\ [c EXCEPT !.step = "done"] \in Fetch
  BY DEF Fetch, Working
<1>5. PICK a \in Fetch : a = [NoFetch EXCEPT !.step = "answered", !.active = TRUE]
                         /\ a.step = "answered" /\ a.reply = x
  BY <1>3, <1>4 DEF Fetch
<1>6. PICK d \in Fetch : d = [NoFetch EXCEPT !.step = "done"] /\ d.step = "done" /\ d.reply = x
  BY <1>3, <1>4 DEF Fetch
<1>7. PICK new : new = fetch
  OBVIOUS
<1>8. new = [f \in Conns \cup {0} |-> CASE f = 0 -> a [] f = 1 -> d [] OTHER -> c]
  BY <1>3, <1>5, <1>6, <1>7 DEF Init
<1>9. /\ new \in [Conns \cup {0} -> Fetch] /\ DOMAIN new = Conns \cup {0}
      /\ \A f \in DOMAIN new : new[f] \in {a, d, c}
      /\ \A f \in DOMAIN new : f # 0 /\ f # 1 => new[f] = c
      /\ new[0] = a /\ new[1] = d
  BY <1>8, ConnsAreNumbers
<1>10. /\ hold = [r \in Recorders |-> None] /\ sub = TRUE /\ feed = << >>
       /\ sock = [n |-> 1, state |-> "open"] /\ store = None
       /\ sent = 0 /\ told = 0 /\ heard = FALSE /\ limit \in Limits
  BY DEF Init
<1>11. FeedTypes
  BY <1>7, <1>9, <1>10, ConnsAreNumbers, EmptySeq DEF FeedTypes
<1>12. AllCurrent
  <2>1. \A r \in Recorders : hold[r] = None
    BY <1>10
  <2>2. \A f \in DOMAIN fetch : fetch[f].reply = x
    BY <1>3, <1>5, <1>6, <1>7, <1>9
  <2>3. DOMAIN feed = {}
    BY <1>10
  <2> QED
    BY <1>2, <1>10, <2>1, <2>2, <2>3 DEF AllCurrent
<1>13. NewestSent
  BY <1>2, <1>10 DEF NewestSent
<1>14. Connected
  <2>1. \A f \in DOMAIN new : f > 1 => f # 0 /\ f # 1
    BY <1>9, ConnsAreNumbers
  <2>2. \A f \in DOMAIN new : new[f].reply.n = 0
    BY <1>1, <1>3, <1>5, <1>6, <1>9
  <2> QED
    BY SMTT(30), <1>3, <1>6, <1>7, <1>9, <1>10, <2>1, <2>2 DEF Connected
<1>15. LastIsNewest /\ ToldOfNewest /\ OnlyReplies
  BY <1>6, <1>7, <1>9, <1>10 DEF LastIsNewest, ToldOfNewest, OnlyReplies, Told
<1> QED
  BY <1>11, <1>12, <1>13, <1>14, <1>15 DEF FeedInv

\* When nothing is on its way any more, a browser whose socket is open shows the present activity
\* of a session it knows, for any number of events and connections, once that connection has told it
\* anything (its bootstrap may fail, useDaemon.ts:59-61), and unless something was overtaken on it
\* (recorder.rs emit_activity, ws/handler.rs, useDaemon.ts, app-store.ts).
THEOREM QuietIsCurrent == Spec => []ShownIsCurrent
<1>1. IInv /\ FeedInv /\ [Next]_vars => FeedInv'
  <2>1. ASSUME FeedInv, UNCHANGED vars PROVE FeedInv'
    BY <2>1, OthersKeep DEF vars, session
  <2> QED
    BY <2>1, SessionStepsKeep, BrowserStepsKeep DEF Next
<1>2. ASSUME IInv, FeedInv PROVE ShownIsCurrent
  <2> SUFFICES ASSUME Quiet, Told, store # None, ~overtaken PROVE store = Snapshot(state)
    BY DEF ShownIsCurrent
  <2>1. (\A r \in Recorders : hold[r] = None) /\ feed = << >> /\ sock.state = "open"
    BY DEF Quiet
  <2>2. sock.n \in DOMAIN fetch /\ store \in AgentActivity
    BY <1>2 DEF FeedInv, FeedTypes
  <2>3. sent =< store.n
    BY <1>2, <2>1 DEF FeedInv, ToldOfNewest
  <2>4. sent = state.n
    BY <1>2, <2>1 DEF FeedInv, NewestSent
  <2>5. store.n \in Nat /\ state.n \in Nat /\ Current(store)
    BY <1>2, <2>2 DEF AgentActivity, IInv, SessionActivityState, FeedInv, AllCurrent
  <2> QED
    BY <2>3, <2>4, <2>5 DEF Current
<1> QED
  BY <1>1, <1>2, InitIInv, InitFeed, NextIInv, PTL DEF Spec
=============================================================================

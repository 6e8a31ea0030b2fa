------------------------- MODULE BrowserStoreProofs -------------------------
(***************************************************************************)
(* What the browser keeps of the daemon: the git status of a workspace     *)
(* (GitStatusFeed), for any number of changes of the tree, connections,    *)
(* views and faults, and any size of the queues; and the workspaces and    *)
(* agents of the sidebars (SidebarStore), for any set of workspaces and    *)
(* any number of agents and gestures.                                      *)
(***************************************************************************)
EXTENDS GitStatusFeed, SidebarStore, FiniteSetTheorems, SequenceTheorems, TLAPS

-----------------------------------------------------------------------------
(* The git status of a workspace.                                          *)
(*                                                                         *)
(* A change is either noted, waiting at a receiver, or about to be seen by *)
(* the git status under way (Awaited).  What is on the current connection  *)
(* is ordered by age (InOrder), and nothing is older than what was handled *)
(* last. The last message to the daemon is the one the views want          *)
(* (WantIsLast), so that whoever was heard has the subscription it wants.  *)
(* A subscription that is up to date has the version of the tree last on   *)
(* its way, or it was the last the views handled (PushedLast).             *)

GitView == [state: {"new", "mounted", "gone"}, data: Nat \cup {None},
            fetch: {"none", "asked", "computed", "answered"}, reply: Nat \cup {None}, late: BOOLEAN]

TypeInv ==
    /\ limit \in Limits /\ faults \in Nat
    /\ version \in Nat /\ watching \in BOOLEAN /\ noted \in BOOLEAN /\ rest \in Nat \cup {None}
    /\ net \in [Conns -> BOOLEAN] /\ srv \in [Conns -> {"none", "up", "done"}]
    /\ inq \in [Conns -> Seq({"subscribe", "unsubscribe"})] /\ out \in [Conns -> Seq(Nat)]
    /\ task \in [Conns -> GitTask \cup {None}] /\ refused \in [Conns -> BOOLEAN]
    /\ token \in BOOLEAN /\ sock \in [n: Nat, state: {"none", "connecting", "open", "closed"}]
    /\ timer \in BOOLEAN /\ pending \in Nat
    /\ refs \in Nat /\ cache \in Nat \cup {None} /\ views \in [Mounts -> GitView]
    /\ seen \in Nat /\ leaked \in BOOLEAN

\* Every change since the last git status is awaited: the watcher is to deliver it, or
\* an event is in the receiver of the task, or the task is about to see it.
Awaited(t) ==
    /\ ~t.closed => watching
    /\ t.phase \in {"recv", "send"} /\ t.behind =>
         noted \/ t.queued > 0 \/ t.lagged \/ t.closed \/ t.last = "failed"
    /\ t.phase = "done" => t.last = "none"

Events == \A c \in Conns : task[c] # None => Awaited(task[c])

\* Nothing was sent on connection c yet.
Untouched(c) == task[c] = None /\ inq[c] = << >> /\ out[c] = << >> /\ ~refused[c]

Opening ==
    \A c \in Conns :
        /\ c > sock.n => Untouched(c) /\ ~net[c] /\ srv[c] = "none"
        /\ c = sock.n /\ sock.state = "connecting" => Untouched(c)
        /\ c = sock.n /\ sock.state = "open" /\ net[c] => srv[c] = "up"

\* A status from oldest to newest: the last one handled, those on their way, the one
\* about to be sent, the tree.
OldFirst(c) ==
    /\ \A i \in 1 .. Len(out[c]) : seen =< out[c][i] /\ out[c][i] =< version
    /\ \A i, j \in 1 .. Len(out[c]) : i < j => out[c][i] =< out[c][j]
    /\ In(c, "send") =>
         /\ seen =< task[c].v /\ task[c].v =< version
         /\ \A i \in 1 .. Len(out[c]) : out[c][i] =< task[c].v

InOrder == seen =< version /\ \A c \in Conns : c = sock.n => OldFirst(c)

Counted == IsFiniteSet(Mounted) /\ refs = Cardinality(Mounted)

Open(c) == c = sock.n /\ sock.state = "open" /\ net[c] /\ srv[c] = "up"

\* What is last on its way to the daemon, or was heard last, is what the views want.
Wanted(c) ==
    IF inq[c] = << >>
    THEN IF Mounted # {} THEN task[c] # None \/ refused[c] ELSE task[c] = None \/ leaked
    ELSE IF Mounted # {} THEN inq[c][Len(inq[c])] = "subscribe"
                         ELSE inq[c][Len(inq[c])] = "unsubscribe" \/ leaked

WantIsLast ==
    /\ sock.state = "open" => pending = 0
    /\ Mounted = {} /\ pending > 0 => leaked
    /\ \A c \in Conns : Open(c) => Wanted(c)

\* The task has seen the tree as it is.
UpToDate(c) == task[c] # None /\ task[c].last = "ok" /\ ~task[c].behind

Pushed(c) == IF out[c] = << >> THEN seen = version ELSE out[c][Len(out[c])] = version

PushedLast ==
    \A c \in Conns : UpToDate(c) =>
        IF task[c].phase = "send" THEN task[c].v = version
        ELSE Open(c) /\ inq[c] = << >> /\ Mounted # {} => Pushed(c)

Fetched(v) ==
    /\ v.reply # None => v.reply =< version
    /\ v.state = "new" => v.fetch = "none"
    /\ v.state = "mounted" /\ v.fetch = "none" /\ ~v.late =>
         v.data # None /\ seen =< v.data /\ v.data =< version

Shows == (rest # None => rest =< version) /\ \A m \in Mounts : Fetched(views[m])

IInv == TypeInv /\ Events /\ Opening /\ InOrder /\ Counted /\ WantIsLast /\ PushedLast /\ Shows
-----------------------------------------------------------------------------
USE NoneIsNoStatus DEF fs, daemon, client, ui, bounds

\* Connections and mounts are numbered from one on.
LEMMA Numbered == Conns \subseteq Nat \ {0} /\ Mounts \subseteq Nat \ {0}
  BY GitStatusFeedAssumption DEF Conns, Mounts

\* What the properties say of the tree and the tasks is kept where these are.
LEMMA EventsKept ==
    ASSUME Events, UNCHANGED <<watching, noted, task>>
    PROVE  Events'
  BY DEF Events, Awaited

LEMMA OpeningKept ==
    ASSUME Opening, UNCHANGED <<sock, net, srv, inq, out, task, refused>>
    PROVE  Opening'
  BY DEF Opening, Untouched

LEMMA InOrderKept ==
    ASSUME InOrder, UNCHANGED <<seen, version, sock, out, task>>
    PROVE  InOrder'
  BY DEF InOrder, OldFirst, In

\* Views change without one coming or going.
LEMMA MountedKept ==
    ASSUME \A m \in Mounts : views'[m].state = views[m].state
    PROVE  Mounted' = Mounted
  BY DEF Mounted

LEMMA CountedKept ==
    ASSUME Counted, Mounted' = Mounted, refs' = refs
    PROVE  Counted'
  BY DEF Counted

\* What is wanted is kept while no message and no view comes or goes.
LEMMA WantKept ==
    ASSUME WantIsLast, Mounted' = Mounted, UNCHANGED <<sock, inq, refused, pending, leaked>>,
           \A c \in Conns : Open(c)' => Open(c) /\ (task'[c] = None <=> task[c] = None)
    PROVE  WantIsLast'
  BY DEF WantIsLast, Wanted

LEMMA PushedKept ==
    ASSUME PushedLast, Mounted' = Mounted, UNCHANGED <<version, inq, out, seen>>,
           \A c \in Conns : Open(c)' => Open(c),
           \A c \in Conns : UpToDate(c)' => UpToDate(c) /\ task'[c].v = task[c].v
                              /\ (task'[c].phase = "send" <=> task[c].phase = "send")
    PROVE  PushedLast'
  BY DEF PushedLast, Pushed

LEMMA ShowsKept ==
    ASSUME Shows, UNCHANGED <<rest, views, version, seen>>
    PROVE  Shows'
  BY DEF Shows, Fetched

\* A task moves on.
LEMMA TaskMoves ==
    ASSUME TypeInv, NEW c \in Conns, NEW t \in GitTask \cup {None}, task' = [task EXCEPT ![c] = t]
    PROVE  /\ task' \in [Conns -> GitTask \cup {None}]
           /\ task'[c] = t /\ \A d \in Conns : d # c => task'[d] = task[d]
  BY DEF TypeInv

LEMMA TaskIsOne ==
    ASSUME TypeInv, NEW c \in Conns, task[c] # None
    PROVE  task[c] \in GitTask
  BY DEF TypeInv

-----------------------------------------------------------------------------
(* The tree and its watcher.                                               *)

LEMMA ChangeKeeps ==
    ASSUME IInv, Change
    PROVE  IInv'
  <1> USE DEF IInv
  <1>1. /\ version \in Nat /\ version' = version + 1 /\ noted' = watching
        /\ UNCHANGED <<watching, rest, net, srv, inq, out, refused, token, sock, timer, pending, refs,
                       cache, views, seen, leaked, faults, limit>>
    BY DEF Change, TypeInv
  <1>2. ASSUME NEW c \in Conns
        PROVE  IF task[c] = None \/ task[c].phase = "done" THEN task'[c] = task[c]
               ELSE /\ task[c] \in GitTask /\ task'[c] \in GitTask
                    /\ task'[c] = [task[c] EXCEPT !.behind = TRUE]
    <2>1. task'[c] = IF task[c] = None \/ task[c].phase = "done" THEN task[c]
                     ELSE [task[c] EXCEPT !.behind = TRUE]
      BY DEF Change
    <2>2. QED
      BY <2>1, TaskIsOne DEF GitTask
  <1>3. ASSUME NEW c \in Conns
        PROVE  /\ task'[c] \in GitTask \cup {None} /\ (task'[c] = None <=> task[c] = None)
               /\ task[c] # None => /\ task'[c].phase = task[c].phase /\ task'[c].v = task[c].v
                                    /\ task'[c].queued = task[c].queued /\ task'[c].closed = task[c].closed
                                    /\ task'[c].lagged = task[c].lagged
                                    /\ task'[c].last = task[c].last
                                    /\ task'[c].behind \/ task[c].phase = "done"
    <2>1. CASE task[c] = None \/ task[c].phase = "done"
      BY <1>2, <2>1, TaskIsOne
    <2>2. CASE ~(task[c] = None \/ task[c].phase = "done")
      BY ZenonT(60), <1>2, <2>2 DEF GitTask
    <2>3. QED
      BY <2>1, <2>2
  <1>4. task' \in [Conns -> GitTask \cup {None}]
    BY <1>3 DEF Change
  <1>5. Mounted' = Mounted
    BY <1>1, MountedKept
  <1>6. TypeInv'
    BY <1>1, <1>4 DEF TypeInv
  <1>7. Events'
    BY <1>1, <1>3 DEF Events, Awaited
  <1>8. Opening'
    BY <1>1, <1>3 DEF Opening, Untouched
  <1>9. InOrder'
    <2> SUFFICES ASSUME NEW c \in Conns, c = sock.n PROVE OldFirst(c)'
      BY <1>1 DEF InOrder, TypeInv
    <2>1. OldFirst(c) /\ out[c] \in Seq(Nat) /\ task[c] \in GitTask \cup {None}
      BY DEF InOrder, TypeInv
    <2>2. In(c, "send")' => In(c, "send") /\ task'[c].v = task[c].v /\ task[c].v \in Nat
      BY <1>3, <2>1 DEF In, GitTask
    <2>3. QED
      BY <1>1, <2>1, <2>2 DEF OldFirst
  <1>10. Counted'
    BY <1>1, <1>5, CountedKept
  <1>11. WantIsLast'
    <2>1. \A c \in Conns : Open(c)' => Open(c) /\ (task'[c] = None <=> task[c] = None)
      BY <1>1, <1>3 DEF Open
    <2>2. QED
      BY <1>1, <1>5, <2>1, WantKept
  <1>12. PushedLast'
    <2> SUFFICES ASSUME NEW c \in Conns, UpToDate(c)' PROVE FALSE
      BY DEF PushedLast
    <2>1. task[c] # None /\ task[c].phase = "done" /\ task'[c].last = task[c].last
      BY <1>3 DEF UpToDate
    <2>2. QED
      BY <2>1 DEF Events, Awaited, UpToDate
  <1>13. Shows'
    <2> SUFFICES ASSUME NEW m \in Mounts PROVE Fetched(views[m])'
      BY <1>1 DEF Shows, TypeInv
    <2>1. views[m] \in GitView /\ Fetched(views[m])
      BY DEF Shows, TypeInv
    <2>2. QED
      BY <1>1, <2>1 DEF Fetched, GitView
  <1>14. QED
    BY <1>6, <1>7, <1>8, <1>9, <1>10, <1>11, <1>12, <1>13

\* What happens to the receiver of a task leaves the rest of it, and nothing else changes.
LEMMA ReceiversKeep ==
    ASSUME IInv, task' \in [Conns -> GitTask \cup {None}],
           UNCHANGED <<version, rest, net, srv, inq, out, refused, client, ui>>,
           \A c \in Conns : /\ task'[c] = None <=> task[c] = None
                            /\ task[c] # None => /\ task'[c].phase = task[c].phase
                                                 /\ task'[c].v = task[c].v
                                                 /\ task'[c].last = task[c].last
                                                 /\ task'[c].behind = task[c].behind
    PROVE  Opening' /\ InOrder' /\ Counted' /\ WantIsLast' /\ PushedLast' /\ Shows'
  <1> USE DEF IInv
  <1>1. Mounted' = Mounted
    BY MountedKept
  <1>2. Opening'
    BY DEF Opening, Untouched
  <1>3. InOrder'
    <2> SUFFICES ASSUME NEW c \in Conns, c = sock.n PROVE OldFirst(c)'
      BY DEF InOrder
    <2>1. OldFirst(c)
      BY DEF InOrder
    <2>2. In(c, "send")' => In(c, "send") /\ task'[c].v = task[c].v
      BY DEF In
    <2>3. QED
      BY <2>1, <2>2 DEF OldFirst
  <1>4. Counted'
    BY <1>1, CountedKept
  <1>5. \A c \in Conns : Open(c)' => Open(c)
    BY DEF Open
  <1>6. WantIsLast'
    BY <1>1, <1>5, WantKept
  <1>7. \A c \in Conns : UpToDate(c)' => UpToDate(c) /\ task'[c].v = task[c].v
                              /\ (task'[c].phase = "send" <=> task[c].phase = "send")
    BY DEF UpToDate
  <1>8. PushedLast'
    BY <1>1, <1>5, <1>7, PushedKept
  <1>9. Shows'
    BY ShowsKept
  <1>10. QED
    BY <1>2, <1>3, <1>4, <1>6, <1>8, <1>9

LEMMA NoticeKeeps ==
    ASSUME IInv, Notice
    PROVE  IInv'
  <1> USE DEF IInv
  <1>1. /\ noted' = FALSE
        /\ UNCHANGED <<version, watching, rest, net, srv, inq, out, refused, client, ui, bounds>>
    BY DEF Notice, TypeInv
  <1>2. ASSUME NEW c \in Conns
        PROVE  /\ task'[c] \in GitTask \cup {None} /\ (task'[c] = None <=> task[c] = None)
               /\ task[c] # None =>
                    /\ task'[c].phase = task[c].phase /\ task'[c].v = task[c].v
                    /\ task'[c].last = task[c].last /\ task'[c].behind = task[c].behind
                    /\ task'[c].closed = task[c].closed
                    /\ ~task[c].closed => task'[c].lagged \/ task'[c].queued > 0
    <2>1. task'[c] = Signalled(task[c])
      BY DEF Notice
    <2>2. CASE task[c] = None
      BY <2>1, <2>2 DEF Signalled
    <2>3. CASE task[c] # None
      <3>1. task[c] \in GitTask
        BY <2>3, TaskIsOne
      <3>2. CASE task[c].closed
        BY <2>1, <2>3, <3>1, <3>2 DEF Signalled, GitTask
      <3>3. CASE ~task[c].closed /\ task[c].queued = WatchCap
        BY ZenonT(60), <2>1, <2>3, <3>1, <3>3 DEF Signalled, GitTask
      <3>4. CASE ~task[c].closed /\ task[c].queued # WatchCap
        <4>1. task'[c] = [task[c] EXCEPT !.queued = task[c].queued + 1]
          BY <2>1, <2>3, <3>4 DEF Signalled
        <4>2. QED
          BY <2>3, <3>1, <3>4, <4>1 DEF GitTask
      <3>5. QED
        BY <3>2, <3>3, <3>4
    <2>4. QED
      BY <2>2, <2>3
  <1>3. task' \in [Conns -> GitTask \cup {None}]
    BY <1>2 DEF Notice
  <1>4. TypeInv'
    BY <1>1, <1>3 DEF TypeInv
  <1>5. Events'
    BY <1>1, <1>2 DEF Events, Awaited
  <1>6. QED
    BY <1>1, <1>2, <1>3, <1>4, <1>5, ReceiversKeep

LEMMA UnwatchKeeps ==
    ASSUME IInv, Unwatch
    PROVE  IInv'
  <1> USE DEF IInv
  <1>1. /\ watching' = FALSE /\ noted' = FALSE /\ faults' \in Nat
        /\ UNCHANGED <<version, rest, net, srv, inq, out, refused, client, ui, limit>>
    BY DEF Unwatch, Fault, TypeInv
  <1>2. ASSUME NEW c \in Conns
        PROVE  /\ task'[c] \in GitTask \cup {None} /\ (task'[c] = None <=> task[c] = None)
               /\ task[c] # None =>
                    /\ task'[c].phase = task[c].phase /\ task'[c].v = task[c].v
                    /\ task'[c].last = task[c].last /\ task'[c].behind = task[c].behind
                    /\ task'[c].closed
    <2>1. task'[c] = IF task[c] = None THEN None ELSE [task[c] EXCEPT !.closed = TRUE]
      BY DEF Unwatch
    <2>2. CASE task[c] # None
      <3>1. task[c] \in GitTask /\ task'[c] = [task[c] EXCEPT !.closed = TRUE]
        BY <2>1, <2>2, TaskIsOne
      <3>2. QED
        BY <2>2, <3>1 DEF GitTask
    <2>3. QED
      BY <2>1, <2>2
  <1>3. task' \in [Conns -> GitTask \cup {None}]
    BY <1>2 DEF Unwatch
  <1>4. TypeInv'
    BY <1>1, <1>3 DEF TypeInv
  <1>5. Events'
    BY <1>1, <1>2 DEF Events, Awaited
  <1>6. QED
    BY <1>1, <1>2, <1>3, <1>4, <1>5, ReceiversKeep

-----------------------------------------------------------------------------
(* A subscription.                                                         *)

\* A task that receives or drains leaves what it is about to send, and what it saw.
LEMMA TaskRecvKeeps ==
    ASSUME IInv, NEW c \in Conns, TaskRecv(c)
    PROVE  IInv'
  <1> USE DEF IInv
  <1>1. task[c] \in GitTask /\ task[c].phase = "recv"
    BY TaskIsOne DEF TaskRecv, In
  <1>2. UNCHANGED <<fs, rest, net, srv, inq, out, refused, client, ui, bounds>>
    BY DEF TaskRecv, SetTask
  <1>3. PICK t \in GitTask :
          /\ task' = [task EXCEPT ![c] = t]
          /\ t.closed = task[c].closed
          /\ \/ t.phase = "drain" /\ t.last = task[c].last /\ t.behind = task[c].behind
             \/ t.phase = "done" /\ t.last = "none" /\ t.closed
    <2>1. CASE SetTask(c, [task[c] EXCEPT !.phase = "drain", !.lagged = FALSE])
      <3> DEFINE u == [task[c] EXCEPT !.phase = "drain", !.lagged = FALSE]
      <3>1. /\ u \in GitTask /\ u.closed = task[c].closed
            /\ u.phase = "drain" /\ u.last = task[c].last /\ u.behind = task[c].behind
        BY <1>1 DEF GitTask
      <3>2. QED
        BY <2>1, <3>1 DEF SetTask
    <2>2. CASE task[c].queued > 0 /\ SetTask(c, [task[c] EXCEPT !.phase = "drain", !.queued = @ - 1])
      <3> DEFINE n == task[c].queued - 1
                 u == [task[c] EXCEPT !.phase = "drain", !.queued = n]
      <3>1. n \in Nat /\ SetTask(c, u)
        BY <1>1, <2>2 DEF GitTask
      <3> HIDE DEF n
      <3>2. /\ u \in GitTask /\ u.closed = task[c].closed
            /\ u.phase = "drain" /\ u.last = task[c].last /\ u.behind = task[c].behind
        BY <1>1, <3>1 DEF GitTask
      <3>3. QED
        BY <3>1, <3>2 DEF SetTask
    <2>3. CASE task[c].closed /\ SetTask(c, [NewTask EXCEPT !.phase = "done", !.closed = TRUE])
      <3> DEFINE u == [NewTask EXCEPT !.phase = "done", !.closed = TRUE]
      <3>1. u \in GitTask /\ u.closed = TRUE /\ u.phase = "done" /\ u.last = "none"
        BY DEF GitTask, NewTask
      <3>2. task[c].closed = TRUE
        BY <1>1, <2>3 DEF GitTask
      <3>3. QED
        BY <2>3, <3>1, <3>2 DEF SetTask
    <2>4. QED
      BY <2>1, <2>2, <2>3 DEF TaskRecv
  <1>4. /\ task' \in [Conns -> GitTask \cup {None}]
        /\ task'[c] = t /\ \A d \in Conns : d # c => task'[d] = task[d]
    BY <1>3, TaskMoves
  <1>5. Mounted' = Mounted
    BY <1>2, MountedKept
  <1>6. TypeInv'
    BY <1>2, <1>4 DEF TypeInv
  <1>7. Events'
    BY <1>1, <1>2, <1>3, <1>4 DEF Events, Awaited
  <1>8. Opening'
    BY <1>1, <1>2, <1>3, <1>4 DEF Opening, Untouched
  <1>9. InOrder'
    BY <1>1, <1>2, <1>3, <1>4 DEF InOrder, OldFirst, In
  <1>10. Counted'
    BY <1>2, <1>5, CountedKept
  <1>11. \A d \in Conns : Open(d)' => Open(d) /\ (task'[d] = None <=> task[d] = None)
    BY <1>1, <1>2, <1>4 DEF Open
  <1>12. WantIsLast'
    BY <1>2, <1>5, <1>11, WantKept
  <1>13. PushedLast'
    BY <1>1, <1>2, <1>3, <1>4, <1>5, <1>11 DEF PushedLast, UpToDate, Pushed
  <1>14. Shows'
    BY <1>2, ShowsKept
  <1>15. QED
    BY <1>6, <1>7, <1>8, <1>9, <1>10, <1>12, <1>13, <1>14

LEMMA TaskDrainKeeps ==
    ASSUME IInv, NEW c \in Conns, TaskDrain(c)
    PROVE  IInv'
  <1> USE DEF IInv
  <1>1. task[c] \in GitTask /\ task[c].phase = "drain"
    BY TaskIsOne DEF TaskDrain, In
  <1>2. UNCHANGED <<fs, rest, net, srv, inq, out, refused, client, ui, bounds>>
    BY DEF TaskDrain, SetTask
  <1>3. PICK t \in GitTask :
          /\ task' = [task EXCEPT ![c] = t]
          /\ t.closed = task[c].closed
          /\ t.phase = "compute" /\ t.last = task[c].last /\ t.behind = task[c].behind
    <2> DEFINE u == IF task[c].lagged THEN [task[c] EXCEPT !.phase = "compute", !.lagged = FALSE]
                    ELSE [task[c] EXCEPT !.phase = "compute", !.queued = 0]
    <2>1. /\ u \in GitTask /\ u.closed = task[c].closed
          /\ u.phase = "compute" /\ u.last = task[c].last /\ u.behind = task[c].behind
      BY <1>1 DEF GitTask
    <2>2. QED
      BY <2>1 DEF TaskDrain, SetTask
  <1>4. /\ task' \in [Conns -> GitTask \cup {None}]
        /\ task'[c] = t /\ \A d \in Conns : d # c => task'[d] = task[d]
    BY <1>3, TaskMoves
  <1>5. Mounted' = Mounted
    BY <1>2, MountedKept
  <1>6. TypeInv'
    BY <1>2, <1>4 DEF TypeInv
  <1>7. Events'
    BY <1>1, <1>2, <1>3, <1>4 DEF Events, Awaited
  <1>8. Opening'
    BY <1>1, <1>2, <1>3, <1>4 DEF Opening, Untouched
  <1>9. InOrder'
    BY <1>1, <1>2, <1>3, <1>4 DEF InOrder, OldFirst, In
  <1>10. Counted'
    BY <1>2, <1>5, CountedKept
  <1>11. \A d \in Conns : Open(d)' => Open(d) /\ (task'[d] = None <=> task[d] = None)
    BY <1>1, <1>2, <1>4 DEF Open
  <1>12. WantIsLast'
    BY <1>2, <1>5, <1>11, WantKept
  <1>13. PushedLast'
    BY <1>1, <1>2, <1>3, <1>4, <1>5, <1>11 DEF PushedLast, UpToDate, Pushed
  <1>14. Shows'
    BY <1>2, ShowsKept
  <1>15. QED
    BY <1>6, <1>7, <1>8, <1>9, <1>10, <1>12, <1>13, <1>14

LEMMA TaskComputeKeeps ==
    ASSUME IInv, NEW c \in Conns, TaskCompute(c)
    PROVE  IInv'
  <1> USE DEF IInv
  <1>1. task[c] \in GitTask /\ task[c].phase = "compute" /\ version \in Nat
    BY TaskIsOne DEF TaskCompute, In, TypeInv
  <1>2. /\ UNCHANGED <<fs, rest, net, srv, inq, out, refused, client, ui, limit>>
        /\ faults' \in Nat
    BY DEF TaskCompute, SetTask, Fault, TypeInv
  <1>3. PICK t \in GitTask :
          /\ task' = [task EXCEPT ![c] = t]
          /\ t.closed = task[c].closed
          /\ \/ t.phase = "send" /\ t.v = version /\ t.last = "ok" /\ ~t.behind
             \/ t.phase = "recv" /\ t.last = "failed"
    <2>1. CASE SetTask(c, [task[c] EXCEPT !.phase = "send", !.v = version, !.last = "ok", !.behind = FALSE])
      <3> DEFINE u == [task[c] EXCEPT !.phase = "send", !.v = version, !.last = "ok", !.behind = FALSE]
      <3>1. /\ u \in GitTask /\ u.closed = task[c].closed
            /\ u.phase = "send" /\ u.v = version /\ u.last = "ok" /\ ~u.behind
        BY <1>1 DEF GitTask
      <3>2. QED
        BY <2>1, <3>1 DEF SetTask
    <2>2. CASE SetTask(c, [task[c] EXCEPT !.phase = "recv", !.last = "failed"])
      <3> DEFINE u == [task[c] EXCEPT !.phase = "recv", !.last = "failed"]
      <3>1. /\ u \in GitTask /\ u.closed = task[c].closed
            /\ u.phase = "recv" /\ u.last = "failed"
        BY <1>1 DEF GitTask
      <3>2. QED
        BY <2>2, <3>1 DEF SetTask
    <2>3. QED
      BY <2>1, <2>2 DEF TaskCompute
  <1>4. /\ task' \in [Conns -> GitTask \cup {None}]
        /\ task'[c] = t /\ \A d \in Conns : d # c => task'[d] = task[d]
    BY <1>3, TaskMoves
  <1>5. Mounted' = Mounted
    BY <1>2, MountedKept
  <1>6. TypeInv'
    BY <1>2, <1>4 DEF TypeInv
  <1>7. Events'
    BY <1>1, <1>2, <1>3, <1>4 DEF Events, Awaited
  <1>8. Opening'
    BY <1>1, <1>2, <1>3, <1>4 DEF Opening, Untouched
  <1>9. InOrder'
    BY <1>1, <1>2, <1>3, <1>4 DEF InOrder, OldFirst, In
  <1>10. Counted'
    BY <1>2, <1>5, CountedKept
  <1>11. \A d \in Conns : Open(d)' => Open(d) /\ (task'[d] = None <=> task[d] = None)
    BY <1>1, <1>2, <1>4 DEF Open
  <1>12. WantIsLast'
    BY <1>2, <1>5, <1>11, WantKept
  <1>13. PushedLast'
    BY <1>1, <1>2, <1>3, <1>4, <1>5, <1>11 DEF PushedLast, UpToDate, Pushed
  <1>14. Shows'
    BY <1>2, ShowsKept
  <1>15. QED
    BY <1>6, <1>7, <1>8, <1>9, <1>10, <1>12, <1>13, <1>14

\* What is left of a queue without its head.
LEMMA Shortened ==
    ASSUME NEW S, NEW s \in Seq(S), s # << >>
    PROVE  /\ Head(s) \in S /\ Head(s) = s[1] /\ Tail(s) \in Seq(S) /\ Len(s) \in Nat \ {0}
           /\ Len(Tail(s)) = Len(s) - 1 /\ (Tail(s) = << >> <=> Len(s) = 1)
           /\ \A i \in 1 .. Len(Tail(s)) : Tail(s)[i] = s[i + 1]
           /\ Tail(s) # << >> => Tail(s)[Len(Tail(s))] = s[Len(s)]
  <1>1. /\ Head(s) \in S /\ Head(s) = s[1] /\ Tail(s) \in Seq(S) /\ Len(s) \in Nat \ {0}
        /\ Len(Tail(s)) = Len(s) - 1
        /\ \A i \in 1 .. Len(Tail(s)) : Tail(s)[i] = s[i + 1]
    OBVIOUS
  <1>2. Tail(s) = << >> <=> Len(s) = 1
    BY <1>1, EmptySeq
  <1>3. Tail(s) # << >> => Len(Tail(s)) \in 1 .. Len(Tail(s)) /\ Len(Tail(s)) + 1 = Len(s)
    BY <1>1, <1>2
  <1>4. QED
    BY <1>1, <1>2, <1>3

\* The status that is sent is the newest on the connection.
LEMMA TaskSendKeeps ==
    ASSUME IInv, NEW c \in Conns, TaskSend(c)
    PROVE  IInv'
  <1> USE DEF IInv
  <1>1. task[c] \in GitTask /\ task[c].phase = "send" /\ In(c, "send") /\ out[c] \in Seq(Nat)
    BY TaskIsOne DEF TaskSend, In, TypeInv
  <1>2. UNCHANGED <<fs, rest, net, srv, inq, refused, client, ui, bounds>>
    BY DEF TaskSend, SetTask
  <1>3. PICK t \in GitTask :
          /\ task' = [task EXCEPT ![c] = t]
          /\ t.closed = task[c].closed /\ t.queued = task[c].queued /\ t.lagged = task[c].lagged
          /\ t.phase = "recv" /\ t.last = task[c].last /\ t.behind = task[c].behind
    <2> DEFINE u == [task[c] EXCEPT !.phase = "recv", !.v = 0]
    <2>1. /\ u \in GitTask
          /\ u.closed = task[c].closed /\ u.queued = task[c].queued /\ u.lagged = task[c].lagged
          /\ u.phase = "recv" /\ u.last = task[c].last /\ u.behind = task[c].behind
      BY <1>1 DEF GitTask
    <2>2. QED
      BY <2>1 DEF TaskSend, SetTask
  <1>4. /\ task' \in [Conns -> GitTask \cup {None}]
        /\ task'[c] = t /\ \A d \in Conns : d # c => task'[d] = task[d]
    BY <1>3, TaskMoves
  <1>5. /\ task[c].v \in Nat /\ out'[c] = Append(out[c], task[c].v)
        /\ out' \in [Conns -> Seq(Nat)] /\ \A d \in Conns : d # c => out'[d] = out[d]
    BY <1>1 DEF TaskSend, TypeInv, GitTask
  <1>6. Mounted' = Mounted
    BY <1>2, MountedKept
  <1>7. /\ Len(out'[c]) = Len(out[c]) + 1 /\ out'[c][Len(out[c]) + 1] = task[c].v /\ out'[c] # << >>
        /\ Len(out[c]) \in Nat /\ \A i \in 1 .. Len(out[c]) : out'[c][i] = out[c][i]
    BY <1>1, <1>5
  <1>8. TypeInv'
    BY <1>2, <1>4, <1>5 DEF TypeInv
  <1>9. Events'
    BY <1>1, <1>2, <1>3, <1>4 DEF Events, Awaited
  <1>10. Opening'
    BY <1>1, <1>2, <1>3, <1>4, <1>5 DEF Opening, Untouched, TypeInv
  <1>11. InOrder'
    <2> SUFFICES ASSUME NEW d \in Conns, d = sock.n PROVE OldFirst(d)'
      BY <1>2 DEF InOrder
    <2>1. OldFirst(d)
      BY DEF InOrder
    <2>2. CASE d # c
      BY <1>2, <1>4, <1>5, <2>1, <2>2 DEF OldFirst, In
    <2>3. CASE d = c
      <3>1. ~In(c, "send")'
        BY <1>3, <1>4 DEF In
      <3>2. \A i \in 1 .. Len(out'[c]) : i \in 1 .. Len(out[c]) \/ i = Len(out[c]) + 1
        BY <1>7
      <3>3. /\ seen \in Nat /\ version \in Nat /\ seen =< task[c].v /\ task[c].v =< version
            /\ \A i \in 1 .. Len(out[c]) : out[c][i] \in Nat /\ out[c][i] =< task[c].v
        BY <1>1, <2>1, <2>3 DEF OldFirst, TypeInv
      <3>4. \A i \in 1 .. Len(out'[c]) : seen =< out'[c][i] /\ out'[c][i] =< version
        BY <1>7, <2>1, <2>3, <3>2, <3>3 DEF OldFirst
      <3>5. ASSUME NEW i \in 1 .. Len(out'[c]), NEW j \in 1 .. Len(out'[c]), i < j
            PROVE  out'[c][i] =< out'[c][j]
        <4>1. i \in 1 .. Len(out[c])
          BY <1>7, <3>5
        <4>2. CASE j \in 1 .. Len(out[c])
          BY <1>7, <2>1, <2>3, <3>5, <4>1, <4>2 DEF OldFirst
        <4>3. CASE j = Len(out[c]) + 1
          BY <1>7, <3>3, <4>1, <4>3
        <4>4. QED
          BY <3>2, <4>2, <4>3
      <3>6. QED
        BY <1>2, <2>3, <3>1, <3>4, <3>5 DEF OldFirst
    <2>4. QED
      BY <2>2, <2>3
  <1>12. Counted'
    BY <1>2, <1>6, CountedKept
  <1>13. \A d \in Conns : Open(d)' => Open(d) /\ (task'[d] = None <=> task[d] = None)
    BY <1>1, <1>2, <1>4 DEF Open
  <1>14. WantIsLast'
    BY <1>2, <1>6, <1>13, WantKept
  <1>15. PushedLast'
    <2> SUFFICES ASSUME NEW d \in Conns, UpToDate(d)'
                 PROVE  IF task'[d].phase = "send" THEN task'[d].v = version'
                        ELSE Open(d)' /\ inq'[d] = << >> /\ Mounted' # {} => Pushed(d)'
      BY DEF PushedLast
    <2>1. CASE d # c
      BY <1>2, <1>4, <1>5, <1>6, <1>13, <2>1 DEF PushedLast, UpToDate, Pushed
    <2>2. CASE d = c
      <3>1. task[c].v = version
        BY <1>1, <1>3, <1>4, <2>2 DEF PushedLast, UpToDate
      <3>2. Pushed(c)'
        BY <1>2, <1>7, <3>1 DEF Pushed
      <3>3. QED
        BY <1>3, <1>4, <2>2, <3>2
    <2>3. QED
      BY <2>1, <2>2
  <1>16. Shows'
    BY <1>2, ShowsKept
  <1>17. QED
    BY <1>8, <1>9, <1>10, <1>11, <1>12, <1>14, <1>15, <1>16

-----------------------------------------------------------------------------
(* handle_socket.                                                          *)

LEMMA AcceptKeeps ==
    ASSUME IInv, NEW c \in Conns, Accept(c)
    PROVE  IInv'
  <1> USE DEF IInv
  <1>1. /\ UNCHANGED <<fs, rest, net, inq, out, task, refused, client, ui, bounds>>
        /\ net[c] /\ srv[c] = "none" /\ srv' \in [Conns -> {"none", "up", "done"}]
        /\ srv'[c] = "up" /\ \A d \in Conns : d # c => srv'[d] = srv[d]
    BY DEF Accept, TypeInv
  <1>2. Mounted' = Mounted
    BY <1>1, MountedKept
  <1>3. TypeInv'
    BY <1>1 DEF TypeInv
  <1>4. Events'
    BY <1>1, EventsKept
  <1>5. Opening'
    BY <1>1 DEF Opening, Untouched
  <1>6. InOrder'
    BY <1>1, InOrderKept
  <1>7. Counted'
    BY <1>1, <1>2, CountedKept
  <1>8. \A d \in Conns : Open(d)' => Open(d) /\ (task'[d] = None <=> task[d] = None)
    BY <1>1 DEF Opening, Open
  <1>9. WantIsLast'
    BY <1>1, <1>2, <1>8, WantKept
  <1>10. PushedLast'
    BY <1>1, <1>2, <1>8 DEF PushedLast, UpToDate, Pushed
  <1>11. Shows'
    BY <1>1, ShowsKept
  <1>12. QED
    BY <1>3, <1>4, <1>5, <1>6, <1>7, <1>9, <1>10, <1>11

LEMMA NewTaskIsOne == NewTask \in GitTask /\ NewTask # None
  <1>1. NewTask \in GitTask
    BY DEF GitTask, NewTask
  <1>2. QED
    BY <1>1

\* A message that is handled makes of the subscription what it asks for, or it is refused.
LEMMA MessageKeeps ==
    ASSUME IInv, NEW c \in Conns, Next1(c), NEW t \in {None, NewTask},
           task' = [task EXCEPT ![c] = t], t # None => watching',
           refused' \in [Conns -> BOOLEAN], \A d \in Conns : d # c => refused'[d] = refused[d],
           Head(inq[c]) = "subscribe" => t # None \/ refused'[c],
           Head(inq[c]) = "unsubscribe" => t = None,
           watching' \in BOOLEAN, watching => watching', faults' \in Nat,
           UNCHANGED <<version, noted, rest, net, srv, out, client, ui, limit>>
    PROVE  IInv'
  <1> USE DEF IInv
  <1>1. NewTask \in GitTask /\ t \in GitTask \cup {None}
    BY NewTaskIsOne
  <1>2. /\ task' \in [Conns -> GitTask \cup {None}]
        /\ task'[c] = t /\ \A d \in Conns : d # c => task'[d] = task[d]
    BY <1>1, TaskMoves
  <1>3. /\ inq[c] # << >> /\ inq[c] \in Seq({"subscribe", "unsubscribe"}) /\ srv[c] = "up"
        /\ inq'[c] = Tail(inq[c]) /\ \A d \in Conns : d # c => inq'[d] = inq[d]
        /\ inq' \in [Conns -> Seq({"subscribe", "unsubscribe"})]
    BY DEF Next1, TypeInv
  <1>4. /\ Head(inq[c]) \in {"subscribe", "unsubscribe"} /\ Head(inq[c]) = inq[c][1]
        /\ Len(inq[c]) \in Nat \ {0} /\ (inq'[c] = << >> <=> Len(inq[c]) = 1)
        /\ inq'[c] # << >> => inq'[c][Len(inq'[c])] = inq[c][Len(inq[c])]
    <2> DEFINE S == {"subscribe", "unsubscribe"}
    <2>1. inq[c] \in Seq(S) /\ inq[c] # << >>
      BY <1>3
    <2> HIDE DEF S
    <2>2. /\ Head(inq[c]) \in S /\ Head(inq[c]) = inq[c][1] /\ Len(inq[c]) \in Nat \ {0}
          /\ (Tail(inq[c]) = << >> <=> Len(inq[c]) = 1)
          /\ Tail(inq[c]) # << >> => Tail(inq[c])[Len(Tail(inq[c]))] = inq[c][Len(inq[c])]
      BY <2>1, Shortened, Zenon
    <2>3. inq'[c] = Tail(inq[c])
      BY <1>3
    <2>4. (inq'[c] = << >> <=> Len(inq[c]) = 1) /\ (inq'[c] # << >> => inq'[c][Len(inq'[c])] = inq[c][Len(inq[c])])
      BY <2>2, <2>3, Zenon
    <2>5. Head(inq[c]) \in {"subscribe", "unsubscribe"}
      BY <2>2 DEF S
    <2>6. QED
      BY <2>2, <2>4, <2>5, Zenon
  <1>5. Mounted' = Mounted
    BY MountedKept
  <1>6. TypeInv'
    BY <1>2, <1>3 DEF TypeInv
  <1>7. Events'
    BY <1>1, <1>2 DEF Events, Awaited, NewTask
  <1>8. Opening'
    BY <1>2, <1>3 DEF Opening, Untouched
  <1>9. InOrder'
    BY <1>2 DEF InOrder, OldFirst, In, NewTask
  <1>10. Counted'
    BY <1>5, CountedKept
  <1>11. WantIsLast'
    <2> SUFFICES ASSUME NEW d \in Conns, Open(d)' PROVE Wanted(d)'
      BY <1>5 DEF WantIsLast
    <2>1. Open(d) /\ Wanted(d)
      BY DEF WantIsLast, Open
    <2>2. CASE d # c
      BY <1>2, <1>3, <1>5, <2>1, <2>2 DEF Wanted
    <2>3. CASE d = c /\ inq'[c] # << >>
      BY <1>3, <1>4, <1>5, <2>1, <2>3 DEF Wanted
    <2>4. CASE d = c /\ inq'[c] = << >>
      BY <1>2, <1>3, <1>4, <1>5, <2>1, <2>4 DEF Wanted
    <2>5. QED
      BY <2>2, <2>3, <2>4
  <1>12. PushedLast'
    <2> SUFFICES ASSUME NEW d \in Conns, UpToDate(d)'
                 PROVE  IF task'[d].phase = "send" THEN task'[d].v = version'
                        ELSE Open(d)' /\ inq'[d] = << >> /\ Mounted' # {} => Pushed(d)'
      BY DEF PushedLast
    <2>1. d # c
      BY <1>2 DEF UpToDate, NewTask
    <2>2. QED
      BY <1>2, <1>3, <1>5, <2>1 DEF PushedLast, UpToDate, Pushed, Open
  <1>13. Shows'
    BY ShowsKept
  <1>14. QED
    BY <1>6, <1>7, <1>8, <1>9, <1>10, <1>11, <1>12, <1>13

LEMMA SubscribeKeeps ==
    ASSUME IInv, NEW c \in Conns, Subscribe(c)
    PROVE  IInv'
  <1>1. /\ Next1(c) /\ Head(inq[c]) = "subscribe" /\ watching' = TRUE
        /\ task' = [task EXCEPT ![c] = NewTask] /\ faults' \in Nat
        /\ refused' \in [Conns -> BOOLEAN] /\ \A d \in Conns : d # c => refused'[d] = refused[d]
        /\ UNCHANGED <<version, noted, rest, net, srv, out, client, ui, limit>>
    BY DEF Subscribe, Watch, IInv, TypeInv
  <1>2. NewTask # None
    BY NewTaskIsOne
  <1>3. QED
    BY <1>1, <1>2, MessageKeeps

LEMMA SubscribeRefusedKeeps ==
    ASSUME IInv, NEW c \in Conns, SubscribeRefused(c)
    PROVE  IInv'
  <1>1. /\ Next1(c) /\ Head(inq[c]) = "subscribe" /\ watching' = watching /\ watching \in BOOLEAN
        /\ task' = [task EXCEPT ![c] = None] /\ faults' \in Nat
        /\ refused' \in [Conns -> BOOLEAN] /\ \A d \in Conns : d # c => refused'[d] = refused[d]
        /\ refused'[c]
        /\ UNCHANGED <<version, noted, rest, net, srv, out, client, ui, limit>>
    BY DEF SubscribeRefused, Fault, IInv, TypeInv
  <1>2. QED
    BY <1>1, MessageKeeps

LEMMA UnsubscribeKeeps ==
    ASSUME IInv, NEW c \in Conns, Unsubscribe(c)
    PROVE  IInv'
  <1>1. /\ Next1(c) /\ Head(inq[c]) = "unsubscribe" /\ watching' = watching /\ watching \in BOOLEAN
        /\ task' = [task EXCEPT ![c] = None] /\ faults' \in Nat
        /\ refused' \in [Conns -> BOOLEAN] /\ \A d \in Conns : d # c => refused'[d] = refused[d]
        /\ UNCHANGED <<version, noted, rest, net, srv, out, client, ui, limit>>
    BY DEF Unsubscribe, IInv, TypeInv
  <1>2. QED
    BY <1>1, MessageKeeps

\* A connection that is gone is no longer anybody's.
LEMMA ConnEndsKeeps ==
    ASSUME IInv, NEW c \in Conns, ConnEnds(c)
    PROVE  IInv'
  <1> USE DEF IInv
  <1>1. /\ UNCHANGED <<fs, rest, net, out, client, ui, bounds>> /\ ~net[c] /\ srv[c] = "up"
        /\ srv' \in [Conns -> {"none", "up", "done"}] /\ refused' \in [Conns -> BOOLEAN]
        /\ inq' \in [Conns -> Seq({"subscribe", "unsubscribe"})]
        /\ task' \in [Conns -> GitTask \cup {None}]
        /\ task'[c] = None /\ inq'[c] = << >> /\ ~refused'[c]
        /\ \A d \in Conns : d # c => /\ srv'[d] = srv[d] /\ inq'[d] = inq[d]
                                     /\ task'[d] = task[d] /\ refused'[d] = refused[d]
    BY DEF ConnEnds, TypeInv
  <1>2. Mounted' = Mounted
    BY <1>1, MountedKept
  <1>3. TypeInv'
    BY <1>1 DEF TypeInv
  <1>4. Events'
    BY <1>1 DEF Events, Awaited
  <1>5. Opening'
    BY <1>1 DEF Opening, Untouched
  <1>6. InOrder'
    BY <1>1 DEF InOrder, OldFirst, In
  <1>7. Counted'
    BY <1>1, <1>2, CountedKept
  <1>8. \A d \in Conns : Open(d)' => Open(d) /\ d # c
    BY <1>1 DEF Open
  <1>9. WantIsLast'
    BY <1>1, <1>2, <1>8 DEF WantIsLast, Wanted
  <1>10. PushedLast'
    BY SMTT(30), <1>1, <1>2, <1>8 DEF PushedLast, UpToDate, Pushed
  <1>11. Shows'
    BY <1>1, ShowsKept
  <1>12. QED
    BY <1>3, <1>4, <1>5, <1>6, <1>7, <1>9, <1>10, <1>11

LEMMA NetDropsKeeps ==
    ASSUME IInv, NEW c \in Conns, NetDrops(c)
    PROVE  IInv'
  <1> USE DEF IInv
  <1>1. /\ UNCHANGED <<fs, rest, daemon, client, ui, limit>> /\ faults' \in Nat
        /\ net' \in [Conns -> BOOLEAN] /\ \A d \in Conns : net'[d] => net[d]
    BY DEF NetDrops, Fault, TypeInv
  <1>2. Mounted' = Mounted
    BY <1>1, MountedKept
  <1>3. TypeInv'
    BY <1>1 DEF TypeInv
  <1>4. Events'
    BY <1>1, EventsKept
  <1>5. Opening'
    BY <1>1 DEF Opening, Untouched
  <1>6. InOrder'
    BY <1>1, InOrderKept
  <1>7. Counted'
    BY <1>1, <1>2, CountedKept
  <1>8. \A d \in Conns : Open(d)' => Open(d) /\ (task'[d] = None <=> task[d] = None)
    BY <1>1 DEF Open
  <1>9. WantIsLast'
    BY <1>1, <1>2, <1>8, WantKept
  <1>10. PushedLast'
    BY <1>1, <1>2, <1>8 DEF PushedLast, UpToDate, Pushed
  <1>11. Shows'
    BY <1>1, ShowsKept
  <1>12. QED
    BY <1>3, <1>4, <1>5, <1>6, <1>7, <1>9, <1>10, <1>11

-----------------------------------------------------------------------------
(* The socket of the browser.                                              *)

\* A new connection is untouched, and the old one is no longer open.
LEMMA ConnectKeeps ==
    ASSUME IInv, Connect, token' \in BOOLEAN, timer' \in BOOLEAN,
           UNCHANGED <<fs, rest, daemon, pending, ui, bounds>>
    PROVE  IInv'
  <1> USE DEF IInv
  <1>1. /\ sock \in [n: Nat, state: {"none", "connecting", "open", "closed"}]
        /\ sock' = [n |-> sock.n + 1, state |-> "connecting"]
        /\ net' \in [Conns -> BOOLEAN]
        /\ \A c \in Conns : net'[c] = IF c = sock.n + 1 THEN TRUE ELSE IF c = sock.n THEN FALSE ELSE net[c]
    BY DEF Connect, TypeInv
  <1>2. /\ sock'.n = sock.n + 1 /\ sock'.state = "connecting" /\ sock.n \in Nat /\ Conns \subseteq Nat
        /\ sock' \in [n: Nat, state: {"none", "connecting", "open", "closed"}]
    BY <1>1, Numbered
  <1>3. Mounted' = Mounted
    BY MountedKept
  <1>4. TypeInv'
    BY <1>1, <1>2 DEF TypeInv
  <1>5. Events'
    BY EventsKept
  <1>6. \A c \in Conns : c >= sock.n + 1 => Untouched(c) /\ srv[c] = "none" /\ ~net[c]
    BY <1>2 DEF Opening
  <1>7. Opening'
    <2> SUFFICES ASSUME NEW c \in Conns
                 PROVE  /\ c > sock'.n => Untouched(c)' /\ ~net'[c] /\ srv'[c] = "none"
                        /\ c = sock'.n => Untouched(c)'
      BY <1>2 DEF Opening
    <2>1. c >= sock.n + 1 => Untouched(c)'
      BY <1>6 DEF Untouched
    <2>2. ASSUME c > sock'.n PROVE c >= sock.n + 1 /\ net'[c] = net[c]
      <3>1. c \in Nat /\ c > sock.n + 1
        BY <1>2, <2>2
      <3>2. c # sock.n + 1 /\ c # sock.n /\ c >= sock.n + 1
        BY <1>2, <3>1
      <3>3. QED
        BY <1>1, <3>2
    <2>3. c = sock'.n => c >= sock.n + 1
      BY <1>2
    <2>4. QED
      BY <1>6, <2>1, <2>2, <2>3
  <1>8. InOrder'
    <2> SUFFICES ASSUME NEW c \in Conns, c = sock'.n PROVE OldFirst(c)'
      BY DEF InOrder
    <2>1. out'[c] = << >> /\ task'[c] = None
      BY <1>2, <1>6 DEF Untouched
    <2>2. QED
      BY <2>1 DEF OldFirst, In
  <1>9. Counted'
    BY <1>3, CountedKept
  <1>10. \A c \in Conns : ~Open(c)'
    BY <1>2 DEF Open
  <1>11. WantIsLast'
    BY <1>2, <1>3, <1>10 DEF WantIsLast
  <1>12. PushedLast'
    BY <1>10 DEF PushedLast, UpToDate
  <1>13. Shows'
    BY ShowsKept
  <1>14. QED
    BY <1>4, <1>5, <1>7, <1>8, <1>9, <1>11, <1>12, <1>13

LEMMA LoginKeeps ==
    ASSUME IInv, Login
    PROVE  IInv'
  BY ConnectKeeps DEF Login, IInv, TypeInv

LEMMA TimerFiresKeeps ==
    ASSUME IInv, TimerFires
    PROVE  IInv'
  BY ConnectKeeps DEF TimerFires, IInv, TypeInv

\* No view is left, and no connection.
LEMMA LogoutKeeps ==
    ASSUME IInv, Logout
    PROVE  IInv'
  <1> USE DEF IInv
  <1>1. /\ UNCHANGED <<fs, rest, daemon, cache, seen, bounds>> /\ token' = FALSE
        /\ timer' = FALSE /\ pending' = 0 /\ refs' = 0 /\ leaked' = FALSE
        /\ net' \in [Conns -> BOOLEAN] /\ \A c \in Conns : net'[c] => net[c]
    BY DEF Logout, TypeInv
  <1>2. /\ sock' = [sock EXCEPT !.state = "none"]
        /\ sock \in [n: Nat, state: {"none", "connecting", "open", "closed"}]
    BY DEF Logout, TypeInv
  <1>3. /\ sock'.n = sock.n /\ sock'.state = "none"
        /\ sock' \in [n: Nat, state: {"none", "connecting", "open", "closed"}]
    BY <1>2
  <1>4. ASSUME NEW m \in Mounts
        PROVE  /\ views'[m] \in GitView /\ views'[m].state # "mounted"
               /\ views'[m].fetch = views[m].fetch /\ views'[m].reply = views[m].reply
               /\ views'[m].state = "new" => views[m].state = "new"
    <2>1. views[m] \in GitView /\ views'[m] = Gone(views[m])
      BY DEF Logout, TypeInv
    <2>2. CASE views[m].state = "mounted"
      BY <2>1, <2>2 DEF Gone, NewView, GitView
    <2>3. CASE views[m].state # "mounted"
      BY <2>1, <2>3 DEF Gone
    <2>4. QED
      BY <2>2, <2>3
  <1>5. views' \in [Mounts -> GitView]
    BY <1>4 DEF Logout
  <1>6. Mounted' = {}
    BY <1>4 DEF Mounted
  <1>7. TypeInv'
    BY <1>1, <1>3, <1>5 DEF TypeInv
  <1>8. Events'
    BY <1>1, EventsKept
  <1>9. Opening'
    BY <1>1, <1>3 DEF Opening, Untouched
  <1>10. InOrder'
    BY <1>1, <1>3 DEF InOrder, OldFirst, In
  <1>11. Counted'
    BY <1>1, <1>6, FS_EmptySet DEF Counted
  <1>12. WantIsLast'
    BY <1>1, <1>3, <1>6 DEF WantIsLast, Open
  <1>13. PushedLast'
    BY <1>1, <1>6 DEF PushedLast, UpToDate
  <1>14. Shows'
    <2>1. \A m \in Mounts : Fetched(views[m])'
      BY <1>1, <1>4 DEF Shows, Fetched
    <2>2. QED
      BY <1>1, <2>1 DEF Shows
  <1>15. QED
    BY <1>7, <1>8, <1>9, <1>10, <1>11, <1>12, <1>13, <1>14

\* What is sent when the socket opens is a subscribe for as long as a view is there, and
\* nothing but what was queued if none is.
LEMMA SocketOpensKeeps ==
    ASSUME IInv, SocketOpens
    PROVE  IInv'
  <1> USE DEF IInv
  <1>1. /\ UNCHANGED <<fs, rest, net, srv, out, task, refused, token, timer, ui, bounds>>
        /\ sock.state = "connecting" /\ net[sock.n] /\ srv[sock.n] = "up" /\ pending' = 0
        /\ inq' = [inq EXCEPT ![sock.n] = [i \in 1 .. Flushed |-> "subscribe"]]
        /\ sock' = [sock EXCEPT !.state = "open"] /\ sock \in [n: Nat, state: {"none", "connecting", "open", "closed"}]
        /\ pending \in Nat /\ refs \in Nat
    BY DEF SocketOpens, TypeInv
  <1>2. /\ sock'.n = sock.n /\ sock'.state = "open"
        /\ sock' \in [n: Nat, state: {"none", "connecting", "open", "closed"}]
    BY <1>1
  <1>3. /\ Cardinality(Mounted) \in Nat /\ (Cardinality(Mounted) = 0 <=> Mounted = {})
        /\ refs = Cardinality(Mounted)
    BY FS_CardinalityType, FS_EmptySet DEF Counted
  <1>4. /\ Flushed \in Nat /\ (Mounted # {} => Flushed > 0) /\ (Mounted = {} => Flushed = pending)
    BY <1>1, <1>3 DEF Flushed
  <1> DEFINE s == [i \in 1 .. Flushed |-> "subscribe"]
  <1>5. /\ s \in Seq({"subscribe", "unsubscribe"}) /\ Len(s) = Flushed
        /\ (s = << >> <=> Flushed = 0) /\ (Flushed > 0 => s[Len(s)] = "subscribe")
    <2> HIDE DEF Flushed
    <2>1. s \in Seq({"subscribe", "unsubscribe"}) /\ Len(s) = Flushed
      BY <1>4
    <2>2. s = << >> <=> Flushed = 0
      BY <2>1, EmptySeq
    <2>3. Flushed > 0 => s[Len(s)] = "subscribe"
      BY <1>4, <2>1
    <2>4. QED
      BY <2>1, <2>2, <2>3
  <1>6. /\ inq' \in [Conns -> Seq({"subscribe", "unsubscribe"})]
        /\ \A c \in Conns : inq'[c] = IF c = sock.n THEN s ELSE inq[c]
    BY <1>1, <1>5 DEF TypeInv
  <1> HIDE DEF s
  <1>7. Mounted' = Mounted
    BY <1>1, MountedKept
  <1>8. TypeInv'
    BY <1>1, <1>2, <1>6 DEF TypeInv
  <1>9. Events'
    BY <1>1, EventsKept
  <1>10. Opening'
    BY <1>1, <1>2, <1>6, Numbered DEF Opening, Untouched
  <1>11. InOrder'
    BY <1>1, <1>2 DEF InOrder, OldFirst, In
  <1>12. Counted'
    BY <1>1, <1>7, CountedKept
  <1>13. \A c \in Conns : Open(c)' => c = sock.n /\ task'[c] = None
    BY <1>1, <1>2 DEF Open, Opening, Untouched
  <1>14. WantIsLast'
    <2> SUFFICES ASSUME NEW c \in Conns, Open(c)' PROVE Wanted(c)'
      BY <1>1, <1>2 DEF WantIsLast
    <2>1. CASE Mounted = {}
      BY <1>1, <1>4, <1>5, <1>6, <1>7, <1>13, <2>1 DEF WantIsLast, Wanted
    <2>2. CASE Mounted # {}
      BY <1>4, <1>5, <1>6, <1>7, <1>13, <2>2 DEF Wanted
    <2>3. QED
      BY <2>1, <2>2
  <1>15. PushedLast'
    BY <1>1, <1>13 DEF PushedLast, UpToDate
  <1>16. Shows'
    BY <1>1, ShowsKept
  <1>17. QED
    BY <1>8, <1>9, <1>10, <1>11, <1>12, <1>14, <1>15, <1>16

LEMMA SocketClosesKeeps ==
    ASSUME IInv, SocketCloses
    PROVE  IInv'
  <1> USE DEF IInv
  <1>1. /\ UNCHANGED <<fs, rest, net, daemon, token, pending, ui, bounds>>
        /\ sock \in [n: Nat, state: {"none", "connecting", "open", "closed"}]
        /\ sock' = [sock EXCEPT !.state = "closed"] /\ timer' \in BOOLEAN
    BY DEF SocketCloses, TypeInv
  <1>2. /\ sock'.n = sock.n /\ sock'.state = "closed"
        /\ sock' \in [n: Nat, state: {"none", "connecting", "open", "closed"}]
    BY <1>1
  <1>3. Mounted' = Mounted
    BY <1>1, MountedKept
  <1>4. TypeInv'
    BY <1>1, <1>2 DEF TypeInv
  <1>5. Events'
    BY <1>1, EventsKept
  <1>6. Opening'
    BY <1>1, <1>2 DEF Opening, Untouched
  <1>7. InOrder'
    BY <1>1, <1>2 DEF InOrder, OldFirst, In
  <1>8. Counted'
    BY <1>1, <1>3, CountedKept
  <1>9. WantIsLast'
    BY <1>1, <1>2, <1>3 DEF WantIsLast, Open
  <1>10. PushedLast'
    BY <1>1, <1>2 DEF PushedLast, UpToDate, Open
  <1>11. Shows'
    BY <1>1, ShowsKept
  <1>12. QED
    BY <1>4, <1>5, <1>6, <1>7, <1>8, <1>9, <1>10, <1>11

-----------------------------------------------------------------------------
(* The views.                                                              *)

\* A view's request moves on: the view neither comes nor goes, and what it gets is no
\* newer than the tree.
LEMMA RequestKeeps ==
    ASSUME IInv, NEW m \in Mounts, NEW v \in GitView,
           SetView(m, v), v.state = views[m].state, v.state = "new" => v.fetch = "none",
           v.reply # None => v.reply =< version, v.fetch # "none",
           rest' \in Nat \cup {None}, rest' # None => rest' =< version,
           UNCHANGED <<cache, limit>>, faults' \in Nat
    PROVE  IInv'
  <1> USE DEF IInv
  <1>1. /\ UNCHANGED <<fs, net, daemon, client, refs, seen, leaked>>
        /\ views' \in [Mounts -> GitView] /\ views'[m] = v
        /\ \A k \in Mounts : k # m => views'[k] = views[k]
    BY DEF SetView, TypeInv
  <1>2. Mounted' = Mounted
    BY <1>1, MountedKept
  <1>3. TypeInv'
    BY <1>1 DEF TypeInv
  <1>4. Events'
    BY <1>1, EventsKept
  <1>5. Opening'
    BY <1>1, OpeningKept
  <1>6. InOrder'
    BY <1>1, InOrderKept
  <1>7. Counted'
    BY <1>1, <1>2, CountedKept
  <1>8. \A c \in Conns : Open(c)' => Open(c) /\ (task'[c] = None <=> task[c] = None)
    BY <1>1 DEF Open
  <1>9. WantIsLast'
    BY <1>1, <1>2, <1>8, WantKept
  <1>10. PushedLast'
    BY <1>1, <1>2, <1>8 DEF PushedLast, UpToDate, Pushed
  <1>11. Shows'
    <2>1. \A k \in Mounts : Fetched(views[k])'
      BY <1>1 DEF Shows, Fetched
    <2>2. QED
      BY <1>1, <2>1 DEF Shows
  <1>12. QED
    BY <1>3, <1>4, <1>5, <1>6, <1>7, <1>9, <1>10, <1>11

LEMMA StatusCachedKeeps ==
    ASSUME IInv, NEW m \in Mounts, StatusCached(m)
    PROVE  IInv'
  <1> DEFINE v == [views[m] EXCEPT !.fetch = "answered", !.reply = rest]
  <1>1. /\ views[m] \in GitView /\ views[m].fetch = "asked" /\ rest \in Nat /\ rest =< version
        /\ Fetched(views[m]) /\ faults \in Nat
    BY DEF StatusCached, IInv, TypeInv, Shows
  <1>2. /\ v \in GitView /\ v.state = views[m].state /\ v.fetch = "answered" /\ v.reply = rest
        /\ v.state # "new"
    BY <1>1 DEF GitView, Fetched
  <1>3. SetView(m, v) /\ UNCHANGED <<rest, cache, faults, limit>>
    BY DEF StatusCached
  <1> HIDE DEF v
  <1>4. QED
    BY <1>1, <1>2, <1>3, RequestKeeps

LEMMA StatusComputedKeeps ==
    ASSUME IInv, NEW m \in Mounts, StatusComputed(m)
    PROVE  IInv'
  <1> DEFINE v == [views[m] EXCEPT !.fetch = "computed", !.reply = version]
             w == [views[m] EXCEPT !.fetch = "answered", !.reply = None]
  <1>1. /\ views[m] \in GitView /\ views[m].fetch = "asked" /\ version \in Nat
        /\ rest \in Nat \cup {None} /\ (rest # None => rest =< version)
        /\ Fetched(views[m]) /\ faults' \in Nat
    BY DEF StatusComputed, Fault, IInv, TypeInv, Shows
  <1>2. /\ v \in GitView /\ v.state = views[m].state /\ v.fetch = "computed" /\ v.reply = version
        /\ v.state # "new"
    <2>1. version \in Nat /\ views[m].state # "new"
      BY <1>1 DEF Fetched
    <2>2. QED
      BY <1>1, <2>1 DEF GitView
  <1>3. /\ w \in GitView /\ w.state = views[m].state /\ w.fetch = "answered" /\ w.reply = None
        /\ w.state # "new"
    BY <1>1 DEF GitView, Fetched
  <1>4. (SetView(m, v) \/ SetView(m, w)) /\ UNCHANGED <<rest, cache, limit>>
    BY DEF StatusComputed, Fault
  <1>5. version =< version
    BY <1>1
  <1> HIDE DEF v, w
  <1>6. QED
    BY <1>1, <1>2, <1>3, <1>4, <1>5, RequestKeeps

LEMMA StatusStoredKeeps ==
    ASSUME IInv, NEW m \in Mounts, StatusStored(m)
    PROVE  IInv'
  <1> DEFINE v == [views[m] EXCEPT !.fetch = "answered"]
  <1>1. /\ views[m] \in GitView /\ views[m].fetch = "computed" /\ rest' = views[m].reply
        /\ Fetched(views[m]) /\ faults \in Nat
    BY DEF StatusStored, IInv, TypeInv, Shows
  <1>2. /\ v \in GitView /\ v.state = views[m].state /\ v.fetch = "answered" /\ v.reply = views[m].reply
        /\ v.state # "new" /\ (v.reply # None => v.reply =< version)
        /\ views[m].reply \in Nat \cup {None}
    BY <1>1 DEF GitView, Fetched
  <1>3. SetView(m, v) /\ UNCHANGED <<cache, faults, limit>>
    BY DEF StatusStored
  <1> HIDE DEF v
  <1>4. QED
    BY <1>1, <1>2, <1>3, RequestKeeps

\* A reply that is not late is as new as anything the views were pushed.
LEMMA ReplyArrivesKeeps ==
    ASSUME IInv, NEW m \in Mounts, ReplyArrives(m)
    PROVE  IInv'
  <1> USE DEF IInv
  <1>1. /\ views[m] \in GitView /\ views[m].fetch = "answered" /\ Fetched(views[m])
        /\ UNCHANGED <<fs, rest, net, daemon, client, refs, seen, leaked, bounds>>
        /\ cache' = IF views[m].reply = None THEN cache ELSE views[m].reply
        /\ seen \in Nat /\ version \in Nat
    BY DEF ReplyArrives, SetView, TypeInv, Shows
  <1>2. PICK v \in GitView :
          /\ views' = [views EXCEPT ![m] = v] /\ v.state = views[m].state /\ v.state # "new"
          /\ v.reply = None
          /\ v.state = "mounted" => v.data = views[m].reply /\ v.late = Late(views[m].reply)
    <2>1. views[m].state # "new" /\ Late(views[m].reply) \in BOOLEAN
      BY <1>1 DEF Fetched, Late
    <2>2. CASE views[m].state = "gone"
      <3> DEFINE u == [NewView EXCEPT !.state = "gone"]
      <3>1. u \in GitView /\ u.state = "gone" /\ u.reply = None
        BY DEF GitView, NewView
      <3>2. views' = [views EXCEPT ![m] = u]
        BY <2>2 DEF ReplyArrives, SetView
      <3>3. QED
        BY <2>2, <3>1, <3>2
    <2>3. CASE views[m].state = "mounted"
      <3> DEFINE d == views[m].reply
                 l == Late(views[m].reply)
                 u == [NewView EXCEPT !.state = "mounted", !.data = d, !.late = l]
      <3>1. d \in Nat \cup {None} /\ l \in BOOLEAN
        BY <1>1, <2>1 DEF GitView
      <3>2. views' = [views EXCEPT ![m] = u]
        BY <2>3 DEF ReplyArrives, SetView
      <3> HIDE DEF d, l
      <3>3. u \in GitView /\ u.state = "mounted" /\ u.reply = None /\ u.data = d /\ u.late = l
        BY <3>1 DEF GitView, NewView
      <3>4. QED
        BY <2>3, <3>2, <3>3 DEF d, l
    <2>4. QED
      BY <1>1, <2>1, <2>2, <2>3 DEF GitView
  <1>3. /\ views' \in [Mounts -> GitView] /\ views'[m] = v
        /\ \A k \in Mounts : k # m => views'[k] = views[k]
    BY <1>2 DEF TypeInv
  <1>4. Mounted' = Mounted
    BY <1>2, <1>3, MountedKept
  <1>5. TypeInv'
    <2>1. cache' \in Nat \cup {None}
      BY <1>1 DEF TypeInv, GitView
    <2>2. QED
      BY <1>1, <1>3, <2>1 DEF TypeInv
  <1>6. Events'
    BY <1>1, EventsKept
  <1>7. Opening'
    BY <1>1, OpeningKept
  <1>8. InOrder'
    BY <1>1, InOrderKept
  <1>9. Counted'
    BY <1>1, <1>4, CountedKept
  <1>10. \A c \in Conns : Open(c)' => Open(c) /\ (task'[c] = None <=> task[c] = None)
    BY <1>1 DEF Open
  <1>11. WantIsLast'
    BY <1>1, <1>4, <1>10, WantKept
  <1>12. PushedLast'
    BY <1>1, <1>4, <1>10 DEF PushedLast, UpToDate, Pushed
  <1>13. Shows'
    <2>1. Fetched(views[m])'
      <3>1. views[m].reply # None => views[m].reply \in Nat /\ views[m].reply =< version
        BY <1>1 DEF Fetched, GitView
      <3>2. ~Late(views[m].reply) => views[m].reply # None /\ seen =< views[m].reply
        BY <1>1, <3>1 DEF Late
      <3>3. QED
        BY <1>1, <1>2, <1>3, <3>1, <3>2 DEF Fetched
    <2>2. \A k \in Mounts : k # m => Fetched(views[k])'
      BY <1>1, <1>3 DEF Shows, Fetched
    <2>3. QED
      BY <1>1, <2>1, <2>2 DEF Shows
  <1>14. QED
    BY <1>5, <1>6, <1>7, <1>8, <1>9, <1>11, <1>12, <1>13

\* A message handled: the oldest on the connection is now the last the views were pushed.
LEMMA DeliverKeeps ==
    ASSUME IInv, NEW c \in Conns, Deliver(c)
    PROVE  IInv' /\ seen' >= seen
  <1> USE DEF IInv
  <1> DEFINE pushed == sock = [n |-> c, state |-> "open"] /\ Mounted # {}
             status == Head(out[c])
  <1>1. /\ UNCHANGED <<fs, rest, net, srv, inq, task, refused, client, refs, leaked>>
        /\ out[c] # << >> /\ out[c] \in Seq(Nat) /\ out' = [out EXCEPT ![c] = Tail(@)]
        /\ seen \in Nat /\ version \in Nat
    BY DEF Deliver, TypeInv
  <1>2. IF pushed THEN /\ views' = [m \in Mounts |-> Shown(views[m], status)]
                       /\ cache' = status /\ seen' = status
        ELSE UNCHANGED <<views, cache, seen>>
    BY DEF Deliver
  <1>3. UNCHANGED bounds
    BY DEF Deliver
  <1>4. /\ status \in Nat /\ status = out[c][1] /\ Tail(out[c]) \in Seq(Nat) /\ Len(out[c]) \in Nat \ {0}
        /\ Len(Tail(out[c])) = Len(out[c]) - 1 /\ (Tail(out[c]) = << >> <=> Len(out[c]) = 1)
        /\ \A i \in 1 .. Len(Tail(out[c])) : Tail(out[c])[i] = out[c][i + 1]
        /\ Tail(out[c]) # << >> => Tail(out[c])[Len(Tail(out[c]))] = out[c][Len(out[c])]
    BY <1>1, Shortened, Zenon
  <1>5. /\ out' \in [Conns -> Seq(Nat)] /\ out'[c] = Tail(out[c])
        /\ \A d \in Conns : d # c => out'[d] = out[d]
    BY <1>1, <1>4 DEF TypeInv
  <1>6. pushed => c = sock.n /\ OldFirst(c) /\ seen =< status /\ status =< version
    <2>1. pushed => c = sock.n /\ OldFirst(c)
      BY DEF InOrder
    <2>2. 1 \in 1 .. Len(out[c])
      BY <1>4
    <2> HIDE DEF pushed, status
    <2>3. QED
      BY <1>4, <2>1, <2>2 DEF OldFirst
  <1>7. ASSUME NEW m \in Mounts
        PROVE  /\ views'[m] \in GitView /\ views'[m].state = views[m].state
               /\ views'[m].fetch = views[m].fetch /\ views'[m].reply = views[m].reply
               /\ pushed /\ views[m].state = "mounted" => views'[m].data = status /\ ~views'[m].late
               /\ ~pushed => views'[m] = views[m]
    <2>1. views[m] \in GitView
      BY DEF TypeInv
    <2>2. views'[m] = IF pushed /\ views[m].state = "mounted"
                      THEN [views[m] EXCEPT !.data = status, !.late = FALSE] ELSE views[m]
      BY <1>2 DEF Shown
    <2> HIDE DEF pushed, status
    <2>3. QED
      BY <1>4, <2>1, <2>2 DEF GitView
  <1> HIDE DEF pushed, status
  <1>8. /\ views' \in [Mounts -> GitView] /\ cache' \in Nat \cup {None} /\ seen' \in Nat
        /\ seen =< seen' /\ seen' =< version
    <2>1. views' \in [Mounts -> GitView]
      BY <1>2, <1>7 DEF TypeInv
    <2>2. seen =< version
      BY DEF InOrder
    <2>3. cache \in Nat \cup {None} /\ seen \in Nat
      BY DEF TypeInv
    <2>4. status \in Nat
      BY <1>4
    <2>5. CASE pushed
      <3>1. cache' = status /\ seen' = status
        BY <1>2, <2>5
      <3>2. seen =< status /\ status =< version
        BY <1>6, <2>5
      <3>3. version' = version
        BY <1>1 DEF fs
      <3>4. QED
        BY <2>1, <2>4, <3>1, <3>2, <3>3
    <2>6. CASE ~pushed
      <3>1. cache' = cache /\ seen' = seen
        BY <1>2, <2>6
      <3>2. version' = version
        BY <1>1 DEF fs
      <3>3. QED
        BY <2>1, <2>2, <2>3, <3>1, <3>2
    <2>7. QED
      BY <2>5, <2>6
  <1>9. Mounted' = Mounted
    BY <1>7, MountedKept
  <1>10. TypeInv'
    BY <1>1, <1>3, <1>5, <1>8 DEF TypeInv
  <1>11. Events'
    BY <1>1, EventsKept
  <1>12. Opening'
    BY <1>1, <1>5 DEF Opening, Untouched
  <1>13. InOrder'
    <2> SUFFICES ASSUME NEW d \in Conns, d = sock.n PROVE OldFirst(d)'
      BY <1>1, <1>8 DEF InOrder
    <2>1. OldFirst(d)
      BY DEF InOrder
    <2>2. CASE d # c
      <3>1. seen' = seen
        BY <1>2, <1>6, <2>2
      <3>2. QED
        BY <1>1, <1>5, <2>1, <2>2, <3>1 DEF OldFirst, In
    <2>3. CASE d = c
      <3>1. seen' = seen \/ seen' = out[c][1]
        BY <1>2, <1>4
      <3>2. \A i \in 1 .. Len(out'[c]) : i + 1 \in 1 .. Len(out[c]) /\ out'[c][i] = out[c][i + 1]
        BY <1>4, <1>5
      <3>3. 1 \in 1 .. Len(out[c]) /\ \A i \in 1 .. Len(out'[c]) : 1 < i + 1
        BY <1>4, <1>5
      <3>4. \A i \in 1 .. Len(out'[c]) : seen' =< out'[c][i] /\ out'[c][i] =< version
        BY <2>1, <2>3, <3>1, <3>2, <3>3 DEF OldFirst
      <3>5. ASSUME NEW i \in 1 .. Len(out'[c]), NEW j \in 1 .. Len(out'[c]), i < j
            PROVE  out'[c][i] =< out'[c][j]
        <4>1. i + 1 < j + 1
          BY <3>5
        <4>2. QED
          BY <2>1, <2>3, <3>2, <4>1 DEF OldFirst
      <3>6. In(c, "send")' =>
              /\ seen' =< task'[c].v /\ task'[c].v =< version
              /\ \A i \in 1 .. Len(out'[c]) : out'[c][i] =< task'[c].v
        BY <1>1, <2>1, <2>3, <3>1, <3>2, <3>3 DEF OldFirst, In
      <3>7. QED
        BY <1>1, <2>3, <3>4, <3>5, <3>6 DEF OldFirst
    <2>4. QED
      BY <2>2, <2>3
  <1>14. Counted'
    BY <1>1, <1>9, CountedKept
  <1>15. \A d \in Conns : Open(d)' => Open(d) /\ (task'[d] = None <=> task[d] = None)
    BY <1>1 DEF Open
  <1>16. WantIsLast'
    BY <1>1, <1>9, <1>15, WantKept
  <1>17. PushedLast'
    <2> SUFFICES ASSUME NEW d \in Conns, UpToDate(d), task[d].phase # "send",
                        Open(d), inq[d] = << >>, Mounted # {}
                 PROVE  Pushed(d)'
      BY <1>1, <1>9, <1>15 DEF PushedLast, UpToDate
    <2>1. Pushed(d)
      BY DEF PushedLast
    <2>2. CASE d # c
      <3>1. ~pushed
        BY <1>6, <2>2 DEF Open
      <3>2. QED
        BY <1>1, <1>2, <1>5, <2>1, <2>2, <3>1 DEF Pushed
    <2>3. CASE d = c
      <3>1. pushed
        <4>1. sock = [n |-> c, state |-> "open"]
          BY <2>3 DEF Open, TypeInv
        <4>2. QED
          BY <4>1 DEF pushed
      <3>2. out[c][Len(out[c])] = version
        BY <1>1, <2>1, <2>3 DEF Pushed
      <3>3. CASE out'[c] = << >>
        BY <1>1, <1>2, <1>4, <1>5, <2>3, <3>1, <3>2, <3>3 DEF Pushed
      <3>4. CASE out'[c] # << >>
        BY <1>1, <1>4, <1>5, <2>3, <3>2, <3>4 DEF Pushed
      <3>5. QED
        BY <3>3, <3>4
    <2>4. QED
      BY <2>2, <2>3
  <1>18. Shows'
    <2> SUFFICES ASSUME NEW m \in Mounts PROVE Fetched(views[m])'
      BY <1>1 DEF Shows
    <2>1. Fetched(views[m])
      BY DEF Shows
    <2>2. CASE pushed
      BY SMTT(30), <1>1, <1>2, <1>4, <1>6, <1>7, <2>1, <2>2 DEF Fetched
    <2>3. CASE ~pushed
      BY <1>1, <1>2, <1>7, <2>1, <2>3 DEF Fetched
    <2>4. QED
      BY <2>2, <2>3
  <1>19. QED
    BY <1>1, <1>8, <1>10, <1>11, <1>12, <1>13, <1>14, <1>16, <1>17, <1>18

-----------------------------------------------------------------------------
(* Views come and go.                                                      *)

\* A message goes to the end of the queue of the connection, if it gets there.
LEMMA SentLast ==
    ASSUME TypeInv, NEW message \in {"subscribe", "unsubscribe"}, Sent(message)
    PROVE  /\ inq' \in [Conns -> Seq({"subscribe", "unsubscribe"})]
           /\ \A c \in Conns :
                IF c = sock.n /\ net[c] /\ srv[c] = "up"
                THEN inq'[c] # << >> /\ inq'[c][Len(inq'[c])] = message
                ELSE inq'[c] = inq[c]
  <1>1. CASE net[sock.n] /\ srv[sock.n] = "up"
    <2>1. inq' = [inq EXCEPT ![sock.n] = Append(@, message)]
      BY <1>1 DEF Sent
    <2>2. CASE sock.n \in Conns
      <3>1. inq[sock.n] \in Seq({"subscribe", "unsubscribe"})
        BY <2>2 DEF TypeInv
      <3>2. /\ inq'[sock.n] = Append(inq[sock.n], message)
            /\ \A c \in Conns : c # sock.n => inq'[c] = inq[c]
        BY <2>1, <2>2 DEF TypeInv
      <3>3. inq'[sock.n] \in Seq({"subscribe", "unsubscribe"})
        BY <3>1, <3>2
      <3>4. inq'[sock.n] # << >> /\ inq'[sock.n][Len(inq'[sock.n])] = message
        BY <3>1, <3>2
      <3>5. inq' \in [Conns -> Seq({"subscribe", "unsubscribe"})]
        BY <2>1, <2>2, <3>2, <3>3 DEF TypeInv
      <3>6. QED
        BY <1>1, <3>2, <3>4, <3>5
    <2>3. CASE sock.n \notin Conns
      <3> DEFINE a == Append(inq[sock.n], message)
      <3>1. inq' = [inq EXCEPT ![sock.n] = a]
        BY <2>1
      <3> HIDE DEF a
      <3>2. inq \in [Conns -> Seq({"subscribe", "unsubscribe"})]
        BY DEF TypeInv
      <3>3. \A c \in Conns : inq'[c] = inq[c]
        BY <2>3, <3>1, <3>2
      <3>4. inq' = [c \in Conns |-> inq'[c]]
        BY <2>3, <3>1, <3>2
      <3>5. QED
        BY <2>3, <3>2, <3>3, <3>4
    <2>4. QED
      BY <2>2, <2>3
  <1>2. CASE ~(net[sock.n] /\ srv[sock.n] = "up")
    BY <1>2 DEF Sent, TypeInv
  <1>3. QED
    BY <1>1, <1>2

\* Two parts of the invariant for a view that comes or goes: it is enough that the daemon
\* is told when there was none before, or is none now.
LEMMA TurnsKeep ==
    ASSUME IInv, TypeInv', UNCHANGED <<fs, rest, net, srv, out, task, refused, token, sock, timer, seen>>,
           sock.state = "open" => pending' = 0,
           Mounted' = {} /\ pending' > 0 => leaked',
           leaked => leaked',
           \A c \in Conns :
               \/ inq'[c] = inq[c] /\ (Mounted' = {} <=> Mounted = {})
               \/ ~Open(c) /\ inq'[c] = inq[c]
               \/ /\ Open(c) /\ inq'[c] # << >>
                  /\ inq'[c][Len(inq'[c])] = IF Mounted' = {} THEN "unsubscribe" ELSE "subscribe",
           \A k \in Mounts : Fetched(views[k])'
    PROVE  Events' /\ Opening' /\ InOrder' /\ WantIsLast' /\ PushedLast' /\ Shows'
  <1> USE DEF IInv
  <1>1. Events'
    BY EventsKept
  <1>2. Opening'
    <2> SUFFICES ASSUME NEW c \in Conns
                 PROVE  /\ c > sock.n => Untouched(c)' /\ ~net[c] /\ srv[c] = "none"
                        /\ c = sock.n /\ sock.state = "connecting" => Untouched(c)'
                        /\ c = sock.n /\ sock.state = "open" /\ net[c] => srv[c] = "up"
      BY DEF Opening
    <2>1. Open(c) \/ inq'[c] = inq[c]
      OBVIOUS
    <2>2. CASE Open(c)
      BY <2>2, Numbered DEF Open, Opening, TypeInv
    <2>3. CASE inq'[c] = inq[c]
      BY <2>3 DEF Opening, Untouched
    <2>4. QED
      BY <2>1, <2>2, <2>3
  <1>3. InOrder'
    BY InOrderKept
  <1>4. \A c \in Conns : Open(c)' => Open(c)
    BY DEF Open
  <1>5. WantIsLast'
    <2> SUFFICES ASSUME NEW c \in Conns, Open(c) PROVE Wanted(c)'
      BY <1>4 DEF WantIsLast
    <2>1. Wanted(c)
      BY DEF WantIsLast
    <2>2. QED
      BY <2>1 DEF Wanted
  <1>6. PushedLast'
    <2> SUFFICES ASSUME NEW c \in Conns, UpToDate(c), task[c].phase # "send",
                        Open(c), inq'[c] = << >>, Mounted' # {}
                 PROVE  Pushed(c)'
      BY <1>4 DEF PushedLast, UpToDate
    <2>1. inq[c] = << >> /\ Mounted # {}
      OBVIOUS
    <2>2. QED
      BY <2>1 DEF PushedLast, Pushed
  <1>7. Shows'
    BY DEF Shows
  <1>8. QED
    BY <1>1, <1>2, <1>3, <1>5, <1>6, <1>7

LEMMA MountKeeps ==
    ASSUME IInv, NEW m \in Mounts, Mount(m)
    PROVE  IInv'
  <1> USE DEF IInv
  <1> DEFINE v == [NewView EXCEPT !.state = "mounted", !.data = cache, !.fetch = "asked"]
  <1>1. /\ UNCHANGED <<fs, rest, net, srv, out, task, refused, token, sock, timer, cache, seen, leaked, bounds>>
        /\ views[m].state = "new" /\ refs' = refs + 1 /\ refs \in Nat /\ pending \in Nat
        /\ views' = [views EXCEPT ![m] = v]
    BY DEF Mount, TypeInv
  <1>2. v \in GitView /\ v.state = "mounted" /\ v.fetch = "asked" /\ v.reply = None
    BY DEF GitView, NewView, TypeInv
  <1> HIDE DEF v
  <1>3. /\ views' \in [Mounts -> GitView] /\ views'[m] = v
        /\ \A k \in Mounts : k # m => views'[k] = views[k]
    BY <1>1, <1>2 DEF TypeInv
  <1>4. Mounted' = Mounted \cup {m} /\ m \notin Mounted
    BY <1>1, <1>2, <1>3 DEF Mounted
  <1>5. Counted'
    BY <1>1, <1>4, FS_AddElement DEF Counted
  <1>6. refs > 0 <=> Mounted # {}
    BY FS_CardinalityType, FS_EmptySet DEF Counted
  <1>7. /\ inq' \in [Conns -> Seq({"subscribe", "unsubscribe"})] /\ pending' \in Nat
        /\ sock.state = "open" => pending' = pending
        /\ \A c \in Conns : \/ inq'[c] = inq[c] /\ (refs > 0 \/ ~Open(c))
                            \/ Open(c) /\ inq'[c] # << >> /\ inq'[c][Len(inq'[c])] = "subscribe"
    <2>1. CASE refs > 0
      BY <2>1 DEF Mount, TypeInv
    <2>2. CASE ~(refs > 0) /\ sock.state = "open"
      <3>1. Sent("subscribe") /\ pending' = pending
        BY <2>2 DEF Mount
      <3>2. QED
        BY <1>1, <2>2, <3>1, SentLast DEF Open
    <2>3. CASE ~(refs > 0) /\ sock.state # "open"
      <3>1. inq' = inq /\ pending' = pending + 1
        BY <2>3 DEF Mount
      <3>2. QED
        BY <1>1, <2>3, <3>1 DEF TypeInv, Open
    <2>4. QED
      BY <2>1, <2>2, <2>3
  <1>8. TypeInv'
    BY <1>1, <1>3, <1>7 DEF TypeInv
  <1>9. \A k \in Mounts : Fetched(views[k])'
    BY <1>1, <1>2, <1>3 DEF Fetched, Shows
  <1>10. sock.state = "open" => pending' = 0
    BY <1>7 DEF WantIsLast
  <1>11. Mounted' # {}
    BY <1>4
  <1>12. \A c \in Conns :
               \/ inq'[c] = inq[c] /\ (Mounted' = {} <=> Mounted = {})
               \/ ~Open(c) /\ inq'[c] = inq[c]
               \/ /\ Open(c) /\ inq'[c] # << >>
                  /\ inq'[c][Len(inq'[c])] = IF Mounted' = {} THEN "unsubscribe" ELSE "subscribe"
    BY <1>6, <1>7, <1>11
  <1>13. QED
    BY <1>1, <1>5, <1>8, <1>9, <1>10, <1>11, <1>12, TurnsKeep

LEMMA UnmountKeeps ==
    ASSUME IInv, NEW m \in Mounts, Unmount(m)
    PROVE  IInv'
  <1> USE DEF IInv
  <1>1. /\ UNCHANGED <<fs, rest, net, srv, out, task, refused, client, cache, seen, bounds>>
        /\ views[m].state = "mounted" /\ refs' = (IF refs =< 1 THEN 0 ELSE refs - 1) /\ refs \in Nat
        /\ views' = [views EXCEPT ![m] = Gone(@)] /\ views[m] \in GitView
        /\ leaked' = (leaked \/ (refs =< 1 /\ sock.state # "open" /\ pending > 0))
    BY DEF Unmount, TypeInv
  <1>2. /\ Gone(views[m]) \in GitView /\ Gone(views[m]).state = "gone"
        /\ Gone(views[m]).reply = views[m].reply
    BY <1>1 DEF Gone, GitView, NewView
  <1>3. /\ views' \in [Mounts -> GitView] /\ views'[m] = Gone(views[m])
        /\ \A k \in Mounts : k # m => views'[k] = views[k]
    BY <1>1, <1>2 DEF TypeInv
  <1>4. Mounted' = Mounted \ {m} /\ m \in Mounted
    BY <1>1, <1>2, <1>3 DEF Mounted
  <1>5. /\ IsFiniteSet(Mounted') /\ Cardinality(Mounted') = Cardinality(Mounted) - 1
        /\ Cardinality(Mounted') \in Nat /\ (Cardinality(Mounted') = 0 <=> Mounted' = {})
        /\ Cardinality(Mounted) = refs
    <2>1. /\ IsFiniteSet(Mounted') /\ Cardinality(Mounted') = Cardinality(Mounted) - 1
          /\ Cardinality(Mounted) = refs
      BY <1>4, FS_RemoveElement DEF Counted
    <2>2. QED
      BY <2>1, FS_CardinalityType, FS_EmptySet
  <1>6. refs' = refs - 1 /\ (refs =< 1 <=> Mounted' = {})
    BY <1>1, <1>5
  <1>7. Counted'
    BY <1>5, <1>6 DEF Counted
  <1>8. /\ inq' \in [Conns -> Seq({"subscribe", "unsubscribe"})]
        /\ \A c \in Conns : \/ inq'[c] = inq[c] /\ (~(refs =< 1) \/ ~Open(c))
                            \/ Open(c) /\ inq'[c] # << >> /\ inq'[c][Len(inq'[c])] = "unsubscribe"
                               /\ refs =< 1
    <2>1. CASE refs =< 1 /\ sock.state = "open"
      <3>1. Sent("unsubscribe")
        BY <2>1 DEF Unmount
      <3>2. QED
        BY <2>1, <3>1, SentLast DEF Open
    <2>2. CASE ~(refs =< 1 /\ sock.state = "open")
      <3>1. inq' = inq
        BY <2>2 DEF Unmount
      <3>2. QED
        BY <2>2, <3>1 DEF TypeInv, Open
    <2>3. QED
      BY <2>1, <2>2
  <1>9. TypeInv'
    <2>1. refs' \in Nat /\ leaked' \in BOOLEAN
      BY <1>1, <1>5, <1>6 DEF TypeInv
    <2>2. QED
      BY <1>1, <1>3, <1>8, <2>1 DEF TypeInv
  <1>10. \A k \in Mounts : Fetched(views[k])'
    BY <1>1, <1>2, <1>3 DEF Fetched, Shows
  <1>11. sock.state = "open" => pending' = 0
    BY <1>1 DEF WantIsLast
  <1>12. (Mounted' = {} /\ pending' > 0 => leaked') /\ (leaked => leaked')
    <2>1. leaked \in BOOLEAN /\ pending \in Nat /\ pending' = pending
      BY <1>1 DEF TypeInv
    <2>2. leaked => leaked'
      BY <1>1, <2>1
    <2>3. CASE sock.state = "open"
      BY <1>11, <2>2, <2>3
    <2>4. CASE sock.state # "open"
      BY <1>1, <1>6, <2>1, <2>4
    <2>5. QED
      BY <2>2, <2>3, <2>4
  <1>13. \A c \in Conns :
               \/ inq'[c] = inq[c] /\ (Mounted' = {} <=> Mounted = {})
               \/ ~Open(c) /\ inq'[c] = inq[c]
               \/ /\ Open(c) /\ inq'[c] # << >>
                  /\ inq'[c][Len(inq'[c])] = IF Mounted' = {} THEN "unsubscribe" ELSE "subscribe"
    BY <1>4, <1>6, <1>8
  <1>14. UNCHANGED <<token, sock, timer>>
    BY <1>1
  <1>15. QED
    BY <1>1, <1>7, <1>9, <1>10, <1>11, <1>12, <1>13, <1>14, TurnsKeep

-----------------------------------------------------------------------------
(* The theorems.                                                           *)

LEMMA InitIsGood == Init => IInv
  <1> SUFFICES ASSUME Init PROVE IInv
    OBVIOUS
  <1> USE DEF Init
  <1>1. NewView \in GitView /\ NewView.state = "new" /\ NewView.fetch = "none" /\ NewView.reply = None
    BY DEF NewView, GitView
  <1>2. TypeInv
    <2>1. \A S : << >> \in Seq(S)
      OBVIOUS
    <2>2. /\ net \in [Conns -> BOOLEAN] /\ srv \in [Conns -> {"none", "up", "done"}]
          /\ inq \in [Conns -> Seq({"subscribe", "unsubscribe"})] /\ out \in [Conns -> Seq(Nat)]
      BY <2>1
    <2>3. /\ task \in [Conns -> GitTask \cup {None}] /\ refused \in [Conns -> BOOLEAN]
          /\ sock \in [n: Nat, state: {"none", "connecting", "open", "closed"}]
      OBVIOUS
    <2>4. views \in [Mounts -> GitView]
      BY <1>1
    <2>5. QED
      BY <2>2, <2>3, <2>4 DEF TypeInv
  <1>3. Mounted = {}
    BY <1>1 DEF Mounted
  <1>4. Events
    BY DEF Events
  <1>5. Opening
    BY DEF Opening, Untouched
  <1>6. InOrder
    BY Numbered DEF InOrder
  <1>7. Counted
    BY <1>3, FS_EmptySet DEF Counted
  <1>8. WantIsLast
    BY <1>3 DEF WantIsLast, Open
  <1>9. PushedLast
    BY DEF PushedLast, UpToDate
  <1>10. Shows
    BY <1>1 DEF Shows, Fetched
  <1>11. QED
    BY <1>2, <1>4, <1>5, <1>6, <1>7, <1>8, <1>9, <1>10 DEF IInv

LEMMA StutterIsGood == IInv /\ UNCHANGED vars => IInv' /\ seen' >= seen
  <1> SUFFICES ASSUME IInv, UNCHANGED vars PROVE IInv' /\ seen' >= seen
    OBVIOUS
  <1> USE DEF IInv, vars
  <1>1. Mounted' = Mounted
    BY DEF Mounted
  <1>2. TypeInv'
    BY DEF TypeInv
  <1>3. Events' /\ Opening' /\ InOrder' /\ Shows'
    BY EventsKept, OpeningKept, InOrderKept, ShowsKept
  <1>4. Counted'
    BY <1>1, CountedKept
  <1>5. \A c \in Conns : Open(c)' => Open(c) /\ (task'[c] = None <=> task[c] = None)
    BY DEF Open
  <1>6. WantIsLast'
    BY <1>1, <1>5, WantKept
  <1>7. PushedLast'
    BY <1>1, <1>5 DEF PushedLast, UpToDate, Pushed
  <1>8. seen' >= seen
    BY DEF TypeInv
  <1>9. QED
    BY <1>2, <1>3, <1>4, <1>6, <1>7, <1>8

\* Only a message that is handled changes what the views were pushed last.
LEMMA SeenIsKept ==
    ASSUME TypeInv, Next, \A c \in Conns : ~Deliver(c)
    PROVE  seen' >= seen
  <1>1. seen' = seen
    BY DEF Next, TaskNext, HandlerNext, FetchNext, Change, Notice, Unwatch, Login, Logout, SocketOpens,
           SocketCloses, TimerFires, TaskRecv, TaskDrain, TaskCompute, TaskSend, SetTask, Accept,
           Subscribe, SubscribeRefused, Unsubscribe, ConnEnds, NetDrops, Mount, Unmount, StatusCached,
           StatusComputed, StatusStored, ReplyArrives, SetView
  <1>2. QED
    BY <1>1 DEF TypeInv

LEMMA NextIsGood == IInv /\ [Next]_vars => IInv' /\ seen' >= seen
  <1> SUFFICES ASSUME IInv, Next PROVE IInv' /\ seen' >= seen
    BY StutterIsGood
  <1>1. CASE \E c \in Conns : Deliver(c)
    BY <1>1, DeliverKeeps
  <1>2. CASE \A c \in Conns : ~Deliver(c)
    <2>1. seen' >= seen
      BY <1>2, SeenIsKept DEF IInv
    <2>2. CASE Change \/ Notice \/ Unwatch
      BY <2>1, <2>2, ChangeKeeps, NoticeKeeps, UnwatchKeeps
    <2>3. CASE Login \/ Logout \/ SocketOpens \/ SocketCloses \/ TimerFires
      BY <2>1, <2>3, LoginKeeps, LogoutKeeps, SocketOpensKeeps, SocketClosesKeeps, TimerFiresKeeps
    <2>4. CASE \E c \in Conns : TaskNext(c)
      BY <2>1, <2>4, TaskRecvKeeps, TaskDrainKeeps, TaskComputeKeeps, TaskSendKeeps DEF TaskNext
    <2>5. CASE \E c \in Conns : HandlerNext(c) \/ NetDrops(c)
      BY <2>1, <2>5, AcceptKeeps, SubscribeKeeps, SubscribeRefusedKeeps, UnsubscribeKeeps, ConnEndsKeeps,
         NetDropsKeeps DEF HandlerNext
    <2>6. CASE \E m \in Mounts : Mount(m) \/ Unmount(m)
      BY <2>1, <2>6, MountKeeps, UnmountKeeps
    <2>7. CASE \E m \in Mounts : FetchNext(m)
      BY <2>1, <2>7, StatusCachedKeeps, StatusComputedKeeps, StatusStoredKeeps, ReplyArrivesKeeps DEF FetchNext
    <2>8. QED
      BY <1>2, <2>1, <2>2, <2>3, <2>4, <2>5, <2>6, <2>7 DEF Next
  <1>3. QED
    BY <1>1, <1>2

LEMMA AlwaysGood == Spec => []IInv
  <1>1. Init => IInv
    BY InitIsGood
  <1>2. IInv /\ [Next]_vars => IInv'
    BY NextIsGood
  <1>3. QED
    BY <1>1, <1>2, PTL DEF Spec

LEMMA AgreeMeansSubscribed == IInv => SubscribedWhileShown
  <1> SUFFICES ASSUME IInv, NEW c \in Conns, Heard(c)
               PROVE  IF Mounted # {} THEN task[c] # None \/ refused[c] ELSE task[c] = None \/ leaked
    BY DEF SubscribedWhileShown
  <1>1. Open(c) /\ inq[c] = << >>
    BY DEF Heard, Open
  <1>2. Wanted(c)
    BY <1>1 DEF IInv, WantIsLast
  <1>3. QED
    BY <1>1, <1>2 DEF Wanted

LEMMA AwaitedMeansRemembered == IInv => NoEventForgotten
  <1> SUFFICES ASSUME IInv, NEW c \in Conns, In(c, "recv"), task[c].queued = 0, ~task[c].lagged,
                      ~task[c].closed, ~noted
               PROVE  task[c].last = "failed" \/ ~task[c].behind
    BY DEF NoEventForgotten
  <1>1. Awaited(task[c]) /\ task[c].phase = "recv" /\ ~(task[c].queued > 0)
    BY DEF IInv, Events, In
  <1>2. QED
    BY <1>1 DEF Awaited

\* When nothing is under way, the last push was the tree as it is, and each view has
\* that or a reply that is no older.
LEMMA PushedMeansCurrent == IInv => QuietMeansCurrent
  <1> SUFFICES ASSUME IInv, NEW c \in Conns, Quiet(c), NEW m \in Mounted,
                      ~views[m].late, task[c].last = "ok", ~task[c].closed
               PROVE  views[m].data = version
    BY DEF QuietMeansCurrent
  <1> USE DEF IInv
  <1>1. Open(c) /\ inq[c] = << >> /\ out[c] = << >> /\ In(c, "recv") /\ Mounted # {}
    BY DEF Quiet, Heard, Open
  <1>2. ~task[c].behind
    BY AwaitedMeansRemembered DEF NoEventForgotten, Quiet
  <1>3. UpToDate(c) /\ task[c].phase = "recv"
    BY <1>1, <1>2 DEF UpToDate, In
  <1>4. seen = version
    BY <1>1, <1>3 DEF PushedLast, Pushed
  <1>5. m \in Mounts /\ views[m].state = "mounted" /\ views[m].fetch = "none"
    BY DEF Mounted, Quiet
  <1>6. views[m].data # None /\ seen =< views[m].data /\ views[m].data =< version
    BY <1>5 DEF Shows, Fetched
  <1>7. views[m].data \in Nat /\ version \in Nat
    BY <1>5, <1>6 DEF TypeInv, GitView
  <1>8. QED
    BY <1>4, <1>6, <1>7

(* The type of the state. *)
THEOREM TypeCorrect == Spec => []TypeInv
  <1>1. IInv => TypeInv
    BY DEF IInv
  <1>2. QED
    BY <1>1, AlwaysGood, PTL

(* No change of the tree is forgotten by a subscription that waits: debouncing, the drain, a lagging
   receiver and changes during git status lose none (the task of git:subscribe, ws/handler.rs). *)
THEOREM EventsAreRemembered == Spec => []NoEventForgotten
  <1>1. QED
    BY AlwaysGood, AwaitedMeansRemembered, PTL

(* A view that is shown has a subscription once the daemon has heard the browser, and no view has
   none, across reconnects and however views come and go (daemon/ws.ts, useGitStatus.ts). *)
THEOREM ShownIsSubscribed == Spec => []SubscribedWhileShown
  <1>1. QED
    BY AlwaysGood, AgreeMeansSubscribed, PTL

(* When nothing is under way between the tree and the views, they show the tree as it is. *)
THEOREM QuietIsCurrent == Spec => []QuietMeansCurrent
  <1>1. QED
    BY AlwaysGood, PushedMeansCurrent, PTL

(* No view is pushed a status older than one before (the stale checks of ws.ts, the abort of
   the old task in git:subscribe). *)
THEOREM PushesGoForward == Spec => PushesNeverGoBack
  <1>1. IInv /\ [Next]_vars => [seen' >= seen]_vars
    BY NextIsGood
  <1>2. QED
    BY <1>1, AlwaysGood, PTL DEF Spec, PushesNeverGoBack

HIDE NoneIsNoStatus DEF fs, daemon, client, ui, bounds

-----------------------------------------------------------------------------
(* The sidebars: lists. Ranked puts the elements of a finite set in an     *)
(* order (Enumerates), and the filters (Picked), Normalize and Display are *)
(* built from it: what they make of a list has its items, each once, in    *)
(* the order they should be in.                                            *)

\* r orders T.
Orders(r, T) ==
  /\ \A x \in T : <<x, x>> \notin r
  /\ \A x, y, z \in T : <<x, y>> \in r /\ <<y, z>> \in r => <<x, z>> \in r
  /\ \A x, y \in T : x # y => <<x, y>> \in r \/ <<y, x>> \in r

Below(T, r, x) == {y \in T : <<y, x>> \in r}

\* In an order of a finite set the element is greater that has more of them before it.
LEMMA RankGrows ==
  ASSUME NEW T, IsFiniteSet(T), NEW r, Orders(r, T), NEW x \in T, NEW y \in T
  PROVE  /\ Cardinality(Below(T, r, x)) \in 0..(Cardinality(T) - 1)
         /\ <<x, y>> \in r => Cardinality(Below(T, r, x)) < Cardinality(Below(T, r, y))
<1>0. /\ IsFiniteSet(Below(T, r, x)) /\ IsFiniteSet(Below(T, r, y))
      /\ Cardinality(T) \in Nat /\ Cardinality(Below(T, r, x)) \in Nat /\ Cardinality(Below(T, r, y)) \in Nat
  BY FS_Subset, FS_CardinalityType DEF Below
<1>1. Cardinality(Below(T, r, x)) \in 0..(Cardinality(T) - 1)
  <2>1. Below(T, r, x) \in SUBSET T /\ x \notin Below(T, r, x)
    BY DEF Below, Orders
  <2>2. Cardinality(Below(T, r, x)) <= Cardinality(T) /\ Cardinality(Below(T, r, x)) # Cardinality(T)
    BY <2>1, FS_Subset
  <2> QED
    BY <1>0, <2>2
<1>2. ASSUME <<x, y>> \in r
      PROVE  Cardinality(Below(T, r, x)) < Cardinality(Below(T, r, y))
  <2>1. Below(T, r, x) \in SUBSET Below(T, r, y)
    BY <1>2 DEF Below, Orders
  <2>2. x \in Below(T, r, y) /\ x \notin Below(T, r, x)
    BY <1>2 DEF Below, Orders
  <2>3. /\ Cardinality(Below(T, r, x)) <= Cardinality(Below(T, r, y))
        /\ Cardinality(Below(T, r, x)) # Cardinality(Below(T, r, y))
    BY <1>0, <2>1, <2>2, FS_Subset
  <2> QED
    BY <1>0, <2>3
<1> QED
  BY <1>1, <1>2

\* f lists the n elements of T in the order r.
Enumerates(f, n, T, r) ==
  /\ f \in [1..n -> T]
  /\ \A i, j \in 1..n : i < j => <<f[i], f[j]>> \in r
  /\ \A x \in T : \E i \in 1..n : f[i] = x

LEMMA RankedEnumerates ==
  ASSUME NEW T, IsFiniteSet(T), NEW r, Orders(r, T)
  PROVE  Enumerates(Ranked(T, r), Cardinality(T), T, r)
<1> DEFINE n == Cardinality(T)
           f == Ranked(T, r)
           rank == [x \in T |-> Cardinality(Below(T, r, x)) + 1]
<1>0. n \in Nat
  BY FS_CardinalityType
<1>1. rank \in [T -> 1..n]
  <2> SUFFICES ASSUME NEW x \in T PROVE Cardinality(Below(T, r, x)) + 1 \in 1..n
    OBVIOUS
  <2>1. Cardinality(Below(T, r, x)) \in 0..(n - 1)
    BY RankGrows
  <2> QED
    BY <1>0, <2>1
<1>2. \A x, y \in T : <<x, y>> \in r => rank[x] < rank[y]
  <2> SUFFICES ASSUME NEW x \in T, NEW y \in T, <<x, y>> \in r PROVE rank[x] < rank[y]
    OBVIOUS
  <2>1. Cardinality(Below(T, r, x)) \in 0..(n - 1) /\ Cardinality(Below(T, r, y)) \in 0..(n - 1)
        /\ Cardinality(Below(T, r, x)) < Cardinality(Below(T, r, y))
    BY RankGrows
  <2> QED
    BY <1>0, <2>1
<1> HIDE DEF rank
<1>3. \A x, y \in T : rank[x] = rank[y] => x = y
  <2> SUFFICES ASSUME NEW x \in T, NEW y \in T, rank[x] = rank[y], x # y PROVE FALSE
    OBVIOUS
  <2>1. <<x, y>> \in r \/ <<y, x>> \in r
    BY DEF Orders
  <2>2. rank[x] \in 1..n /\ rank[y] \in 1..n /\ (rank[x] < rank[y] \/ rank[y] < rank[x])
    BY <1>1, <1>2, <2>1
  <2> QED
    BY <1>0, <2>2
<1>4. IsFiniteSet(1..n) /\ Cardinality(1..n) = n
  BY <1>0, FS_Interval
<1>5. rank \in Injection(T, 1..n)
  BY <1>1, <1>3 DEF Injection, IsInjective
<1>6. rank \in Surjection(T, 1..n)
  BY <1>4, <1>5, FS_Injection
<1>7. \A i \in 1..n : f[i] \in T /\ rank[f[i]] = i
  <2> SUFFICES ASSUME NEW i \in 1..n PROVE f[i] \in T /\ rank[f[i]] = i
    OBVIOUS
  <2>1. PICK x \in T : rank[x] = i
    BY <1>6 DEF Surjection
  <2>2. f[i] = CHOOSE z \in T : Cardinality(Below(T, r, z)) = i - 1
    BY DEF Ranked, Below
  <2>3. \A z \in T : Cardinality(Below(T, r, z)) \in Int /\ rank[z] = Cardinality(Below(T, r, z)) + 1
    <3> SUFFICES ASSUME NEW z \in T PROVE Cardinality(Below(T, r, z)) \in Int
      BY DEF rank
    <3>1. Cardinality(Below(T, r, z)) \in 0..(n - 1)
      BY RankGrows
    <3> QED
      BY <1>0, <3>1
  <2>4. Cardinality(Below(T, r, x)) = i - 1
    BY <1>0, <2>1, <2>3
  <2>5. f[i] \in T /\ Cardinality(Below(T, r, f[i])) = i - 1
    BY <2>2, <2>4
  <2> QED
    BY <1>0, <2>3, <2>5
<1>8. f \in [1..n -> T]
  BY <1>7 DEF Ranked
<1> HIDE DEF f
<1>9. ASSUME NEW i \in 1..n, NEW j \in 1..n, i < j
      PROVE  <<f[i], f[j]>> \in r
  <2>1. f[i] # f[j]
    BY <1>0, <1>7, <1>9
  <2>2. CASE <<f[j], f[i]>> \in r
    <3>1. rank[f[j]] < rank[f[i]]
      BY <1>2, <1>7, <2>2
    <3> QED
      BY <1>0, <1>7, <1>9, <3>1
  <2> QED
    BY <1>7, <2>1, <2>2 DEF Orders
<1>10. \A x \in T : f[rank[x]] = x /\ rank[x] \in 1..n
  BY <1>1, <1>3, <1>7
<1> QED
  BY <1>8, <1>9, <1>10 DEF Enumerates, f

\* There is one such list.
LEMMA EnumerationIsRanked ==
  ASSUME NEW T, IsFiniteSet(T), NEW r, Orders(r, T), NEW n \in Nat, NEW f, Enumerates(f, n, T, r)
  PROVE  n = Cardinality(T) /\ Ranked(T, r) = f
<1> USE DEF Enumerates
<1>0. \A i, j \in 1..n : <<f[j], f[i]>> \in r <=> j < i
  <2> SUFFICES ASSUME NEW i \in 1..n, NEW j \in 1..n, <<f[j], f[i]>> \in r, ~(j < i) PROVE FALSE
    OBVIOUS
  <2>1. f[i] \in T /\ f[j] \in T
    OBVIOUS
  <2>2. i < j
    <3>1. i # j
      BY <2>1 DEF Orders
    <3> QED
      BY <3>1
  <2>3. <<f[i], f[j]>> \in r
    BY <2>2
  <2> QED
    BY <2>1, <2>3 DEF Orders
<1>1. \A i, j \in 1..n : f[i] = f[j] => i = j
  <2> SUFFICES ASSUME NEW i \in 1..n, NEW j \in 1..n, f[i] = f[j], i # j PROVE FALSE
    OBVIOUS
  <2>1. <<f[i], f[i]>> \notin r
    BY DEF Orders
  <2>2. i < j \/ j < i
    OBVIOUS
  <2> QED
    BY <1>0, <2>1, <2>2
<1>2. f \in Bijection(1..n, T)
  BY <1>1 DEF Bijection, Injection, IsInjective, Surjection
<1>3. n = Cardinality(T)
  BY <1>2, FS_CountingElements DEF ExistsBijection
<1>4. \A i \in 1..n : Cardinality(Below(T, r, f[i])) = i - 1
  <2> SUFFICES ASSUME NEW i \in 1..n PROVE Cardinality(Below(T, r, f[i])) = i - 1
    OBVIOUS
  <2> DEFINE g == [j \in 1..(i - 1) |-> f[j]]
  <2>1. \A j \in 1..n : <<f[j], f[i]>> \in r <=> j < i
    BY <1>0
  <2>2. Below(T, r, f[i]) = {f[j] : j \in 1..(i - 1)}
    <3>1. ASSUME NEW x \in Below(T, r, f[i]) PROVE x \in {f[j] : j \in 1..(i - 1)}
      <4>1. PICK j \in 1..n : f[j] = x
        BY DEF Below
      <4>2. j < i
        BY <2>1, <4>1 DEF Below
      <4> QED
        BY <4>1, <4>2
    <3>2. ASSUME NEW j \in 1..(i - 1) PROVE f[j] \in Below(T, r, f[i])
      <4>1. j \in 1..n /\ j < i
        OBVIOUS
      <4> QED
        BY <2>1, <4>1 DEF Below
    <3> QED
      BY <3>1, <3>2
  <2>3. g \in Bijection(1..(i - 1), Below(T, r, f[i]))
    <3>1. g \in [1..(i - 1) -> Below(T, r, f[i])]
      BY <2>2
    <3>2. \A j, k \in 1..(i - 1) : g[j] = g[k] => j = k
      BY <1>1
    <3>3. \A x \in Below(T, r, f[i]) : \E j \in 1..(i - 1) : g[j] = x
      BY <2>2
    <3> QED
      BY <3>1, <3>2, <3>3 DEF Bijection, Injection, IsInjective, Surjection
  <2>4. i - 1 \in Nat
    OBVIOUS
  <2> QED
    BY <2>3, <2>4, FS_CountingElements DEF ExistsBijection
<1>5. Enumerates(Ranked(T, r), Cardinality(T), T, r)
  BY RankedEnumerates
<1>6. \A i \in 1..n : Ranked(T, r)[i] = f[i]
  <2> SUFFICES ASSUME NEW i \in 1..n PROVE Ranked(T, r)[i] = f[i]
    OBVIOUS
  <2>1. Ranked(T, r)[i] = CHOOSE x \in T : Cardinality(Below(T, r, x)) = i - 1
    BY <1>3 DEF Ranked, Below
  <2>2. PICK x \in T : x = Ranked(T, r)[i] /\ Cardinality(Below(T, r, x)) = i - 1
    BY <1>4, <2>1
  <2>3. PICK j \in 1..n : f[j] = x
    OBVIOUS
  <2>4. j - 1 = i - 1
    BY <1>4, <2>2, <2>3
  <2> QED
    BY <2>2, <2>3, <2>4
<1>7. Ranked(T, r) \in [1..n -> T]
  BY <1>3, <1>5 DEF Enumerates
<1> QED
  BY <1>3, <1>6, <1>7

\* The places in T from the first to the last.
Ascending(T) == {p \in T \X T : p[1] < p[2]}

LEMMA AscendingOrders ==
  ASSUME NEW n \in Nat, NEW T \in SUBSET (1..n)
  PROVE  /\ IsFiniteSet(T) /\ Cardinality(T) \in Nat
         /\ \A x, y \in T : <<x, y>> \in Ascending(T) <=> x < y
         /\ Orders(Ascending(T), T)
<1>1. IsFiniteSet(T)
  <2>1. IsFiniteSet(1..n)
    BY FS_Interval
  <2> QED
    BY <2>1, FS_Subset
<1>2. \A x, y \in T : <<x, y>> \in Ascending(T) <=> x < y
  <2> SUFFICES ASSUME NEW x \in T, NEW y \in T PROVE <<x, y>> \in Ascending(T) <=> x < y
    OBVIOUS
  <2>1. <<x, y>> \in T \X T
    OBVIOUS
  <2>2. <<x, y>>[1] = x /\ <<x, y>>[2] = y
    OBVIOUS
  <2> QED
    BY <2>1, <2>2 DEF Ascending
<1>3. \A x \in T : x \in Nat
  OBVIOUS
<1>4. Orders(Ascending(T), T)
  <2>1. \A x \in T : <<x, x>> \notin Ascending(T)
    BY <1>2, <1>3
  <2>2. \A x, y, z \in T : <<x, y>> \in Ascending(T) /\ <<y, z>> \in Ascending(T) => <<x, z>> \in Ascending(T)
    BY <1>2, <1>3
  <2>3. \A x, y \in T : x # y => <<x, y>> \in Ascending(T) \/ <<y, x>> \in Ascending(T)
    BY <1>2, <1>3
  <2> QED
    BY <2>1, <2>2, <2>3 DEF Orders
<1> QED
  BY <1>1, <1>2, <1>4, FS_CardinalityType

\* at lists the n places in T from the first to the last.
Ascends(at, n, T) ==
  /\ at \in [1..n -> T]
  /\ \A i, j \in 1..n : i < j => at[i] < at[j]
  /\ \A k \in T : \E i \in 1..n : at[i] = k

LEMMA AscendsIsEnumerates ==
  ASSUME NEW n \in Nat, NEW T \in SUBSET (1..n), NEW m \in Nat, NEW at
  PROVE  Ascends(at, m, T) <=> Enumerates(at, m, T, Ascending(T))
<1> SUFFICES ASSUME at \in [1..m -> T]
             PROVE  \A i, j \in 1..m : at[i] < at[j] <=> <<at[i], at[j]>> \in Ascending(T)
  BY DEF Ascends, Enumerates
<1> QED
  BY AscendingOrders

\* The items of s at the n places of at.
Draw(s, at, n) == [m \in 1..n |-> s[at[m]]]

\* A filter leaves the items at the places in T, each once and in their order.
LEMMA PickedIs ==
  ASSUME NEW s, NEW n \in Nat, NEW T, T \subseteq 1..n
  PROVE  /\ Cardinality(T) \in Nat
         /\ \E at : /\ Ascends(at, Cardinality(T), T)
                    /\ Picked(s, T) = Draw(s, at, Cardinality(T))
<1> DEFINE at == Ranked(T, Ascending(T))
<1>1. IsFiniteSet(T) /\ Orders(Ascending(T), T) /\ Cardinality(T) \in Nat
  BY AscendingOrders
<1>2. Enumerates(at, Cardinality(T), T, Ascending(T))
  BY <1>1, RankedEnumerates
<1>3. Ascends(at, Cardinality(T), T)
  BY <1>1, <1>2, AscendsIsEnumerates
<1>4. Picked(s, T) = Draw(s, at, Cardinality(T))
  <2>1. DOMAIN at = 1..Cardinality(T)
    BY <1>2 DEF Enumerates
  <2> QED
    BY <2>1 DEF Picked, Ascending, Draw
<1> QED
  BY <1>1, <1>3, <1>4

LEMMA PickedIsOnly ==
  ASSUME NEW s, NEW n \in Nat, NEW T, T \subseteq 1..n, NEW m \in Nat, NEW at, Ascends(at, m, T)
  PROVE  m = Cardinality(T) /\ Picked(s, T) = Draw(s, at, m)
<1>1. IsFiniteSet(T) /\ Orders(Ascending(T), T)
  BY AscendingOrders
<1>2. Enumerates(at, m, T, Ascending(T))
  BY AscendsIsEnumerates
<1>3. m = Cardinality(T) /\ Ranked(T, Ascending(T)) = at
  BY <1>1, <1>2, EnumerationIsRanked
<1>4. Picked(s, T) = [k \in DOMAIN Ranked(T, Ascending(T)) |-> s[Ranked(T, Ascending(T))[k]]]
  BY DEF Picked, Ascending
<1>5. DOMAIN at = 1..m
  BY DEF Ascends
<1> QED
  BY <1>3, <1>4, <1>5 DEF Draw

\* t is drawn from s: it has the items at the places in T, each of them once.
Drawn(t, s, T) ==
  \E n \in Nat : \E at \in [1..n -> T] :
    /\ \A i, j \in 1..n : at[i] = at[j] => i = j
    /\ \A k \in T : \E i \in 1..n : at[i] = k
    /\ t = Draw(s, at, n)

UniqueIds(s) == \A j, k \in DOMAIN s : s[j].id = s[k].id => j = k
UniquePaths(s) == \A j, k \in DOMAIN s : s[j].path = s[k].path => j = k
PinnedFirst(s) == \A j, k \in DOMAIN s : j < k /\ s[k].pinned => s[j].pinned

LEMMA DrawnKeeps ==
  ASSUME NEW X, NEW s \in Seq(X), NEW T \in SUBSET DOMAIN s, NEW t, Drawn(t, s, T)
  PROVE  /\ t \in Seq(X)
         /\ \A k \in DOMAIN t : \E j \in T : t[k] = s[j]
         /\ \A j \in T : \E k \in DOMAIN t : t[k] = s[j]
         /\ UniqueIds(s) => UniqueIds(t)
         /\ UniquePaths(s) => UniquePaths(t)
<1>0. PICK n \in Nat : \E at \in [1..n -> T] :
         /\ \A i, j \in 1..n : at[i] = at[j] => i = j
         /\ \A k \in T : \E i \in 1..n : at[i] = k
         /\ t = Draw(s, at, n)
  BY DEF Drawn
<1>1. PICK at \in [1..n -> T] :
         /\ \A i, j \in 1..n : at[i] = at[j] => i = j
         /\ \A k \in T : \E i \in 1..n : at[i] = k
         /\ t = Draw(s, at, n)
  BY <1>0
<1>2. DOMAIN t = 1..n /\ \A m \in 1..n : t[m] = s[at[m]] /\ at[m] \in T /\ at[m] \in DOMAIN s
  BY <1>1 DEF Draw
<1>3. \A j \in DOMAIN s : s[j] \in X
  BY ElementOfSeq, LenProperties
<1>4. t \in Seq(X)
  <2>1. t \in [1..n -> X]
    BY <1>1, <1>2, <1>3 DEF Draw
  <2> QED
    BY <2>1, IsASeq
<1>5. \A j \in T : \E k \in DOMAIN t : t[k] = s[j]
  BY <1>1, <1>2
<1>6. ASSUME UniqueIds(s) PROVE UniqueIds(t)
  BY <1>1, <1>2, <1>6 DEF UniqueIds
<1>7. ASSUME UniquePaths(s) PROVE UniquePaths(t)
  BY <1>1, <1>2, <1>7 DEF UniquePaths
<1> QED
  BY <1>2, <1>4, <1>5, <1>6, <1>7

LEMMA PickedDrawn ==
  ASSUME NEW X, NEW s \in Seq(X), NEW T, T \subseteq DOMAIN s
  PROVE  Drawn(Picked(s, T), s, T)
<1> DEFINE n == Cardinality(T)
<1>1. Len(s) \in Nat /\ T \subseteq 1..Len(s)
  BY LenProperties
<1>2. n \in Nat
  BY <1>1, PickedIs
<1>3. PICK at : Ascends(at, n, T) /\ Picked(s, T) = Draw(s, at, n)
  BY <1>1, PickedIs
<1> HIDE DEF n
<1>4. \A i, j \in 1..n : at[i] = at[j] => i = j
  <2> SUFFICES ASSUME NEW i \in 1..n, NEW j \in 1..n, at[i] = at[j], i # j PROVE FALSE
    OBVIOUS
  <2>1. i < j \/ j < i
    BY <1>2
  <2>2. at[i] \in Nat /\ at[j] \in Nat
    BY <1>1, <1>3 DEF Ascends
  <2> QED
    BY <1>3, <2>1, <2>2 DEF Ascends
<1> QED
  BY <1>2, <1>3, <1>4 DEF Drawn, Ascends

PinnedPlaces(s) == {k \in DOMAIN s : s[k].pinned}
UnpinnedPlaces(s) == {k \in DOMAIN s : ~s[k].pinned}

\* The items at the p places of a, and then those at the u places of b.
Joined(s, a, p, b, u) == [m \in 1..(p + u) |-> IF m <= p THEN s[a[m]] ELSE s[b[m - p]]]

\* The normalized list: first the p pinned items, then the u others, each part in order.
LEMMA NormalizeIs ==
  ASSUME NEW X, NEW s \in Seq(X), NEW p, p = Cardinality(PinnedPlaces(s)), NEW u, u = Cardinality(UnpinnedPlaces(s))
  PROVE  /\ p \in Nat /\ u \in Nat
         /\ \E a, b : /\ Ascends(a, p, PinnedPlaces(s)) /\ Ascends(b, u, UnpinnedPlaces(s))
                      /\ Normalize(s) = Joined(s, a, p, b, u)
<1>1. /\ Len(s) \in Nat /\ DOMAIN s = 1..Len(s)
      /\ PinnedPlaces(s) \subseteq 1..Len(s) /\ UnpinnedPlaces(s) \subseteq 1..Len(s)
  BY LenProperties DEF PinnedPlaces, UnpinnedPlaces
<1>2. p \in Nat /\ u \in Nat
  BY <1>1, PickedIs
<1>3. PICK a : Ascends(a, p, PinnedPlaces(s)) /\ Picked(s, PinnedPlaces(s)) = Draw(s, a, p)
  BY <1>1, PickedIs
<1>4. PICK b : Ascends(b, u, UnpinnedPlaces(s)) /\ Picked(s, UnpinnedPlaces(s)) = Draw(s, b, u)
  BY <1>1, PickedIs
<1> DEFINE v == Draw(s, a, p)
           w == Draw(s, b, u)
<1>5. v \in Seq(X) /\ Len(v) = p
  <2>1. \A m \in 1..p : s[a[m]] \in X
    BY <1>1, <1>3, ElementOfSeq DEF Ascends
  <2>2. v \in [1..p -> X]
    BY <2>1 DEF Draw
  <2> QED
    BY <1>2, <2>2, IsASeq, LenProperties
<1>6. w \in Seq(X) /\ Len(w) = u
  <2>1. \A m \in 1..u : s[b[m]] \in X
    BY <1>1, <1>4, ElementOfSeq DEF Ascends
  <2>2. w \in [1..u -> X]
    BY <2>1 DEF Draw
  <2> QED
    BY <1>2, <2>2, IsASeq, LenProperties
<1>7. Normalize(s) = v \o w
  BY <1>3, <1>4 DEF Normalize, PinnedPlaces, UnpinnedPlaces
<1>8. v \o w = Joined(s, a, p, b, u)
  BY <1>2, <1>5, <1>6 DEF Joined, Draw
<1> QED
  BY <1>2, <1>3, <1>4, <1>7, <1>8

LEMMA NormalizeFacts ==
  ASSUME NEW X, NEW s \in Seq(X)
  PROVE  /\ Drawn(Normalize(s), s, DOMAIN s)
         /\ PinnedFirst(Normalize(s))
         /\ PinnedFirst(s) => Normalize(s) = s
         /\ PinnedFirst(s) => \A k \in DOMAIN s : s[k].pinned <=> k <= Cardinality(PinnedPlaces(s))
         /\ Cardinality(PinnedPlaces(s)) \in 0..Len(s)
<1> DEFINE p == Cardinality(PinnedPlaces(s))
           u == Cardinality(UnpinnedPlaces(s))
<1>1. p \in Nat /\ u \in Nat
  BY NormalizeIs
<1>2. PICK a, b : /\ Ascends(a, p, PinnedPlaces(s)) /\ Ascends(b, u, UnpinnedPlaces(s))
                  /\ Normalize(s) = Joined(s, a, p, b, u)
  BY NormalizeIs
<1>3. Len(s) \in Nat /\ DOMAIN s = 1..Len(s)
  BY LenProperties
<1> HIDE DEF p, u
<1> DEFINE at == [m \in 1..(p + u) |-> IF m <= p THEN a[m] ELSE b[m - p]]
<1>4. \A m \in 1..(p + u) : /\ m <= p => at[m] = a[m] /\ at[m] \in PinnedPlaces(s) /\ m \in 1..p
                            /\ ~(m <= p) => at[m] = b[m - p] /\ at[m] \in UnpinnedPlaces(s) /\ m - p \in 1..u
  BY <1>1, <1>2 DEF Ascends
<1>5. \A m \in 1..(p + u) : at[m] \in DOMAIN s /\ (s[at[m]].pinned <=> m <= p)
  BY <1>4 DEF PinnedPlaces, UnpinnedPlaces
<1>6. at \in [1..(p + u) -> DOMAIN s]
  BY <1>5
<1>7. Normalize(s) = Draw(s, at, p + u)
  BY <1>2, <1>4 DEF Joined, Draw
<1>8. \A k \in DOMAIN s : \E m \in 1..(p + u) : at[m] = k
  <2> SUFFICES ASSUME NEW k \in DOMAIN s PROVE \E m \in 1..(p + u) : at[m] = k
    OBVIOUS
  <2>1. CASE s[k].pinned
    <3>1. PICK m \in 1..p : a[m] = k
      BY <1>2, <2>1 DEF Ascends, PinnedPlaces
    <3>2. m \in 1..(p + u) /\ m <= p
      BY <1>1
    <3> QED
      BY <1>4, <3>1, <3>2
  <2>2. CASE ~s[k].pinned
    <3>1. PICK m \in 1..u : b[m] = k
      BY <1>2, <2>2 DEF Ascends, UnpinnedPlaces
    <3>2. m + p \in 1..(p + u) /\ ~(m + p <= p) /\ (m + p) - p = m
      BY <1>1
    <3> QED
      BY <1>4, <3>1, <3>2
  <2> QED
    BY <2>1, <2>2
<1>9. \A i, j \in 1..(p + u) : i < j /\ ((i <= p) <=> (j <= p)) => at[i] < at[j]
  <2> SUFFICES ASSUME NEW i \in 1..(p + u), NEW j \in 1..(p + u), i < j, (i <= p) <=> (j <= p)
               PROVE  at[i] < at[j]
    OBVIOUS
  <2>1. CASE i <= p
    BY <1>2, <1>4, <2>1 DEF Ascends
  <2>2. CASE ~(i <= p)
    <3>1. i - p < j - p
      BY <1>1
    <3> QED
      BY <1>2, <1>4, <2>2, <3>1 DEF Ascends
  <2> QED
    BY <2>1, <2>2
<1> HIDE DEF at
<1>10. \A i, j \in 1..(p + u) : at[i] = at[j] => i = j
  <2> SUFFICES ASSUME NEW i \in 1..(p + u), NEW j \in 1..(p + u), at[i] = at[j], i # j PROVE FALSE
    OBVIOUS
  <2>1. at[i] \in Nat /\ at[j] \in Nat /\ ((i <= p) <=> (j <= p))
    BY <1>3, <1>5
  <2>2. i < j \/ j < i
    BY <1>1
  <2>3. at[i] < at[j] \/ at[j] < at[i]
    BY <1>9, <2>1, <2>2
  <2> QED
    BY <2>1, <2>3
<1>11. Drawn(Normalize(s), s, DOMAIN s)
  <2>1. p + u \in Nat
    BY <1>1
  <2> QED
    BY <2>1, <1>6, <1>7, <1>8, <1>10 DEF Drawn
<1>12. PinnedFirst(Normalize(s))
  BY <1>1, <1>5, <1>7 DEF PinnedFirst, Draw
<1>13. ASSUME PinnedFirst(s)
       PROVE  /\ Normalize(s) = s /\ p + u = Len(s)
              /\ \A k \in DOMAIN s : s[k].pinned <=> k <= p
  <2>1. \A i, j \in 1..(p + u) : i < j => at[i] < at[j]
    <3> SUFFICES ASSUME NEW i \in 1..(p + u), NEW j \in 1..(p + u), i < j, ~((i <= p) <=> (j <= p))
                 PROVE  at[i] < at[j]
      BY <1>9
    <3>1. i <= p /\ ~(j <= p)
      BY <1>1
    <3>2. s[at[i]].pinned /\ ~s[at[j]].pinned /\ at[i] \in DOMAIN s /\ at[j] \in DOMAIN s
      BY <1>5, <3>1
    <3>3. ~(at[j] < at[i]) /\ at[i] # at[j]
      BY <1>13, <3>2 DEF PinnedFirst
    <3> QED
      BY <1>3, <3>2, <3>3
  <2>2. Ascends(at, p + u, DOMAIN s)
    BY <1>6, <1>8, <2>1 DEF Ascends
  <2> DEFINE id == [m \in 1..Len(s) |-> m]
  <2>3. Ascends(id, Len(s), DOMAIN s)
    BY <1>3 DEF Ascends
  <2>4. p + u = Cardinality(DOMAIN s) /\ Picked(s, DOMAIN s) = Normalize(s)
    <3>1. p + u \in Nat /\ DOMAIN s \subseteq 1..Len(s)
      BY <1>1, <1>3
    <3> QED
      BY <1>3, <1>7, <2>2, <3>1, PickedIsOnly
  <2>5. Len(s) = Cardinality(DOMAIN s) /\ Picked(s, DOMAIN s) = Draw(s, id, Len(s))
    BY <1>3, <2>3, PickedIsOnly
  <2>6. Draw(s, id, Len(s)) = s
    BY <1>3 DEF Draw
  <2>7. Normalize(s) = s /\ p + u = Len(s)
    BY <2>4, <2>5, <2>6
  <2> QED
    BY <1>3, <1>5, <1>7, <2>7 DEF Draw
<1>14. p <= Len(s)
  <2>1. IsFiniteSet(DOMAIN s) /\ Cardinality(DOMAIN s) = Len(s)
    BY <1>3, FS_Interval
  <2>2. PinnedPlaces(s) \in SUBSET DOMAIN s
    BY DEF PinnedPlaces
  <2> QED
    BY <2>1, <2>2, FS_Subset DEF p
<1> QED
  BY <1>1, <1>3, <1>11, <1>12, <1>13, <1>14 DEF p

Inserted(s, j, x) == [m \in 1..(Len(s) + 1) |-> IF m < j THEN s[m] ELSE IF m = j THEN x ELSE s[m - 1]]

LEMMA InsertAtIs ==
  ASSUME NEW X, NEW s \in Seq(X), NEW x \in X, NEW j \in 1..(Len(s) + 1)
  PROVE  /\ InsertAt(s, j, x) \in Seq(X)
         /\ InsertAt(s, j, x) = Inserted(s, j, x)
<1> DEFINE a == SubSeq(s, 1, j - 1)
           b == SubSeq(s, j, Len(s))
           t == [m \in 1..(Len(s) + 1) |-> IF m < j THEN s[m] ELSE IF m = j THEN x ELSE s[m - 1]]
<1>0. Len(s) \in Nat /\ \A m \in 1..Len(s) : s[m] \in X
  BY ElementOfSeq, LenProperties
<1>1. a \in Seq(X) /\ Len(a) = j - 1 /\ \A m \in 1..(j - 1) : a[m] = s[m]
  BY <1>0, SubSeqProperties
<1>2. b \in Seq(X) /\ Len(b) = Len(s) - j + 1 /\ \A m \in 1..(Len(s) - j + 1) : b[m] = s[j + m - 1]
  BY <1>0, SubSeqProperties
<1>3. <<x>> \in Seq(X) /\ Len(<<x>>) = 1 /\ <<x>>[1] = x
  OBVIOUS
<1> HIDE DEF a, b
<1> DEFINE c == a \o <<x>>
<1>4. c \in Seq(X) /\ Len(c) = j /\ \A m \in 1..j : c[m] = IF m < j THEN s[m] ELSE x
  BY <1>0, <1>1, <1>3, ConcatProperties
<1> HIDE DEF c
<1>5. c \o b = t
  <2>1. Len(c \o b) = Len(s) + 1 /\ c \o b \in Seq(X)
    <3>1. Len(c \o b) = Len(c) + Len(b) /\ c \o b \in Seq(X)
      BY <1>2, <1>4, ConcatProperties
    <3>2. Len(c) = j /\ Len(b) = Len(s) - j + 1
      BY <1>2, <1>4
    <3> QED
      BY <1>0, <3>1, <3>2
  <2>2. ASSUME NEW m \in 1..(Len(s) + 1) PROVE (c \o b)[m] = t[m]
    <3>1. CASE m <= j
      <4>1. (c \o b)[m] = c[m]
        BY <1>0, <1>2, <1>4, <3>1, ConcatProperties
      <4> QED
        BY <1>0, <1>4, <3>1, <4>1
    <3>2. CASE ~(m <= j)
      <4>1. m - j \in 1..(Len(s) - j + 1)
        BY <1>0, <3>2
      <4>2. (c \o b)[m] = b[m - j]
        BY <1>0, <1>2, <1>4, <3>2, ConcatProperties
      <4>3. b[m - j] = s[j + (m - j) - 1]
        BY <1>2, <4>1
      <4>4. j + (m - j) - 1 = m - 1 /\ ~(m < j) /\ m # j
        BY <1>0, <3>2
      <4>5. t[m] = s[m - 1]
        BY <4>4
      <4> QED
        BY <4>2, <4>3, <4>4, <4>5
    <3> QED
      BY <3>1, <3>2
  <2>3. c \o b = [m \in 1..(Len(s) + 1) |-> (c \o b)[m]]
    BY <2>1, LenProperties
  <2> QED
    BY <2>2, <2>3
<1>6. InsertAt(s, j, x) = c \o b
  BY DEF InsertAt, a, b, c
<1>7. t \in Seq(X)
  <2>1. t \in [1..(Len(s) + 1) -> X]
    BY <1>0
  <2> QED
    BY <1>0, <2>1, IsASeq
<1> QED
  BY <1>5, <1>6, <1>7 DEF Inserted

LEMMA RemoveAtIs ==
  ASSUME NEW X, NEW s \in Seq(X), NEW i \in 1..Len(s)
  PROVE  /\ RemoveAt(s, i) \in Seq(X)
         /\ Len(RemoveAt(s, i)) = Len(s) - 1
         /\ \A m \in 1..(Len(s) - 1) : RemoveAt(s, i)[m] = IF m < i THEN s[m] ELSE s[m + 1]
<1> DEFINE a == SubSeq(s, 1, i - 1)
           b == SubSeq(s, i + 1, Len(s))
<1>0. Len(s) \in Nat /\ \A m \in 1..Len(s) : s[m] \in X
  BY ElementOfSeq, LenProperties
<1>1. a \in Seq(X) /\ Len(a) = i - 1 /\ \A m \in 1..(i - 1) : a[m] = s[m]
  BY <1>0, SubSeqProperties
<1>2. b \in Seq(X) /\ Len(b) = Len(s) - i /\ \A m \in 1..(Len(s) - i) : b[m] = s[i + m]
  BY <1>0, SubSeqProperties
<1> HIDE DEF a, b
<1>3. a \o b \in Seq(X) /\ Len(a \o b) = Len(s) - 1
  <2>1. a \o b \in Seq(X) /\ Len(a \o b) = Len(a) + Len(b)
    BY <1>1, <1>2, ConcatProperties
  <2> QED
    BY <1>0, <1>1, <1>2, <2>1
<1>4. ASSUME NEW m \in 1..(Len(s) - 1) PROVE (a \o b)[m] = IF m < i THEN s[m] ELSE s[m + 1]
  <2>1. CASE m < i
    <3>1. (a \o b)[m] = a[m]
      BY <1>0, <1>1, <1>2, <2>1, ConcatProperties
    <3> QED
      BY <1>0, <1>1, <2>1, <3>1
  <2>2. CASE ~(m < i)
    <3>1. (a \o b)[m] = b[m - (i - 1)]
      BY <1>0, <1>1, <1>2, <2>2, ConcatProperties
    <3>2. m - (i - 1) \in 1..(Len(s) - i)
      BY <1>0, <2>2
    <3>3. i + (m - (i - 1)) = m + 1
      BY <1>0
    <3> QED
      BY <1>2, <2>2, <3>1, <3>2, <3>3
  <2> QED
    BY <2>1, <2>2
<1> QED
  BY <1>3, <1>4 DEF RemoveAt, a, b

\* What is put in anywhere is drawn by a filter no more than what it leaves out.
LEMMA ApartIgnores ==
  ASSUME NEW X, NEW s \in Seq(X), NEW x \in X, NEW j \in 1..(Len(s) + 1), NEW p, x.path = p
  PROVE  Apart(InsertAt(s, j, x), p) = Apart(s, p)
<1> DEFINE t == InsertAt(s, j, x)
           K == {k \in DOMAIN s : s[k].path # p}
           L == {k \in DOMAIN t : t[k].path # p}
           n == Cardinality(K)
<1>0. Len(s) \in Nat /\ DOMAIN s = 1..Len(s) /\ K \subseteq 1..Len(s)
  BY LenProperties
<1>1. t = [m \in 1..(Len(s) + 1) |-> IF m < j THEN s[m] ELSE IF m = j THEN x ELSE s[m - 1]]
  BY InsertAtIs DEF Inserted
<1>2. n \in Nat
  BY <1>0, PickedIs
<1>3. PICK a : Ascends(a, n, K) /\ Picked(s, K) = Draw(s, a, n)
  BY <1>0, PickedIs
<1> HIDE DEF n
<1> DEFINE b == [m \in 1..n |-> IF a[m] < j THEN a[m] ELSE a[m] + 1]
<1>4. \A m \in 1..n : a[m] \in 1..Len(s) /\ s[a[m]].path # p /\ b[m] \in 1..(Len(s) + 1) /\ b[m] # j /\ t[b[m]] = s[a[m]]
  <2> SUFFICES ASSUME NEW m \in 1..n
               PROVE  a[m] \in 1..Len(s) /\ s[a[m]].path # p /\ b[m] \in 1..(Len(s) + 1) /\ b[m] # j /\ t[b[m]] = s[a[m]]
    OBVIOUS
  <2>1. a[m] \in K
    BY <1>3 DEF Ascends
  <2>2. a[m] \in 1..Len(s) /\ s[a[m]].path # p
    BY <1>0, <2>1
  <2>3. b[m] = IF a[m] < j THEN a[m] ELSE a[m] + 1
    OBVIOUS
  <2> HIDE DEF t, K, b
  <2>4. b[m] \in 1..(Len(s) + 1) /\ b[m] # j
    BY <1>0, <2>2, <2>3
  <2>5. t[b[m]] = s[a[m]]
    <3>1. CASE a[m] < j
      BY <1>0, <1>1, <2>2, <2>3, <2>4, <3>1
    <3>2. CASE ~(a[m] < j)
      <4>1. b[m] = a[m] + 1 /\ ~(b[m] < j) /\ b[m] - 1 = a[m]
        BY <1>0, <2>2, <2>3, <3>2
      <4> QED
        BY <1>0, <1>1, <2>4, <4>1
    <3> QED
      BY <3>1, <3>2
  <2> QED
    BY <2>2, <2>4, <2>5
<1>5. Ascends(b, n, L)
  <2>0. DOMAIN t = 1..(Len(s) + 1)
    BY <1>1
  <2>1. b \in [1..n -> L]
    BY <1>4, <2>0
  <2>2. \A i, k \in 1..n : i < k => b[i] < b[k]
    <3> SUFFICES ASSUME NEW i \in 1..n, NEW k \in 1..n, i < k PROVE b[i] < b[k]
      OBVIOUS
    <3>1. a[i] \in 1..Len(s) /\ a[k] \in 1..Len(s) /\ a[i] < a[k]
      BY <1>3, <1>4 DEF Ascends
    <3> QED
      BY <1>0, <3>1
  <2>3. \A k \in L : \E i \in 1..n : b[i] = k
    <3> SUFFICES ASSUME NEW k \in L PROVE \E i \in 1..n : b[i] = k
      OBVIOUS
    <3>1. k \in 1..(Len(s) + 1) /\ t[k].path # p
      BY <2>0
    <3>2. k # j
      BY <1>0, <1>1, <3>1
    <3>3. CASE k < j
      <4>1. k \in K
        BY <1>0, <1>1, <3>1, <3>3
      <4>2. PICK i \in 1..n : a[i] = k
        BY <1>3, <4>1 DEF Ascends
      <4> QED
        BY <3>3, <4>2
    <3>4. CASE ~(k < j)
      <4>1. k - 1 \in 1..Len(s) /\ ~(k - 1 < j)
        BY <1>0, <3>1, <3>2, <3>4
      <4>2. k - 1 \in K
        BY <1>0, <1>1, <3>1, <3>2, <3>4, <4>1
      <4>3. PICK i \in 1..n : a[i] = k - 1
        BY <1>3, <4>2 DEF Ascends
      <4> QED
        BY <3>1, <4>1, <4>3
    <3> QED
      BY <3>3, <3>4
  <2> QED
    BY <2>1, <2>2, <2>3 DEF Ascends
<1>6. Picked(t, L) = Draw(t, b, n)
  <2>1. L \subseteq 1..(Len(s) + 1) /\ Len(s) + 1 \in Nat
    BY <1>0, <1>1
  <2> HIDE DEF L, b, t
  <2> QED
    BY <1>2, <1>5, <2>1, PickedIsOnly
<1>7. Draw(t, b, n) = Draw(s, a, n)
  BY <1>4 DEF Draw
<1> QED
  BY <1>3, <1>6, <1>7 DEF Apart

-----------------------------------------------------------------------------
(* The sidebars: what a drag does to the order that is shown. The agent    *)
(* taken from place i and put in at place j leaves the other agents as     *)
(* they were (From says which place each one comes from), and it still     *)
(* does so after the pinned ones were put first.                           *)

\* Where the item at place m of Moved(s, i, j) came from.
From(m, i, j) == IF m < j THEN IF m < i THEN m ELSE m + 1
                 ELSE IF m = j THEN i
                 ELSE IF m - 1 < i THEN m - 1 ELSE m

Shuffled(s, i, j) == [m \in 1..Len(s) |-> s[From(m, i, j)]]

LEMMA MovedIs ==
  ASSUME NEW X, NEW s \in Seq(X), NEW i \in 1..Len(s), NEW j \in 1..Len(s)
  PROVE  /\ Moved(s, i, j) \in Seq(X)
         /\ Moved(s, i, j) = Shuffled(s, i, j)
<1> DEFINE r == RemoveAt(s, i)
<1>1. Len(s) \in Nat /\ \A m \in 1..Len(s) : s[m] \in X
  BY ElementOfSeq, LenProperties
<1>2. /\ r \in Seq(X) /\ Len(r) = Len(s) - 1
      /\ \A m \in 1..(Len(s) - 1) : r[m] = IF m < i THEN s[m] ELSE s[m + 1]
  BY RemoveAtIs
<1> HIDE DEF r
<1>3. Len(r) + 1 = Len(s) /\ j \in 1..(Len(r) + 1) /\ s[i] \in X
  BY <1>1, <1>2
<1>4. /\ InsertAt(r, j, s[i]) \in Seq(X)
      /\ InsertAt(r, j, s[i]) = Inserted(r, j, s[i])
  BY <1>2, <1>3, InsertAtIs
<1>5. \A m \in 1..Len(s) : (IF m < j THEN r[m] ELSE IF m = j THEN s[i] ELSE r[m - 1]) = s[From(m, i, j)]
  <2> SUFFICES ASSUME NEW m \in 1..Len(s)
               PROVE  (IF m < j THEN r[m] ELSE IF m = j THEN s[i] ELSE r[m - 1]) = s[From(m, i, j)]
    OBVIOUS
  <2>1. CASE m < j
    <3>1. m \in 1..(Len(s) - 1)
      BY <1>1, <2>1
    <3> QED
      BY <1>2, <2>1, <3>1 DEF From
  <2>2. CASE m = j
    BY <1>1, <2>2 DEF From
  <2>3. CASE m > j
    <3>1. m - 1 \in 1..(Len(s) - 1) /\ (m - 1) + 1 = m /\ ~(m < j) /\ m # j
      BY <1>1, <2>3
    <3>2. r[m - 1] = IF m - 1 < i THEN s[m - 1] ELSE s[m]
      BY <1>2, <3>1
    <3> QED
      BY <3>1, <3>2 DEF From
  <2> QED
    BY <1>1, <2>1, <2>2, <2>3
<1>6. InsertAt(r, j, s[i]) = Shuffled(s, i, j)
  BY <1>3, <1>4, <1>5 DEF Inserted, Shuffled
<1> QED
  BY <1>4, <1>6 DEF Moved, r

LEMMA FromFacts ==
  ASSUME NEW n \in Nat, NEW i \in 1..n, NEW j \in 1..n
  PROVE  /\ \A m \in 1..n : From(m, i, j) \in 1..n
         /\ \A m \in 1..n : From(m, i, j) = i <=> m = j
         /\ \A m, k \in 1..n : From(m, i, j) = From(k, i, j) => m = k
         /\ \A m, k \in 1..n : m # j /\ k # j /\ m < k => From(m, i, j) < From(k, i, j)
<1>2. \A m \in 1..n : From(m, i, j) \in 1..n
  BY DEF From
<1>3. \A m \in 1..n : From(m, i, j) = i <=> m = j
  BY DEF From
<1>4. \A m, k \in 1..n : m # j /\ k # j /\ m < k => From(m, i, j) < From(k, i, j)
  BY DEF From
<1>5. \A m, k \in 1..n : From(m, i, j) = From(k, i, j) => m = k
  BY DEF From
<1> QED
  BY <1>2, <1>3, <1>4, <1>5

LEMMA FromReaches ==
  ASSUME NEW n \in Nat, NEW i \in 1..n, NEW j \in 1..n, NEW k \in 1..n
  PROVE  \E m \in 1..n : From(m, i, j) = k
<1> DEFINE l == IF k < i THEN k ELSE k - 1
           m == IF k = i THEN j ELSE IF l < j THEN l ELSE l + 1
<1>1. m \in 1..n
  OBVIOUS
<1>2. From(m, i, j) = k
  BY DEF From
<1> QED
  BY <1>1, <1>2

LEMMA MovedFacts ==
  ASSUME NEW X, NEW s \in Seq(X), NEW i \in 1..Len(s), NEW j \in 1..Len(s)
  PROVE  /\ Drawn(Moved(s, i, j), s, DOMAIN s)
         /\ \A p : s[i].path = p => Apart(Moved(s, i, j), p) = Apart(s, p)
         /\ PinnedFirst(s) /\ (s[i].pinned <=> s[j].pinned) => PinnedFirst(Moved(s, i, j))
<1>0. Len(s) \in Nat /\ DOMAIN s = 1..Len(s) /\ s[i] \in X
  BY ElementOfSeq, LenProperties
<1> DEFINE at == [m \in 1..Len(s) |-> From(m, i, j)]
<1>1. Drawn(Moved(s, i, j), s, DOMAIN s)
  <2>1. at \in [1..Len(s) -> DOMAIN s]
    BY <1>0, FromFacts
  <2>2. \A m, k \in 1..Len(s) : at[m] = at[k] => m = k
    BY <1>0, FromFacts
  <2>3. \A k \in DOMAIN s : \E m \in 1..Len(s) : at[m] = k
    <3> SUFFICES ASSUME NEW k \in 1..Len(s) PROVE \E m \in 1..Len(s) : at[m] = k
      BY <1>0
    <3> DEFINE n == Len(s)
    <3>1. PICK m \in 1..n : From(m, i, j) = k
      <4>1. n \in Nat /\ i \in 1..n /\ j \in 1..n /\ k \in 1..n
        BY <1>0
      <4> HIDE DEF n, at
      <4> QED
        BY <4>1, FromReaches
    <3> QED
      BY <3>1
  <2>4. Moved(s, i, j) = Draw(s, at, Len(s))
    BY MovedIs DEF Draw, Shuffled
  <2> HIDE DEF at
  <2> QED
    BY <1>0, <2>1, <2>2, <2>3, <2>4 DEF Drawn
<1>2. ASSUME NEW p, s[i].path = p
      PROVE  Apart(Moved(s, i, j), p) = Apart(s, p)
  <2> DEFINE r == RemoveAt(s, i)
  <2>1. r \in Seq(X) /\ Len(r) + 1 = Len(s)
    <3>1. r \in Seq(X) /\ Len(r) = Len(s) - 1
      BY RemoveAtIs
    <3> QED
      BY <1>0, <3>1
  <2>2. \A k \in 1..Len(s) : Apart(Moved(s, i, k), p) = Apart(r, p)
    <3> SUFFICES ASSUME NEW k \in 1..Len(s) PROVE Apart(InsertAt(r, k, s[i]), p) = Apart(r, p)
      BY DEF Moved
    <3>1. k \in 1..(Len(r) + 1)
      BY <2>1
    <3> HIDE DEF r
    <3> QED
      BY <1>0, <1>2, <2>1, <3>1, ApartIgnores
  <2>3. Moved(s, i, i) = s
    <3>1. \A m \in 1..Len(s) : From(m, i, i) = m
      BY <1>0 DEF From
    <3>2. Moved(s, i, i) = Shuffled(s, i, i)
      BY MovedIs
    <3> QED
      BY <1>0, <3>1, <3>2 DEF Shuffled
  <2> QED
    BY <2>2, <2>3
<1>3. ASSUME PinnedFirst(s), s[i].pinned <=> s[j].pinned
      PROVE  PinnedFirst(Moved(s, i, j))
  <2> DEFINE P == Cardinality(PinnedPlaces(s))
             t == Moved(s, i, j)
  <2>1. P \in Nat /\ \A k \in 1..Len(s) : s[k].pinned <=> k <= P
    BY <1>0, <1>3, NormalizeFacts
  <2>2. t = [m \in 1..Len(s) |-> s[From(m, i, j)]]
    <3>1. t = Shuffled(s, i, j)
      BY MovedIs
    <3> QED
      BY <3>1 DEF Shuffled
  <2> HIDE DEF P, t
  <2>3. i <= P <=> j <= P
    BY <1>3, <2>1
  <2>4. \A m \in 1..Len(s) : t[m].pinned <=> m <= P
    <3> SUFFICES ASSUME NEW m \in 1..Len(s) PROVE t[m].pinned <=> m <= P
      OBVIOUS
    <3>1. From(m, i, j) \in 1..Len(s)
      BY <1>0, FromFacts
    <3>2. t[m].pinned <=> From(m, i, j) <= P
      BY <2>1, <2>2, <3>1
    <3>3. From(m, i, j) <= P <=> m <= P
      BY <1>0, <2>1, <2>3 DEF From
    <3> QED
      BY <3>2, <3>3
  <2>5. DOMAIN t = 1..Len(s)
    BY <2>2
  <2> QED
    BY <1>0, <2>1, <2>4, <2>5 DEF PinnedFirst, t
<1> QED
  BY <1>1, <1>2, <1>3

\* An item put in between the pinned ones and the others keeps the pinned ones first.
LEMMA InsertPinnedFirst ==
  ASSUME NEW X, NEW s \in Seq(X), NEW x \in X, PinnedFirst(s), NEW j, j = Cardinality(PinnedPlaces(s)) + 1
  PROVE  j \in 1..(Len(s) + 1) /\ PinnedFirst(InsertAt(s, j, x))
<1> DEFINE P == Cardinality(PinnedPlaces(s))
           t == InsertAt(s, j, x)
<1>1. Len(s) \in Nat /\ DOMAIN s = 1..Len(s)
  BY LenProperties
<1>2. P \in 0..Len(s) /\ \A k \in 1..Len(s) : s[k].pinned <=> k <= P
  BY <1>1, NormalizeFacts
<1>3. j = P + 1
  OBVIOUS
<1> HIDE DEF P
<1>4. j \in 1..(Len(s) + 1)
  BY <1>1, <1>2, <1>3
<1>5. t = [m \in 1..(Len(s) + 1) |-> IF m < j THEN s[m] ELSE IF m = j THEN x ELSE s[m - 1]]
  <2>1. t = Inserted(s, j, x)
    BY <1>4, InsertAtIs
  <2> QED
    BY <2>1 DEF Inserted
<1> HIDE DEF t
<1>6. \A m \in 1..(Len(s) + 1) : /\ m < j => t[m].pinned
                                 /\ m > j => ~t[m].pinned
  <2> SUFFICES ASSUME NEW m \in 1..(Len(s) + 1)
               PROVE  /\ m < j => t[m].pinned
                      /\ m > j => ~t[m].pinned
    OBVIOUS
  <2>1. CASE m < j
    <3>1. t[m] = s[m] /\ m \in 1..Len(s) /\ m <= P /\ ~(m > j)
      BY <1>1, <1>2, <1>3, <1>5, <2>1
    <3> QED
      BY <1>2, <3>1
  <2>2. CASE m > j
    <3>1. t[m] = s[m - 1] /\ m - 1 \in 1..Len(s) /\ ~(m - 1 <= P) /\ ~(m < j)
      BY <1>1, <1>2, <1>3, <1>5, <2>2
    <3> QED
      BY <1>2, <3>1
  <2> QED
    BY <2>1, <2>2
<1>7. DOMAIN t = 1..(Len(s) + 1)
  BY <1>5
<1>8. PinnedFirst(t)
  <2> SUFFICES ASSUME NEW m \in DOMAIN t, NEW k \in DOMAIN t, m < k, t[k].pinned PROVE t[m].pinned
    BY DEF PinnedFirst
  <2>1. k <= j
    BY <1>1, <1>4, <1>6, <1>7
  <2>2. m < j
    BY <1>1, <1>4, <1>7, <2>1
  <2> QED
    BY <1>6, <1>7, <2>2
<1> QED
  BY <1>4, <1>8 DEF t

EntryType == [id: Nat, pinned: BOOLEAN, order: 0..NoOrder]

BeforeOf(s) == {p \in (DOMAIN s) \X (DOMAIN s) : Before(s, p[1], p[2])}

\* Before orders a list without duplicates.
LEMMA BeforeOrders ==
  ASSUME NEW s \in Seq(EntryType), UniqueIds(s)
  PROVE  /\ IsFiniteSet(DOMAIN s) /\ DOMAIN s = 1..Len(s) /\ Len(s) \in Nat /\ Cardinality(DOMAIN s) = Len(s)
         /\ \A a, b \in DOMAIN s : <<a, b>> \in BeforeOf(s) <=> Before(s, a, b)
         /\ Orders(BeforeOf(s), DOMAIN s)
<1>0. NoOrder \in Nat
  BY SidebarAssumption DEF NoOrder
<1>1. DOMAIN s = 1..Len(s) /\ Len(s) \in Nat
  BY LenProperties
<1>2. IsFiniteSet(DOMAIN s) /\ Cardinality(DOMAIN s) = Len(s)
  BY <1>1, FS_Interval
<1>3. \A a, b \in DOMAIN s : <<a, b>> \in BeforeOf(s) <=> Before(s, a, b)
  <2> SUFFICES ASSUME NEW a \in DOMAIN s, NEW b \in DOMAIN s PROVE <<a, b>> \in BeforeOf(s) <=> Before(s, a, b)
    OBVIOUS
  <2>1. <<a, b>> \in (DOMAIN s) \X (DOMAIN s) /\ <<a, b>>[1] = a /\ <<a, b>>[2] = b
    OBVIOUS
  <2> QED
    BY <2>1 DEF BeforeOf
<1>4. \A a \in DOMAIN s : a \in Nat /\ s[a].id \in Nat /\ s[a].pinned \in BOOLEAN /\ s[a].order \in Nat
  <2> SUFFICES ASSUME NEW a \in DOMAIN s
               PROVE  a \in Nat /\ s[a].id \in Nat /\ s[a].pinned \in BOOLEAN /\ s[a].order \in Nat
    OBVIOUS
  <2>1. s[a] \in EntryType
    BY <1>1, ElementOfSeq
  <2> QED
    BY <1>0, <1>1, <2>1 DEF EntryType
<1>5. \A a \in DOMAIN s : ~Before(s, a, a)
  BY <1>4 DEF Before
<1>6. \A a, b \in DOMAIN s : a # b => Before(s, a, b) \/ Before(s, b, a)
  <2> SUFFICES ASSUME NEW a \in DOMAIN s, NEW b \in DOMAIN s, a # b PROVE Before(s, a, b) \/ Before(s, b, a)
    OBVIOUS
  <2>1. s[a].id # s[b].id
    BY DEF UniqueIds
  <2> QED
    BY <1>4, <2>1 DEF Before
<1>7. \A a, b, c \in DOMAIN s : Before(s, a, b) /\ Before(s, b, c) => Before(s, a, c)
  BY <1>4, <1>0 DEF Before
<1>8. Orders(BeforeOf(s), DOMAIN s)
  BY <1>3, <1>5, <1>6, <1>7 DEF Orders
<1> QED
  BY <1>1, <1>2, <1>3, <1>8

\* What the sidebar shows are the ids of the list in that order.
LEMMA DisplayIs ==
  ASSUME NEW s \in Seq(EntryType), UniqueIds(s)
  PROVE  \E at : /\ Enumerates(at, Len(s), DOMAIN s, BeforeOf(s))
                 /\ DOMAIN Display(s) = 1..Len(s)
                 /\ \A m \in 1..Len(s) : Display(s)[m] = s[at[m]].id
<1> DEFINE at == Ranked(DOMAIN s, BeforeOf(s))
<1>1. Enumerates(at, Len(s), DOMAIN s, BeforeOf(s))
  BY BeforeOrders, RankedEnumerates
<1>2. Display(s) = [n \in DOMAIN at |-> s[at[n]].id]
  BY DEF Display, BeforeOf
<1>3. DOMAIN at = 1..Len(s)
  BY <1>1 DEF Enumerates
<1> HIDE DEF at
<1> QED
  BY <1>1, <1>2, <1>3

\* A list that is in the order it is shown in.
LEMMA ShownInOrder ==
  ASSUME NEW s \in Seq(EntryType), UniqueIds(s), Display(s) = Ids(s), NEW a \in DOMAIN s, NEW b \in DOMAIN s, a < b
  PROVE  Before(s, a, b)
<1>1. PICK at : /\ Enumerates(at, Len(s), DOMAIN s, BeforeOf(s))
                /\ DOMAIN Display(s) = 1..Len(s)
                /\ \A m \in 1..Len(s) : Display(s)[m] = s[at[m]].id
  BY DisplayIs
<1>2. DOMAIN s = 1..Len(s)
  BY LenProperties
<1>3. \A m \in DOMAIN s : at[m] = m
  <2> SUFFICES ASSUME NEW m \in DOMAIN s PROVE at[m] = m
    OBVIOUS
  <2>1. s[at[m]].id = s[m].id
    BY <1>1, <1>2 DEF Ids
  <2>2. at[m] \in DOMAIN s
    BY <1>1, <1>2 DEF Enumerates
  <2> QED
    BY <2>1, <2>2 DEF UniqueIds
<1>4. <<a, b>> \in BeforeOf(s)
  BY <1>1, <1>2, <1>3 DEF Enumerates
<1> QED
  BY <1>4, BeforeOrders

Restamped(s, i, j) == LET next == Moved(s, i, j) IN [k \in DOMAIN next |-> [next[k] EXCEPT !.order = k - 1]]

LEMMA RestampedIs ==
  ASSUME NEW s \in Seq(EntryType), UniqueIds(s), Len(s) <= MaxSessions, NEW i \in DOMAIN s, NEW j \in DOMAIN s
  PROVE  /\ Restamped(s, i, j) \in Seq(EntryType) /\ Len(Restamped(s, i, j)) = Len(s)
         /\ UniqueIds(Restamped(s, i, j))
         /\ \A m \in DOMAIN s : LET e == Restamped(s, i, j)[m] IN
              /\ From(m, i, j) \in DOMAIN s
              /\ e.id = s[From(m, i, j)].id /\ e.pinned = s[From(m, i, j)].pinned /\ e.order = m - 1
<1> DEFINE n == Len(s)
           t == Restamped(s, i, j)
<1>0. n \in Nat /\ DOMAIN s = 1..n /\ MaxSessions \in Nat
  BY LenProperties, SidebarAssumption
<1>1. \A m \in 1..n : From(m, i, j) \in 1..n /\ s[From(m, i, j)] \in EntryType
  BY <1>0, FromFacts, ElementOfSeq
<1>2. Moved(s, i, j) = Shuffled(s, i, j)
  BY <1>0, MovedIs
<1>3. t = [m \in 1..n |-> [s[From(m, i, j)] EXCEPT !.order = m - 1]]
  BY <1>2 DEF Shuffled, Restamped
<1> HIDE DEF t
<1>4. \A m \in 1..n : /\ t[m] \in EntryType /\ t[m].id = s[From(m, i, j)].id
                      /\ t[m].pinned = s[From(m, i, j)].pinned /\ t[m].order = m - 1
  <2> SUFFICES ASSUME NEW m \in 1..n
               PROVE  /\ t[m] \in EntryType /\ t[m].id = s[From(m, i, j)].id
                      /\ t[m].pinned = s[From(m, i, j)].pinned /\ t[m].order = m - 1
    OBVIOUS
  <2>1. m - 1 \in 0..NoOrder
    BY <1>0 DEF NoOrder
  <2>2. t[m] = [s[From(m, i, j)] EXCEPT !.order = m - 1]
    BY <1>3
  <2> QED
    BY <1>1, <2>1, <2>2 DEF EntryType
<1>5. DOMAIN t = 1..n
  BY <1>3
<1>6. t \in Seq(EntryType) /\ Len(t) = n
  <2>1. t \in [1..n -> EntryType]
    BY <1>3, <1>4, <1>5
  <2> QED
    BY <1>0, <2>1, IsASeq, LenProperties
<1>7. UniqueIds(t)
  <2> SUFFICES ASSUME NEW a \in 1..n, NEW b \in 1..n, t[a].id = t[b].id PROVE a = b
    BY <1>5 DEF UniqueIds
  <2>1. From(a, i, j) = From(b, i, j)
    <3>1. s[From(a, i, j)].id = s[From(b, i, j)].id
      BY <1>4
    <3>2. From(a, i, j) \in DOMAIN s /\ From(b, i, j) \in DOMAIN s
      BY <1>0, <1>1
    <3> QED
      BY <3>1, <3>2 DEF UniqueIds
  <2> QED
    BY <1>0, <2>1 DEF From
<1> QED
  BY <1>0, <1>1, <1>4, <1>6, <1>7 DEF t

\* Once every session has its place as its order, the pinned ones are shown in the order of
\* the list, and then the others.
LEMMA BeforeRestamped ==
  ASSUME NEW s \in Seq(EntryType), UniqueIds(s), Len(s) <= MaxSessions, NEW i \in DOMAIN s, NEW j \in DOMAIN s,
         NEW a \in DOMAIN s, NEW b \in DOMAIN s, Before(Restamped(s, i, j), a, b),
         Display(s) = Ids(s), a # j, b # j
  PROVE  From(a, i, j) < From(b, i, j)
<1> DEFINE t == Restamped(s, i, j)
           fa == From(a, i, j)
           fb == From(b, i, j)
<1>0. Len(s) \in Nat /\ DOMAIN s = 1..Len(s)
  BY LenProperties
<1>1. /\ fa \in DOMAIN s /\ fb \in DOMAIN s
      /\ t[a].pinned = s[fa].pinned /\ t[b].pinned = s[fb].pinned /\ t[a].order = a - 1 /\ t[b].order = b - 1
  <2>1. ASSUME NEW m \in DOMAIN s
        PROVE  /\ From(m, i, j) \in DOMAIN s
               /\ Restamped(s, i, j)[m].pinned = s[From(m, i, j)].pinned /\ Restamped(s, i, j)[m].order = m - 1
    <3> HIDE DEF t, fa, fb
    <3> QED
      BY RestampedIs
  <2> QED
    BY <2>1
<1> HIDE DEF t
<1>5. a # b
  <2>1. UniqueIds(t) /\ t \in Seq(EntryType) /\ DOMAIN t = DOMAIN s
    BY <1>0, RestampedIs, LenProperties DEF t
  <2>2. <<a, b>> \in BeforeOf(t)
    BY <2>1, BeforeOrders DEF t
  <2>3. <<a, a>> \notin BeforeOf(t)
    BY <2>1, BeforeOrders DEF Orders
  <2> QED
    BY <2>2, <2>3
<1>2. fa # fb
  BY <1>0, <1>5, FromFacts
<1>3. CASE a < b
  BY <1>0, <1>3, FromFacts
<1>4. CASE ~(a < b)
  <2>1. s[fa].pinned /\ ~s[fb].pinned
    <3>1. ~(a - 1 < b - 1) /\ a - 1 # b - 1
      BY <1>0, <1>4, <1>5
    <3>2. Before(t, a, b)
      BY DEF t
    <3>3. t[a].pinned /\ ~t[b].pinned
      BY <1>1, <3>1, <3>2 DEF Before
    <3> QED
      BY <1>1, <3>3
  <2>2. CASE fb < fa
    <3>1. Before(s, fb, fa)
      BY <1>1, <2>2, ShownInOrder
    <3> QED
      BY <2>1, <3>1 DEF Before
  <2> QED
    BY <1>0, <1>1, <1>2, <2>2
<1> QED
  BY <1>3, <1>4

LEMMA DragLeavesOthers ==
  ASSUME NEW s \in Seq(EntryType), UniqueIds(s), Len(s) <= MaxSessions, NEW i \in DOMAIN s, NEW j \in DOMAIN s,
         Display(s) = Ids(s)
  PROVE  Others(Display(Restamped(s, i, j)), s[i].id) = Others(Display(s), s[i].id)
<1> DEFINE n == Len(s)
           t == Restamped(s, i, j)
           u == s[i].id
<1>0. n \in Nat /\ DOMAIN s = 1..n /\ i \in 1..n /\ j \in 1..n
  BY LenProperties
<1>1. t \in Seq(EntryType) /\ Len(t) = n /\ DOMAIN t = 1..n /\ UniqueIds(t)
  BY <1>0, RestampedIs, LenProperties
<1>2. \A m \in 1..n : From(m, i, j) \in 1..n /\ t[m].id = s[From(m, i, j)].id
  <2> SUFFICES ASSUME NEW m \in DOMAIN s PROVE From(m, i, j) \in 1..n /\ t[m].id = s[From(m, i, j)].id
    BY <1>0
  <2> QED
    BY <1>0, RestampedIs
<1> HIDE DEF t
<1>3. PICK at : /\ Enumerates(at, n, 1..n, BeforeOf(t))
                /\ DOMAIN Display(t) = 1..n
                /\ \A m \in 1..n : Display(t)[m] = t[at[m]].id
  BY <1>1, DisplayIs
<1>4. \A m \in 1..n : at[m] \in 1..n
  BY <1>3 DEF Enumerates
<1>5. \A m \in 1..n : t[m].id = u <=> m = j
  <2> SUFFICES ASSUME NEW m \in 1..n PROVE t[m].id = u <=> m = j
    OBVIOUS
  <2>1. From(m, i, j) = i <=> m = j
    BY <1>0 DEF From
  <2> QED
    BY <1>0, <1>2, <2>1 DEF UniqueIds
<1> DEFINE K == {m \in DOMAIN Display(t) : Display(t)[m] # u}
           q == Cardinality(K)
<1>6. K \subseteq 1..n /\ \A m \in 1..n : m \in K <=> at[m] # j
  BY <1>3, <1>4, <1>5
<1> HIDE DEF K
<1>7. q \in Nat
  BY <1>0, <1>6, PickedIs
<1>8. PICK c : Ascends(c, q, K) /\ Picked(Display(t), K) = Draw(Display(t), c, q)
  BY <1>0, <1>6, PickedIs
<1> HIDE DEF q
<1> DEFINE g == [m \in 1..q |-> From(at[c[m]], i, j)]
           L == {m \in DOMAIN Ids(s) : Ids(s)[m] # u}
<1>9. \A m \in 1..q : c[m] \in K /\ c[m] \in 1..n /\ at[c[m]] \in 1..n /\ at[c[m]] # j
  BY <1>4, <1>6, <1>8 DEF Ascends
<1>10. \A m \in 1..n : m \in L <=> m # i
  BY <1>0 DEF Ids, UniqueIds
<1>11. L \subseteq 1..n
  BY <1>0 DEF Ids
<1> HIDE DEF L
<1>12. g \in [1..q -> L]
  <2> SUFFICES ASSUME NEW m \in 1..q PROVE From(at[c[m]], i, j) \in L
    OBVIOUS
  <2>1. From(at[c[m]], i, j) \in 1..n /\ From(at[c[m]], i, j) # i
    <3>1. PICK y \in 1..n : y = at[c[m]] /\ y # j
      BY <1>9
    <3>0. n \in Nat /\ i \in 1..n /\ j \in 1..n /\ y \in 1..n
      BY <1>0
    <3> HIDE DEF n, g, u
    <3>2. From(y, i, j) \in 1..n /\ (From(y, i, j) = i <=> y = j)
      BY <3>0 DEF From
    <3> QED
      BY <3>1, <3>2
  <2> QED
    BY <1>10, <2>1
<1>13. \A m, k \in 1..q : m < k => g[m] < g[k]
  <2> SUFFICES ASSUME NEW m \in 1..q, NEW k \in 1..q, m < k PROVE From(at[c[m]], i, j) < From(at[c[k]], i, j)
    OBVIOUS
  <2>1. c[m] < c[k]
    BY <1>8 DEF Ascends
  <2>2. <<at[c[m]], at[c[k]]>> \in BeforeOf(t)
    BY <1>3, <1>9, <2>1 DEF Enumerates
  <2>3. Before(t, at[c[m]], at[c[k]])
    BY <1>1, <1>9, <2>2, BeforeOrders
  <2>4. /\ at[c[m]] \in DOMAIN s /\ at[c[m]] # j /\ at[c[k]] \in DOMAIN s /\ at[c[k]] # j
    BY <1>0, <1>9
  <2>5. Before(Restamped(s, i, j), at[c[m]], at[c[k]])
    BY <2>3 DEF t
  <2> HIDE DEF n, g, L
  <2> QED
    BY <2>4, <2>5, BeforeRestamped
<1>14. \A l \in L : \E m \in 1..q : g[m] = l
  <2> SUFFICES ASSUME NEW l \in L PROVE \E m \in 1..q : g[m] = l
    OBVIOUS
  <2>1. l \in 1..n /\ l # i
    BY <1>10, <1>11
  <2>2. PICK k \in 1..n : From(k, i, j) = l
    <3> HIDE DEF n
    <3> QED
      BY <1>0, <2>1, FromReaches
  <2>3. k # j
    BY <1>0, <2>1, <2>2, FromFacts
  <2>4. PICK h \in 1..n : at[h] = k
    BY <1>3 DEF Enumerates
  <2>5. h \in K
    BY <1>6, <2>3, <2>4
  <2>6. PICK m \in 1..q : c[m] = h
    BY <1>8, <2>5 DEF Ascends
  <2> QED
    BY <2>2, <2>4, <2>6
<1>15. Ascends(g, q, L)
  BY <1>12, <1>13, <1>14 DEF Ascends
<1> HIDE DEF g
<1>16. Picked(Ids(s), L) = Draw(Ids(s), g, q)
  BY <1>0, <1>7, <1>11, <1>15, PickedIsOnly
<1>17. Draw(Ids(s), g, q) = Draw(Display(t), c, q)
  <2> SUFFICES ASSUME NEW m \in 1..q PROVE Ids(s)[g[m]] = Display(t)[c[m]]
    BY DEF Draw
  <2>1. g[m] = From(at[c[m]], i, j) /\ g[m] \in 1..n
    BY <1>2, <1>9 DEF g
  <2>2. Ids(s)[g[m]] = s[g[m]].id
    BY <1>0, <2>1 DEF Ids
  <2>3. Display(t)[c[m]] = t[at[c[m]]].id
    BY <1>3, <1>9
  <2> QED
    BY <1>2, <1>9, <2>1, <2>2, <2>3
<1>18. Others(Display(t), u) = Picked(Display(t), K) /\ Others(Ids(s), u) = Picked(Ids(s), L)
  BY DEF Others, K, L
<1> QED
  BY <1>8, <1>16, <1>17, <1>18 DEF t

-----------------------------------------------------------------------------
(* The sidebars: types. Each list has one item for each path or id, and    *)
(* every agent that is named anywhere has a handle, which is never given   *)
(* up (Grows). One agent is started at a time (Alone), and there is room   *)
(* for it (Room).                                                          *)

UserSteps ==
  \/ \E p \in Paths : AddRoot(p) \/ RemoveRoot(p) \/ PinRoot(p)
  \/ StartAgent
  \/ \E i \in 1..MaxSessions : StopAgent(i) \/ Pin(i) \/ AgentGone(i) \/ \E j \in 1..MaxSessions : Drag(i, j)

\* Which steps change what.
LEMMA HydrationLeaves ==
  ASSUME NEW h \in hydrates
  PROVE  /\ Load(h) \/ Answer(h) \/ HydrationFails(h) =>
              UNCHANGED <<roots, stored, sel, list, registry, handles, disk, calls, replies, hydrated, gestures, overtaken>>
         /\ Revive(h) => UNCHANGED <<roots, stored, sel, list, registry, disk, calls, replies, hydrated, gestures>>
         /\ Arrive(h) => UNCHANGED <<sel, registry, handles, disk, calls, replies, gestures>>
<1> USE DEF browser, backend
<1>1. Load(h) \/ HydrationFails(h) =>
        UNCHANGED <<roots, stored, sel, list, registry, handles, disk, calls, replies, hydrated, gestures, overtaken>>
  BY DEF Load, HydrationFails
<1>2. Answer(h) =>
        UNCHANGED <<roots, stored, sel, list, registry, handles, disk, calls, replies, hydrated, gestures, overtaken>>
  BY DEF Answer
<1>3. Revive(h) => UNCHANGED <<roots, stored, sel, list, registry, disk, calls, replies, hydrated, gestures>>
  BY DEF Revive
<1>4. Arrive(h) => UNCHANGED <<sel, registry, handles, disk, calls, replies, gestures>>
  BY DEF Arrive
<1> QED
  BY <1>1, <1>2, <1>3, <1>4

LEMMA HandlesChange ==
  ASSUME SidebarNext
  PROVE  \/ UNCHANGED handles
         \/ \E c \in calls : CreateSession(c) \/ StopSession(c) \/ PinSession(c) \/ PlaceSession(c)
         \/ \E i \in 1..MaxSessions : Exit(i)
         \/ \E h \in hydrates : Revive(h)
<1> USE DEF browser, backend, SetRoots
<1>1. CASE \E p \in Paths : AddRoot(p) \/ Select(p) \/ RemoveRoot(p) \/ PinRoot(p) \/ \E q \in Paths : DragRoot(p, q)
  BY <1>1 DEF AddRoot, Select, RemoveRoot, PinRoot, DragRoot, Gesture
<1>2. CASE StartAgent
  BY <1>2 DEF StartAgent, Gesture
<1>3. CASE \E i \in 1..MaxSessions : StopAgent(i) \/ Pin(i) \/ AgentGone(i) \/ Exit(i) \/ \E j \in 1..MaxSessions : Drag(i, j)
  BY <1>3 DEF StopAgent, Pin, AgentGone, Drag, Gesture
<1>4. CASE \E c \in calls : Register(c) \/ RemoveWorkspace(c) \/ Configure(c) \/ Lost(c)
       \/ CreateSession(c) \/ StopSession(c) \/ PinSession(c) \/ PlaceSession(c)
       \/ Collect(c) \/ SaveAgents(c)
  BY <1>4 DEF Register, RemoveWorkspace, Configure, Lost, Applied, Collect, SaveAgents
<1>5. CASE (\E c \in replies : Receive(c)) \/ Reconnect \/ Reload
  BY <1>5 DEF Receive, RegisterReply, CreateReply, StopReply, Reconnect, Reload
<1>6. CASE \E h \in hydrates : Load(h) \/ Revive(h) \/ Answer(h) \/ Arrive(h) \/ HydrationFails(h)
  BY <1>6, HydrationLeaves
<1> QED
  BY <1>1, <1>2, <1>3, <1>4, <1>5, <1>6 DEF SidebarNext

LEMMA RootsChange ==
  ASSUME SidebarNext
  PROVE  \/ UNCHANGED <<roots, stored>>
         \/ \E p \in Paths : AddRoot(p) \/ RemoveRoot(p) \/ PinRoot(p) \/ \E q \in Paths : DragRoot(p, q)
         \/ \E h \in hydrates : Arrive(h)
         \/ Reload
<1> USE DEF browser, backend, SetRoots
<1>1. CASE \E p \in Paths : AddRoot(p) \/ Select(p) \/ RemoveRoot(p) \/ PinRoot(p) \/ \E q \in Paths : DragRoot(p, q)
  BY <1>1 DEF Select, Gesture
<1>2. CASE StartAgent
  BY <1>2 DEF StartAgent, Gesture
<1>3. CASE \E i \in 1..MaxSessions : StopAgent(i) \/ Pin(i) \/ AgentGone(i) \/ Exit(i) \/ \E j \in 1..MaxSessions : Drag(i, j)
  BY <1>3 DEF StopAgent, Pin, AgentGone, Exit, Drag, Gesture
<1>4. CASE \E c \in calls : Register(c) \/ RemoveWorkspace(c) \/ Configure(c) \/ Lost(c)
       \/ CreateSession(c) \/ StopSession(c) \/ PinSession(c) \/ PlaceSession(c)
       \/ Collect(c) \/ SaveAgents(c)
  BY <1>4 DEF Register, RemoveWorkspace, Configure, Lost, CreateSession, StopSession, PinSession, PlaceSession, Applied, Collect, SaveAgents
<1>5. CASE (\E c \in replies : Receive(c)) \/ Reconnect \/ Reload
  BY <1>5 DEF Receive, RegisterReply, CreateReply, StopReply, Reconnect
<1>6. CASE \E h \in hydrates : Load(h) \/ Revive(h) \/ Answer(h) \/ Arrive(h) \/ HydrationFails(h)
  BY <1>6, HydrationLeaves
<1> QED
  BY <1>1, <1>2, <1>3, <1>4, <1>5, <1>6 DEF SidebarNext

LEMMA SelChange ==
  ASSUME SidebarNext
  PROVE  \/ UNCHANGED sel
         \/ \E p \in Paths : AddRoot(p) \/ Select(p) \/ RemoveRoot(p)
         \/ \E c \in replies : Receive(c)
         \/ Reload
<1> USE DEF browser, backend, SetRoots
<1>1. CASE \E p \in Paths : AddRoot(p) \/ Select(p) \/ RemoveRoot(p) \/ PinRoot(p) \/ \E q \in Paths : DragRoot(p, q)
  BY <1>1 DEF PinRoot, DragRoot, Gesture
<1>2. CASE StartAgent
  BY <1>2 DEF StartAgent, Gesture
<1>3. CASE \E i \in 1..MaxSessions : StopAgent(i) \/ Pin(i) \/ AgentGone(i) \/ Exit(i) \/ \E j \in 1..MaxSessions : Drag(i, j)
  BY <1>3 DEF StopAgent, Pin, AgentGone, Exit, Drag, Gesture
<1>4. CASE \E c \in calls : Register(c) \/ RemoveWorkspace(c) \/ Configure(c) \/ Lost(c)
       \/ CreateSession(c) \/ StopSession(c) \/ PinSession(c) \/ PlaceSession(c)
       \/ Collect(c) \/ SaveAgents(c)
  BY <1>4 DEF Register, RemoveWorkspace, Configure, Lost, CreateSession, StopSession, PinSession, PlaceSession, Applied, Collect, SaveAgents
<1>5. CASE (\E c \in replies : Receive(c)) \/ Reconnect \/ Reload
  BY <1>5 DEF Reconnect
<1>6. CASE \E h \in hydrates : Load(h) \/ Revive(h) \/ Answer(h) \/ Arrive(h) \/ HydrationFails(h)
  BY <1>6, HydrationLeaves
<1> QED
  BY <1>1, <1>2, <1>3, <1>4, <1>5, <1>6 DEF SidebarNext

LEMMA ListChange ==
  ASSUME SidebarNext
  PROVE  \/ UNCHANGED list
         \/ \E i \in 1..MaxSessions : Pin(i) \/ AgentGone(i) \/ \E j \in 1..MaxSessions : Drag(i, j)
         \/ \E c \in replies : Receive(c)
         \/ \E h \in hydrates : Arrive(h)
         \/ Reload
<1> USE DEF browser, backend, SetRoots
<1>1. CASE \E p \in Paths : AddRoot(p) \/ Select(p) \/ RemoveRoot(p) \/ PinRoot(p) \/ \E q \in Paths : DragRoot(p, q)
  BY <1>1 DEF AddRoot, Select, RemoveRoot, PinRoot, DragRoot, Gesture
<1>2. CASE StartAgent
  BY <1>2 DEF StartAgent, Gesture
<1>3. CASE \E i \in 1..MaxSessions : StopAgent(i) \/ Pin(i) \/ AgentGone(i) \/ Exit(i) \/ \E j \in 1..MaxSessions : Drag(i, j)
  BY <1>3 DEF StopAgent, Exit, Gesture
<1>4. CASE \E c \in calls : Register(c) \/ RemoveWorkspace(c) \/ Configure(c) \/ Lost(c)
       \/ CreateSession(c) \/ StopSession(c) \/ PinSession(c) \/ PlaceSession(c)
       \/ Collect(c) \/ SaveAgents(c)
  BY <1>4 DEF Register, RemoveWorkspace, Configure, Lost, CreateSession, StopSession, PinSession, PlaceSession, Applied, Collect, SaveAgents
<1>5. CASE (\E c \in replies : Receive(c)) \/ Reconnect \/ Reload
  BY <1>5 DEF Reconnect
<1>6. CASE \E h \in hydrates : Load(h) \/ Revive(h) \/ Answer(h) \/ Arrive(h) \/ HydrationFails(h)
  BY <1>6, HydrationLeaves
<1> QED
  BY <1>1, <1>2, <1>3, <1>4, <1>5, <1>6 DEF SidebarNext

LEMMA RegistryChange ==
  ASSUME SidebarNext
  PROVE  \/ UNCHANGED registry
         \/ \E c \in calls : Register(c) \/ RemoveWorkspace(c) \/ Configure(c) \/ SaveAgents(c)
<1> USE DEF browser, backend, SetRoots
<1>1. CASE \E p \in Paths : AddRoot(p) \/ Select(p) \/ RemoveRoot(p) \/ PinRoot(p) \/ \E q \in Paths : DragRoot(p, q)
  BY <1>1 DEF AddRoot, Select, RemoveRoot, PinRoot, DragRoot, Gesture
<1>2. CASE StartAgent
  BY <1>2 DEF StartAgent, Gesture
<1>3. CASE \E i \in 1..MaxSessions : StopAgent(i) \/ Pin(i) \/ AgentGone(i) \/ Exit(i) \/ \E j \in 1..MaxSessions : Drag(i, j)
  BY <1>3 DEF StopAgent, Pin, AgentGone, Exit, Drag, Gesture
<1>4. CASE \E c \in calls : Register(c) \/ RemoveWorkspace(c) \/ Configure(c) \/ Lost(c)
       \/ CreateSession(c) \/ StopSession(c) \/ PinSession(c) \/ PlaceSession(c)
       \/ Collect(c) \/ SaveAgents(c)
  BY <1>4 DEF Lost, CreateSession, StopSession, PinSession, PlaceSession, Applied, Collect
<1>5. CASE (\E c \in replies : Receive(c)) \/ Reconnect \/ Reload
  BY <1>5 DEF Receive, RegisterReply, CreateReply, StopReply, Reconnect, Reload
<1>6. CASE \E h \in hydrates : Load(h) \/ Revive(h) \/ Answer(h) \/ Arrive(h) \/ HydrationFails(h)
  BY <1>6, HydrationLeaves
<1> QED
  BY <1>1, <1>2, <1>3, <1>4, <1>5, <1>6 DEF SidebarNext

LEMMA DiskChange ==
  ASSUME SidebarNext
  PROVE  \/ UNCHANGED disk
         \/ \E c \in calls : RemoveWorkspace(c) \/ SaveAgents(c)
<1> USE DEF browser, backend, SetRoots
<1>1. CASE \E p \in Paths : AddRoot(p) \/ Select(p) \/ RemoveRoot(p) \/ PinRoot(p) \/ \E q \in Paths : DragRoot(p, q)
  BY <1>1 DEF AddRoot, Select, RemoveRoot, PinRoot, DragRoot, Gesture
<1>2. CASE StartAgent
  BY <1>2 DEF StartAgent, Gesture
<1>3. CASE \E i \in 1..MaxSessions : StopAgent(i) \/ Pin(i) \/ AgentGone(i) \/ Exit(i) \/ \E j \in 1..MaxSessions : Drag(i, j)
  BY <1>3 DEF StopAgent, Pin, AgentGone, Exit, Drag, Gesture
<1>4. CASE \E c \in calls : Register(c) \/ RemoveWorkspace(c) \/ Configure(c) \/ Lost(c)
       \/ CreateSession(c) \/ StopSession(c) \/ PinSession(c) \/ PlaceSession(c)
       \/ Collect(c) \/ SaveAgents(c)
  BY <1>4 DEF Register, Configure, Lost, CreateSession, StopSession, PinSession, PlaceSession, Applied, Collect
<1>5. CASE (\E c \in replies : Receive(c)) \/ Reconnect \/ Reload
  BY <1>5 DEF Receive, RegisterReply, CreateReply, StopReply, Reconnect, Reload
<1>6. CASE \E h \in hydrates : Load(h) \/ Revive(h) \/ Answer(h) \/ Arrive(h) \/ HydrationFails(h)
  BY <1>6, HydrationLeaves
<1> QED
  BY <1>1, <1>2, <1>3, <1>4, <1>5, <1>6 DEF SidebarNext

LEMMA RepliesChange ==
  ASSUME SidebarNext
  PROVE  \/ UNCHANGED replies
         \/ \E c \in calls : Register(c) \/ SaveAgents(c)
         \/ \E c \in replies : Receive(c)
         \/ Reload
<1> USE DEF browser, backend, SetRoots
<1>1. CASE \E p \in Paths : AddRoot(p) \/ Select(p) \/ RemoveRoot(p) \/ PinRoot(p) \/ \E q \in Paths : DragRoot(p, q)
  BY <1>1 DEF AddRoot, Select, RemoveRoot, PinRoot, DragRoot, Gesture
<1>2. CASE StartAgent
  BY <1>2 DEF StartAgent, Gesture
<1>3. CASE \E i \in 1..MaxSessions : StopAgent(i) \/ Pin(i) \/ AgentGone(i) \/ Exit(i) \/ \E j \in 1..MaxSessions : Drag(i, j)
  BY <1>3 DEF StopAgent, Pin, AgentGone, Exit, Drag, Gesture
<1>4. CASE \E c \in calls : Register(c) \/ RemoveWorkspace(c) \/ Configure(c) \/ Lost(c)
       \/ CreateSession(c) \/ StopSession(c) \/ PinSession(c) \/ PlaceSession(c)
       \/ Collect(c) \/ SaveAgents(c)
  BY <1>4 DEF RemoveWorkspace, Configure, Lost, CreateSession, StopSession, PinSession, PlaceSession, Applied, Collect
<1>5. CASE (\E c \in replies : Receive(c)) \/ Reconnect \/ Reload
  BY <1>5 DEF Reconnect
<1>6. CASE \E h \in hydrates : Load(h) \/ Revive(h) \/ Answer(h) \/ Arrive(h) \/ HydrationFails(h)
  BY <1>6, HydrationLeaves
<1> QED
  BY <1>1, <1>2, <1>3, <1>4, <1>5, <1>6 DEF SidebarNext

LEMMA CallsChange ==
  ASSUME SidebarNext
  PROVE  \/ UNCHANGED calls
         \/ UserSteps
         \/ \E c \in calls : Register(c) \/ RemoveWorkspace(c) \/ Configure(c) \/ Lost(c) \/ SaveAgents(c)
         \/ \E c \in calls : CreateSession(c) \/ StopSession(c) \/ PinSession(c) \/ PlaceSession(c)
         \/ \E c \in calls : Collect(c)
         \/ Reload
<1> USE DEF browser, backend, SetRoots, UserSteps
<1>1. CASE \E p \in Paths : AddRoot(p) \/ Select(p) \/ RemoveRoot(p) \/ PinRoot(p) \/ \E q \in Paths : DragRoot(p, q)
  BY <1>1 DEF Select, DragRoot, Gesture
<1>2. CASE StartAgent
  BY <1>2 DEF Gesture
<1>3. CASE \E i \in 1..MaxSessions : StopAgent(i) \/ Pin(i) \/ AgentGone(i) \/ Exit(i) \/ \E j \in 1..MaxSessions : Drag(i, j)
  BY <1>3 DEF Exit, Gesture
<1>4. CASE \E c \in calls : Register(c) \/ RemoveWorkspace(c) \/ Configure(c) \/ Lost(c)
       \/ CreateSession(c) \/ StopSession(c) \/ PinSession(c) \/ PlaceSession(c)
       \/ Collect(c) \/ SaveAgents(c)
  BY <1>4
<1>5. CASE (\E c \in replies : Receive(c)) \/ Reconnect \/ Reload
  BY <1>5 DEF Receive, RegisterReply, CreateReply, StopReply, Reconnect
<1>6. CASE \E h \in hydrates : Load(h) \/ Revive(h) \/ Answer(h) \/ Arrive(h) \/ HydrationFails(h)
  BY <1>6, HydrationLeaves
<1> QED
  BY <1>1, <1>2, <1>3, <1>4, <1>5, <1>6 DEF SidebarNext

LEMMA HydratesChange ==
  ASSUME SidebarNext
  PROVE  \/ UNCHANGED <<hydrates, registry, handles, disk>> /\ (calls' \subseteq calls \/ \E c \in calls : Collect(c))
         \/ hydrates' = Missed
         \/ \E i \in 1..MaxSessions : Exit(i)
         \/ \E h \in hydrates : Load(h) \/ Revive(h) \/ Answer(h) \/ Arrive(h) \/ HydrationFails(h)
         \/ Reconnect
         \/ Reload
<1> USE DEF browser, backend, SetRoots, Send
<1>1. CASE \E p \in Paths : AddRoot(p) \/ Select(p) \/ RemoveRoot(p) \/ PinRoot(p) \/ \E q \in Paths : DragRoot(p, q)
  BY <1>1 DEF AddRoot, Select, RemoveRoot, PinRoot, DragRoot, Gesture
<1>2. CASE StartAgent
  BY <1>2 DEF StartAgent, Gesture
<1>3. CASE \E i \in 1..MaxSessions : StopAgent(i) \/ Pin(i) \/ AgentGone(i) \/ Exit(i) \/ \E j \in 1..MaxSessions : Drag(i, j)
  BY <1>3 DEF StopAgent, Pin, AgentGone, Exit, Drag, Gesture
<1>4. CASE \E c \in calls : Register(c) \/ RemoveWorkspace(c) \/ Configure(c) \/ Lost(c)
       \/ CreateSession(c) \/ StopSession(c) \/ PinSession(c) \/ PlaceSession(c)
       \/ Collect(c) \/ SaveAgents(c)
  <2>1. CASE \E c \in calls : Lost(c) \/ Collect(c)
    BY <2>1 DEF Lost, Collect
  <2>2. CASE \E c \in calls : Register(c) \/ RemoveWorkspace(c) \/ Configure(c) \/ SaveAgents(c)
    BY <2>2 DEF Register, RemoveWorkspace, Configure, SaveAgents
  <2>3. CASE \E c \in calls : CreateSession(c) \/ StopSession(c) \/ PinSession(c) \/ PlaceSession(c)
    BY <2>3 DEF CreateSession, StopSession, PinSession, PlaceSession, Applied
  <2> QED
    BY <1>4, <2>1, <2>2, <2>3
<1>5. CASE (\E c \in replies : Receive(c)) \/ Reconnect \/ Reload
  BY <1>5 DEF Receive, RegisterReply, CreateReply, StopReply
<1>6. CASE \E h \in hydrates : Load(h) \/ Revive(h) \/ Answer(h) \/ Arrive(h) \/ HydrationFails(h)
  BY <1>6
<1> QED
  BY <1>1, <1>2, <1>3, <1>4, <1>5, <1>6 DEF SidebarNext

LEMMA HydratedChange ==
  ASSUME SidebarNext
  PROVE  \/ UNCHANGED hydrated
         \/ \E h \in hydrates : Arrive(h)
         \/ Reload
<1> USE DEF browser, backend, SetRoots
<1>1. CASE \E p \in Paths : AddRoot(p) \/ Select(p) \/ RemoveRoot(p) \/ PinRoot(p) \/ \E q \in Paths : DragRoot(p, q)
  BY <1>1 DEF AddRoot, Select, RemoveRoot, PinRoot, DragRoot, Gesture
<1>2. CASE StartAgent
  BY <1>2 DEF StartAgent, Gesture
<1>3. CASE \E i \in 1..MaxSessions : StopAgent(i) \/ Pin(i) \/ AgentGone(i) \/ Exit(i) \/ \E j \in 1..MaxSessions : Drag(i, j)
  BY <1>3 DEF StopAgent, Pin, AgentGone, Exit, Drag, Gesture
<1>4. CASE \E c \in calls : Register(c) \/ RemoveWorkspace(c) \/ Configure(c) \/ Lost(c)
       \/ CreateSession(c) \/ StopSession(c) \/ PinSession(c) \/ PlaceSession(c)
       \/ Collect(c) \/ SaveAgents(c)
  BY <1>4 DEF Register, RemoveWorkspace, Configure, Lost, CreateSession, StopSession, PinSession, PlaceSession, Applied, Collect, SaveAgents
<1>5. CASE (\E c \in replies : Receive(c)) \/ Reconnect \/ Reload
  BY <1>5 DEF Receive, RegisterReply, CreateReply, StopReply, Reconnect
<1>6. CASE \E h \in hydrates : Load(h) \/ Revive(h) \/ Answer(h) \/ Arrive(h) \/ HydrationFails(h)
  BY <1>6, HydrationLeaves
<1> QED
  BY <1>1, <1>2, <1>3, <1>4, <1>5, <1>6 DEF SidebarNext

\* Nothing un-does what was lost or overtaken.
LEMMA OvertakenStays ==
  ASSUME SidebarNext, overtaken
  PROVE  overtaken'
<1> USE DEF Send
<1>1. CASE \E p \in Paths : AddRoot(p) \/ Select(p) \/ RemoveRoot(p) \/ PinRoot(p) \/ \E q \in Paths : DragRoot(p, q)
  <2> PICK p \in Paths : AddRoot(p) \/ Select(p) \/ RemoveRoot(p) \/ PinRoot(p) \/ \E q \in Paths : DragRoot(p, q)
    BY <1>1
  <2>1. CASE AddRoot(p) \/ RemoveRoot(p)
    BY <2>1 DEF AddRoot, RemoveRoot
  <2>2. CASE Select(p) \/ \E q \in Paths : DragRoot(p, q)
    BY <2>2 DEF Select, DragRoot
  <2>3. CASE PinRoot(p)
    BY <2>3 DEF PinRoot
  <2> QED
    BY <2>1, <2>2, <2>3
<1>2. CASE StartAgent
  BY <1>2 DEF StartAgent
<1>3. CASE \E i \in 1..MaxSessions : StopAgent(i) \/ Pin(i) \/ AgentGone(i) \/ Exit(i) \/ \E j \in 1..MaxSessions : Drag(i, j)
  <2> PICK i \in 1..MaxSessions : StopAgent(i) \/ Pin(i) \/ AgentGone(i) \/ Exit(i) \/ \E j \in 1..MaxSessions : Drag(i, j)
    BY <1>3
  <2>1. CASE StopAgent(i) \/ AgentGone(i)
    BY <2>1 DEF StopAgent, AgentGone
  <2>2. CASE Pin(i)
    BY <2>2 DEF Pin
  <2>3. CASE Exit(i)
    BY <2>3 DEF Exit
  <2>4. CASE \E j \in 1..MaxSessions : Drag(i, j)
    BY <2>4 DEF Drag
  <2> QED
    BY <2>1, <2>2, <2>3, <2>4
<1>4. CASE \E c \in calls : Register(c) \/ RemoveWorkspace(c) \/ Configure(c) \/ Lost(c)
       \/ CreateSession(c) \/ StopSession(c) \/ PinSession(c) \/ PlaceSession(c)
       \/ Collect(c) \/ SaveAgents(c)
  <2> PICK c \in calls : Register(c) \/ RemoveWorkspace(c) \/ Configure(c) \/ Lost(c)
       \/ CreateSession(c) \/ StopSession(c) \/ PinSession(c) \/ PlaceSession(c)
       \/ Collect(c) \/ SaveAgents(c)
    BY <1>4
  <2>1. CASE Register(c) \/ RemoveWorkspace(c) \/ Lost(c) \/ Collect(c)
    BY <2>1 DEF Register, RemoveWorkspace, Lost, Collect
  <2>2. CASE Configure(c)
    BY <2>2 DEF Configure
  <2>3. CASE CreateSession(c) \/ StopSession(c) \/ PinSession(c) \/ PlaceSession(c)
    BY <2>3 DEF CreateSession, StopSession, PinSession, PlaceSession, Applied
  <2>4. CASE SaveAgents(c)
    BY <2>4 DEF SaveAgents
  <2> QED
    BY <2>1, <2>2, <2>3, <2>4
<1>5. CASE \E c \in replies : Receive(c)
  BY <1>5 DEF Receive, RegisterReply, CreateReply, StopReply
<1>6. CASE Reconnect \/ Reload
  BY <1>6 DEF Reconnect, Reload
<1>7. CASE \E h \in hydrates : Load(h) \/ Revive(h) \/ Answer(h) \/ Arrive(h) \/ HydrationFails(h)
  BY <1>7, HydrationLeaves DEF Revive, Arrive
<1> QED
  BY <1>1, <1>2, <1>3, <1>4, <1>5, <1>6, <1>7 DEF SidebarNext

Agent == [live: BOOLEAN, pinned: BOOLEAN, order: 0..NoOrder]
Saved == [pinned: BOOLEAN, order: 0..NoOrder]
Root == [path: Paths, pinned: BOOLEAN, known: BOOLEAN]
Workspace == [path: Paths, pinned: BOOLEAN]
Collections == UNION {[S -> Saved] : S \in SUBSET (1..MaxSessions)}
OfRoots == {"register", "remove", "pinroot"}
CallType ==
  [to: OfRoots \cup Saving, path: Paths \cup {NoPath}, id: 0..MaxSessions, pinned: BOOLEAN,
   order: 0..NoOrder, at: {"sent", "applied", "collected"}, snap: Collections, heard: BOOLEAN]

HandlesOk(h) == h \in Seq(Agent) /\ Len(h) <= MaxSessions

\* What was collected of agents.
SavedOk(s, h) == s \in Collections /\ DOMAIN s \subseteq DOMAIN h

CallOk(c, h) ==
  /\ c \in CallType
  /\ c.to \in OfRoots => c.path \in Paths /\ c.id = 0 /\ c.at = "sent"
  /\ c.to \in Saving => c.path = NoPath /\ (c.id = 0 <=> c.to = "create" /\ c.at = "sent")
  /\ c.id # 0 => c.id \in DOMAIN h
  /\ SavedOk(c.snap, h)

ReplyOk(c, h) ==
  CallOk(c, h) /\ c.heard /\ (c.to = "register" \/ (c.to \in {"create", "stop"} /\ c.at # "sent"))

ListOk(s, h) == s \in Seq(EntryType) /\ UniqueIds(s) /\ \A k \in DOMAIN s : s[k].id \in DOMAIN h

\* From g to h agents may be added.
Grows(g, h) == DOMAIN g \subseteq DOMAIN h

HydrateOk(r, h) ==
  /\ r \in [n: Nat, at: {"asked", "loaded", "revived", "answered"}, heard: BOOLEAN, stale: BOOLEAN, saved: Collections,
             roots: Seq(Root) \cup Seq(Workspace), list: Seq(EntryType)]
  /\ r.at \in {"loaded", "revived"} => r.roots \in Seq(Workspace)
  /\ r.at = "answered" => r.roots \in Seq(Root)
  /\ UniquePaths(r.roots) /\ SavedOk(r.saved, h) /\ ListOk(r.list, h)

LEMMA HandlesGrow ==
  ASSUME NEW g, NEW h, Grows(g, h)
  PROVE  /\ \A s : SavedOk(s, g) => SavedOk(s, h)
         /\ \A c : CallOk(c, g) => CallOk(c, h)
         /\ \A c : ReplyOk(c, g) => ReplyOk(c, h)
         /\ \A s : ListOk(s, g) => ListOk(s, h)
         /\ \A r : HydrateOk(r, g) => HydrateOk(r, h)
<1>1. \A s : SavedOk(s, g) => SavedOk(s, h)
  BY DEF Grows, SavedOk
<1>2. \A c : CallOk(c, g) => CallOk(c, h)
  BY <1>1 DEF Grows, CallOk, Saving
<1>3. \A s : ListOk(s, g) => ListOk(s, h)
  BY DEF Grows, ListOk
<1>4. \A r : HydrateOk(r, g) => HydrateOk(r, h)
  BY <1>1, <1>3 DEF HydrateOk
<1> QED
  BY <1>1, <1>2, <1>3, <1>4 DEF ReplyOk

RootsOk(s) == s \in Seq(Root) /\ UniquePaths(s) /\ PinnedFirst(s)
RegistryOk(s) == s \in Seq(Workspace) /\ UniquePaths(s)
SelType == [path: Paths \cup {NoPath}, known: BOOLEAN, blind: BOOLEAN]

\* There is room for the agent that is being started.
Room == \A c \in calls : c.to = "create" /\ c.at = "sent" => Len(handles) < MaxSessions
\* One agent is started at a time.
Alone ==
  /\ \A c, d \in calls : c.to = "create" /\ d.to = "create" => c = d
  /\ \A c, d \in replies : c.to = "create" /\ d.to = "create" => c = d
  /\ \A c \in calls, d \in replies : ~(c.to = "create" /\ d.to = "create")

SidebarTypes ==
  /\ RootsOk(roots) /\ RootsOk(stored) /\ sel \in SelType /\ ListOk(list, handles)
  /\ RegistryOk(registry) /\ HandlesOk(handles) /\ SavedOk(disk, handles)
  /\ \A c \in calls : CallOk(c, handles)
  /\ \A c \in replies : ReplyOk(c, handles)
  /\ \A h \in hydrates : HydrateOk(h, handles)
  /\ gestures \in Nat /\ hydrated \in BOOLEAN /\ overtaken \in BOOLEAN
  /\ Room /\ Alone

LEMMA HandlesStep ==
  ASSUME HandlesOk(handles), \A c \in calls : CallOk(c, handles), \A h \in hydrates : HydrateOk(h, handles), Room, SidebarNext
  PROVE  HandlesOk(handles') /\ Grows(handles, handles')
<1> USE SidebarAssumption DEF NoOrder
<1>0. /\ DOMAIN handles = 1..Len(handles) /\ Len(handles) \in Nat
      /\ \A i \in DOMAIN handles : handles[i] \in Agent
  BY LenProperties, ElementOfSeq DEF HandlesOk
<1>1. CASE UNCHANGED handles
  BY <1>1 DEF Grows
<1>2. CASE \E c \in calls : CreateSession(c)
  <2>1. Len(handles) < MaxSessions
    BY <1>2 DEF CreateSession, Arrived, Room
  <2> DEFINE new == [live |-> TRUE, pinned |-> FALSE, order |-> NoOrder]
  <2>2. new \in Agent
    BY DEF Agent
  <2>3. handles' = Append(handles, new)
    BY <1>2 DEF CreateSession
  <2>4. handles' \in Seq(Agent) /\ Len(handles') = Len(handles) + 1
    BY <2>2, <2>3 DEF HandlesOk
  <2>5. \A i \in DOMAIN handles : i \in DOMAIN handles' /\ handles'[i] = handles[i]
    BY <1>0, <2>2, <2>3 DEF HandlesOk
  <2> QED
    BY <1>0, <2>1, <2>4, <2>5 DEF HandlesOk, Grows
<1>3. ASSUME NEW i, NEW a \in Agent, handles' = [handles EXCEPT ![i] = a]
      PROVE  HandlesOk(handles') /\ Grows(handles, handles')
  <2>1. DOMAIN handles' = 1..Len(handles) /\ \A j \in DOMAIN handles : handles'[j] = IF j = i THEN a ELSE handles[j]
    BY <1>0, <1>3
  <2>2. handles' \in [1..Len(handles) -> Agent]
    BY <1>0, <1>3
  <2>3. handles' \in Seq(Agent) /\ Len(handles') = Len(handles)
    BY <1>0, <2>1, <2>2, IsASeq, LenProperties
  <2> QED
    BY <1>0, <1>3, <2>1, <2>3 DEF HandlesOk, Grows
<1>4. ASSUME NEW c \in calls, StopSession(c) \/ PinSession(c) \/ PlaceSession(c) PROVE c.id \in DOMAIN handles /\ c.order \in 0..NoOrder /\ c.pinned \in BOOLEAN
  <2>1. CallOk(c, handles) /\ c.at = "sent" /\ c.to \in {"stop", "pin", "place"}
    BY <1>4 DEF StopSession, PinSession, PlaceSession, Arrived
  <2> QED
    BY <2>1 DEF CallOk, CallType, Saving
<1>5. CASE \E c \in calls : StopSession(c)
  <2> PICK c \in calls : StopSession(c)
    BY <1>5
  <2>1. handles' = [handles EXCEPT ![c.id] = [@ EXCEPT !.live = FALSE]]
    BY DEF StopSession
  <2>2. [handles[c.id] EXCEPT !.live = FALSE] \in Agent
    BY <1>0, <1>4 DEF Agent
  <2> QED
    BY <1>0, <1>3, <1>4, <2>1, <2>2 DEF Agent
<1>6. CASE \E c \in calls : PinSession(c)
  <2> PICK c \in calls : PinSession(c)
    BY <1>6
  <2>1. handles' = [handles EXCEPT ![c.id] = [@ EXCEPT !.pinned = c.pinned]]
    BY DEF PinSession
  <2>2. [handles[c.id] EXCEPT !.pinned = c.pinned] \in Agent
    BY <1>0, <1>4 DEF Agent
  <2> QED
    BY <1>0, <1>3, <1>4, <2>1, <2>2 DEF Agent
<1>7. CASE \E c \in calls : PlaceSession(c)
  <2> PICK c \in calls : PlaceSession(c)
    BY <1>7
  <2>0. CASE c.order = NoOrder
    BY <1>1, <2>0 DEF PlaceSession
  <2>1. CASE c.order # NoOrder
    <3>1. handles' = [handles EXCEPT ![c.id] = [@ EXCEPT !.order = c.order]]
      BY <2>1 DEF PlaceSession
    <3>2. [handles[c.id] EXCEPT !.order = c.order] \in Agent
      BY <1>0, <1>4 DEF Agent
    <3> QED
      BY <1>0, <1>3, <1>4, <2>1, <3>1, <3>2 DEF Agent
  <2> QED
    BY <2>0, <2>1
<1>8. CASE \E i \in 1..MaxSessions : Exit(i)
  <2> PICK i \in 1..MaxSessions : Exit(i)
    BY <1>8
  <2>1. handles' = [handles EXCEPT ![i] = [@ EXCEPT !.live = FALSE]] /\ i \in DOMAIN handles
    BY DEF Exit, Live
  <2>2. [handles[i] EXCEPT !.live = FALSE] \in Agent
    BY <1>0, <2>1 DEF Agent
  <2> QED
    BY <1>0, <1>3, <2>1, <2>2 DEF Agent
<1>9. CASE \E h \in hydrates : Revive(h)
  <2> PICK h \in hydrates : Revive(h)
    BY <1>9
  <2>0. h.saved \in Collections
    BY DEF HydrateOk, SavedOk
  <2>1. \A i \in DOMAIN h.saved : h.saved[i] \in Saved
    <3>1. PICK S \in SUBSET 1..MaxSessions : h.saved \in [S -> Saved]
      BY <2>0 DEF Collections
    <3> QED
      BY <3>1
  <2>2. DOMAIN handles' = 1..Len(handles) /\ \A i \in DOMAIN handles : handles'[i] \in Agent
    BY <1>0, <2>1 DEF Revive, Agent, Saved
  <2>3. handles' \in [1..Len(handles) -> Agent]
    BY <1>0, <2>2 DEF Revive
  <2>4. handles' \in Seq(Agent) /\ Len(handles') = Len(handles)
    BY <1>0, <2>2, <2>3, IsASeq, LenProperties
  <2> QED
    BY <1>0, <2>2, <2>4 DEF HandlesOk, Grows
<1> QED
  BY <1>1, <1>2, <1>5, <1>6, <1>7, <1>8, <1>9, HandlesChange

LEMMA PlacesCounted ==
  ASSUME NEW n \in Nat
  PROVE  IsFiniteSet(1..n) /\ Cardinality(1..n) = n
BY FS_Interval

\* A list that is drawn from s has the items at the places in T.
LEMMA DrawnItems ==
  ASSUME NEW X, NEW s \in Seq(X), NEW T, T \subseteq DOMAIN s, NEW t, Drawn(t, s, T)
  PROVE  /\ t \in Seq(X) /\ ToSet(t) = {s[k] : k \in T}
         /\ UniqueIds(s) => UniqueIds(t)
         /\ UniquePaths(s) => UniquePaths(t)
BY DrawnKeeps DEF ToSet

LEMMA NormalizeItems ==
  ASSUME NEW X, NEW s \in Seq(X)
  PROVE  /\ Normalize(s) \in Seq(X) /\ ToSet(Normalize(s)) = ToSet(s)
         /\ PinnedFirst(Normalize(s))
         /\ UniqueIds(s) => UniqueIds(Normalize(s))
         /\ UniquePaths(s) => UniquePaths(Normalize(s))
<1>1. Drawn(Normalize(s), s, DOMAIN s) /\ PinnedFirst(Normalize(s))
  BY NormalizeFacts
<1>2. DOMAIN s \subseteq DOMAIN s
  OBVIOUS
<1>3. /\ Normalize(s) \in Seq(X) /\ ToSet(Normalize(s)) = {s[k] : k \in DOMAIN s}
      /\ UniqueIds(s) => UniqueIds(Normalize(s))
      /\ UniquePaths(s) => UniquePaths(Normalize(s))
  BY <1>1, <1>2, DrawnItems
<1> QED
  BY <1>1, <1>3 DEF ToSet

LEMMA PickedItems ==
  ASSUME NEW X, NEW s \in Seq(X), NEW T, T \subseteq DOMAIN s
  PROVE  /\ Picked(s, T) \in Seq(X) /\ ToSet(Picked(s, T)) = {s[k] : k \in T}
         /\ UniqueIds(s) => UniqueIds(Picked(s, T))
         /\ UniquePaths(s) => UniquePaths(Picked(s, T))
BY PickedDrawn, DrawnItems

\* What the changes of a list of agents make of it.
LEMMA ListItems ==
  ASSUME NEW h, NEW s, ListOk(s, h)
  PROVE  /\ s \in Seq(EntryType)
         /\ \A e \in ToSet(s) : e \in EntryType /\ e.id \in DOMAIN h
         /\ \A e, f \in ToSet(s) : e.id = f.id => e = f
<1>1. \A k \in DOMAIN s : s[k] \in EntryType
  BY ElementOfSeq, LenProperties DEF ListOk
<1> QED
  BY <1>1 DEF ListOk, ToSet, UniqueIds

LEMMA ListOfItems ==
  ASSUME NEW h, NEW s \in Seq(EntryType), UniqueIds(s), \A e \in ToSet(s) : e.id \in DOMAIN h
  PROVE  ListOk(s, h)
BY DEF ListOk, ToSet

LEMMA NormalizeList ==
  ASSUME NEW h, NEW s, ListOk(s, h)
  PROVE  ListOk(Normalize(s), h) /\ ToSet(Normalize(s)) = ToSet(s)
<1>1. s \in Seq(EntryType) /\ UniqueIds(s)
  BY DEF ListOk
<1>2. Normalize(s) \in Seq(EntryType) /\ ToSet(Normalize(s)) = ToSet(s) /\ UniqueIds(Normalize(s))
  BY <1>1, NormalizeItems
<1> QED
  BY <1>2, ListItems, ListOfItems

LEMMA WithoutList ==
  ASSUME NEW h, NEW s, ListOk(s, h), NEW i
  PROVE  ListOk(Without(s, i), h) /\ ToSet(Without(s, i)) = {e \in ToSet(s) : e.id # i}
<1> DEFINE T == {k \in DOMAIN s : s[k].id # i}
<1>1. s \in Seq(EntryType) /\ UniqueIds(s) /\ T \subseteq DOMAIN s
  BY DEF ListOk
<1>2. Without(s, i) \in Seq(EntryType) /\ ToSet(Without(s, i)) = {s[k] : k \in T} /\ UniqueIds(Without(s, i))
  BY <1>1, PickedItems DEF Without
<1>3. {s[k] : k \in T} = {e \in ToSet(s) : e.id # i}
  BY DEF ToSet
<1> QED
  BY <1>2, <1>3, ListItems, ListOfItems

LEMMA AppendList ==
  ASSUME NEW h, NEW s, ListOk(s, h), NEW e \in EntryType, e.id \in DOMAIN h, \A f \in ToSet(s) : f.id # e.id
  PROVE  ListOk(Append(s, e), h) /\ ToSet(Append(s, e)) = ToSet(s) \cup {e}
<1>1. s \in Seq(EntryType) /\ UniqueIds(s) /\ DOMAIN s = 1..Len(s) /\ Len(s) \in Nat
  BY LenProperties DEF ListOk
<1>2. Append(s, e) \in Seq(EntryType) /\ DOMAIN Append(s, e) = 1..(Len(s) + 1)
  BY <1>1
<1>3. \A k \in 1..(Len(s) + 1) : Append(s, e)[k] = IF k \in DOMAIN s THEN s[k] ELSE e
  BY <1>1
<1>4. ToSet(Append(s, e)) = ToSet(s) \cup {e}
  <2>1. Len(s) + 1 \in 1..(Len(s) + 1) /\ Len(s) + 1 \notin DOMAIN s /\ DOMAIN s \subseteq 1..(Len(s) + 1)
    BY <1>1
  <2> QED
    BY <1>2, <1>3, <2>1 DEF ToSet
<1>5. UniqueIds(Append(s, e))
  <2>1. \A k \in DOMAIN s : s[k].id # e.id
    BY DEF ToSet
  <2>2. \A k \in 1..(Len(s) + 1) : k \notin DOMAIN s => k = Len(s) + 1
    BY <1>1
  <2> QED
    BY <1>1, <1>2, <1>3, <2>1, <2>2 DEF UniqueIds
<1> QED
  BY <1>2, <1>4, <1>5, ListItems, ListOfItems

Replaced(s, k, e) == [s EXCEPT ![k] = e]

LEMMA ReplacedList ==
  ASSUME NEW h, NEW s, ListOk(s, h), NEW k \in DOMAIN s, NEW e \in EntryType, e.id = s[k].id
  PROVE  ListOk(Replaced(s, k, e), h) /\ ToSet(Replaced(s, k, e)) = {f \in ToSet(s) : f.id # s[k].id} \cup {e}
<1> DEFINE t == Replaced(s, k, e)
<1>1. s \in Seq(EntryType) /\ UniqueIds(s) /\ DOMAIN s = 1..Len(s) /\ Len(s) \in Nat /\ \A m \in DOMAIN s : s[m] \in EntryType
  BY LenProperties, ElementOfSeq DEF ListOk
<1>4. DOMAIN t = 1..Len(s) /\ \A m \in DOMAIN s : t[m] = IF m = k THEN e ELSE s[m]
  BY <1>1 DEF Replaced
<1>5. t \in Seq(EntryType)
  <2>1. t \in [1..Len(s) -> EntryType]
    BY <1>1 DEF Replaced
  <2> QED
    BY <1>1, <2>1, IsASeq
<1>6. ToSet(t) = {f \in ToSet(s) : f.id # s[k].id} \cup {e}
  BY <1>1, <1>4 DEF ToSet, UniqueIds
<1>7. UniqueIds(t)
  BY <1>1, <1>4 DEF UniqueIds
<1>8. \A f \in ToSet(t) : f.id \in DOMAIN h
  BY <1>6, ListItems DEF ToSet
<1> QED
  BY <1>5, <1>6, <1>7, <1>8, ListOfItems

\* A list holds no more agents than there are.
LEMMA ListFits ==
  ASSUME NEW h, HandlesOk(h), NEW s, ListOk(s, h)
  PROVE  Len(s) \in 0..MaxSessions
<1>1. /\ Len(s) \in Nat /\ DOMAIN s = 1..Len(s) /\ UniqueIds(s)
      /\ Len(h) \in Nat /\ DOMAIN h = 1..Len(h) /\ Len(h) <= MaxSessions
  BY LenProperties DEF ListOk, HandlesOk
<1>2. IsFiniteSet(1..Len(s)) /\ IsFiniteSet(1..Len(h)) /\ Cardinality(1..Len(s)) = Len(s) /\ Cardinality(1..Len(h)) = Len(h)
  BY <1>1, PlacesCounted
<1> DEFINE f == [k \in 1..Len(s) |-> s[k].id]
<1>3. f \in [1..Len(s) -> 1..Len(h)]
  BY <1>1 DEF ListOk
<1>4. \A j, k \in 1..Len(s) : f[j] = f[k] => j = k
  BY <1>1 DEF UniqueIds
<1> HIDE DEF f
<1>5. Len(s) <= Len(h)
  <2> SUFFICES ASSUME Len(h) < Len(s) PROVE FALSE
    BY <1>1
  <2>1. \E x, y \in 1..Len(s) : x # y /\ f[x] = f[y]
    BY <1>2, <1>3, FS_PigeonHole
  <2> QED
    BY <1>4, <2>1
<1> QED
  BY <1>1, <1>5, SidebarAssumption

LEMMA WhereIs ==
  ASSUME NEW s, NEW i, \E k \in DOMAIN s : s[k].id = i
  PROVE  Where(s, i) \in DOMAIN s /\ s[Where(s, i)].id = i
BY DEF Where

LEMMA ReorderedList ==
  ASSUME NEW h, HandlesOk(h), ListOk(list, h), NEW i, NEW j, Lists(i), Lists(j)
  PROVE  /\ ListOk(Reordered(i, j), h)
         /\ \A e \in ToSet(Reordered(i, j)) : e.order \in 0..(MaxSessions - 1) /\ \E f \in ToSet(list) : f.id = e.id /\ f.pinned = e.pinned
         /\ \A f \in ToSet(list) : \E e \in ToSet(Reordered(i, j)) : f.id = e.id /\ f.pinned = e.pinned
<1> DEFINE a == Where(list, i)
           b == Where(list, j)
           t == Restamped(list, a, b)
<1>0. a \in DOMAIN list /\ b \in DOMAIN list
  BY WhereIs DEF Lists
<1>1. Reordered(i, j) = t
  BY DEF Reordered, Restamped
<1>2. /\ list \in Seq(EntryType) /\ UniqueIds(list) /\ DOMAIN list = 1..Len(list) /\ Len(list) \in Nat /\ Len(list) <= MaxSessions
  BY ListFits, LenProperties DEF ListOk
<1> HIDE DEF a, b
<1>3. /\ t \in Seq(EntryType) /\ Len(t) = Len(list) /\ UniqueIds(t)
      /\ \A m \in DOMAIN list : /\ From(m, a, b) \in DOMAIN list
                                /\ t[m].id = list[From(m, a, b)].id /\ t[m].pinned = list[From(m, a, b)].pinned /\ t[m].order = m - 1
  BY <1>0, <1>2, RestampedIs
<1> HIDE DEF t
<1>4. DOMAIN t = DOMAIN list
  BY <1>2, <1>3, LenProperties
<1>5. \A e \in ToSet(t) : e.order \in 0..(MaxSessions - 1) /\ \E f \in ToSet(list) : f.id = e.id /\ f.pinned = e.pinned
  <2> SUFFICES ASSUME NEW m \in DOMAIN list
               PROVE  t[m].order \in 0..(MaxSessions - 1) /\ \E f \in ToSet(list) : f.id = t[m].id /\ f.pinned = t[m].pinned
    BY <1>4 DEF ToSet
  <2>1. t[m].order = m - 1 /\ m \in 1..MaxSessions /\ MaxSessions \in Nat
    BY <1>2, <1>3, SidebarAssumption
  <2>2. t[m].order \in 0..(MaxSessions - 1)
    BY <2>1
  <2> QED
    BY <1>3, <2>2 DEF ToSet
<1>6. \A f \in ToSet(list) : \E e \in ToSet(t) : f.id = e.id /\ f.pinned = e.pinned
  <2> SUFFICES ASSUME NEW k \in DOMAIN list
               PROVE  \E m \in DOMAIN t : list[k].id = t[m].id /\ list[k].pinned = t[m].pinned
    BY DEF ToSet
  <2>1. \E m \in 1..Len(list) : From(m, a, b) = k
    <3> DEFINE n == Len(list)
    <3>1. n \in Nat /\ a \in 1..n /\ b \in 1..n /\ k \in 1..n
      BY <1>0, <1>2
    <3> HIDE DEF n
    <3>2. \E m \in 1..n : From(m, a, b) = k
      BY <3>1, FromReaches
    <3> QED
      BY <3>2 DEF n
  <2> QED
    BY <1>2, <1>3, <1>4, <2>1
<1>7. ListOk(t, h)
  BY <1>3, <1>5, ListItems, ListOfItems
<1> QED
  BY <1>1, <1>5, <1>6, <1>7

\* What the changes of a list of workspaces make of it.
LEMMA PathItems ==
  ASSUME NEW X, NEW s \in Seq(X), UniquePaths(s)
  PROVE  /\ \A e \in ToSet(s) : e \in X
         /\ \A e, f \in ToSet(s) : e.path = f.path => e = f
<1>1. \A k \in DOMAIN s : s[k] \in X
  BY ElementOfSeq, LenProperties
<1> QED
  BY <1>1 DEF ToSet, UniquePaths

LEMMA ApartItems ==
  ASSUME NEW X, NEW s \in Seq(X), UniquePaths(s), NEW p
  PROVE  /\ Apart(s, p) \in Seq(X) /\ UniquePaths(Apart(s, p))
         /\ ToSet(Apart(s, p)) = {e \in ToSet(s) : e.path # p}
<1> DEFINE T == {k \in DOMAIN s : s[k].path # p}
<1>1. T \subseteq DOMAIN s
  OBVIOUS
<1>2. Apart(s, p) \in Seq(X) /\ UniquePaths(Apart(s, p)) /\ ToSet(Apart(s, p)) = {s[k] : k \in T}
  BY <1>1, PickedItems DEF Apart
<1>3. {s[k] : k \in T} = {e \in ToSet(s) : e.path # p}
  BY DEF ToSet
<1> QED
  BY <1>2, <1>3

LEMMA ApartPinnedFirst ==
  ASSUME NEW X, NEW s \in Seq(X), PinnedFirst(s), NEW p
  PROVE  PinnedFirst(Apart(s, p))
<1> DEFINE T == {k \in DOMAIN s : s[k].path # p}
<1>1. Len(s) \in Nat /\ DOMAIN s = 1..Len(s) /\ T \subseteq 1..Len(s)
  BY LenProperties
<1> HIDE DEF T
<1>2. Cardinality(T) \in Nat
  BY <1>1, PickedIs
<1>3. PICK at : Ascends(at, Cardinality(T), T) /\ Picked(s, T) = Draw(s, at, Cardinality(T))
  BY <1>1, PickedIs
<1>4. PinnedFirst(Draw(s, at, Cardinality(T)))
  BY <1>1, <1>2, <1>3 DEF PinnedFirst, Draw, Ascends
<1>5. Apart(s, p) = Picked(s, T)
  BY DEF Apart, T
<1> QED
  BY <1>3, <1>4, <1>5

LEMMA AppendPath ==
  ASSUME NEW X, NEW s \in Seq(X), UniquePaths(s), NEW e \in X, \A f \in ToSet(s) : f.path # e.path
  PROVE  /\ Append(s, e) \in Seq(X) /\ UniquePaths(Append(s, e))
         /\ ToSet(Append(s, e)) = ToSet(s) \cup {e}
<1>1. DOMAIN s = 1..Len(s) /\ Len(s) \in Nat
  BY LenProperties
<1>2. Append(s, e) \in Seq(X) /\ DOMAIN Append(s, e) = 1..(Len(s) + 1)
  BY <1>1
<1>3. \A k \in 1..(Len(s) + 1) : Append(s, e)[k] = IF k \in DOMAIN s THEN s[k] ELSE e
  BY <1>1
<1>4. ToSet(Append(s, e)) = ToSet(s) \cup {e}
  <2>1. Len(s) + 1 \in 1..(Len(s) + 1) /\ Len(s) + 1 \notin DOMAIN s /\ DOMAIN s \subseteq 1..(Len(s) + 1)
    BY <1>1
  <2> QED
    BY <1>2, <1>3, <2>1 DEF ToSet
<1>5. UniquePaths(Append(s, e))
  <2>1. \A k \in DOMAIN s : s[k].path # e.path
    BY DEF ToSet
  <2>2. \A k \in 1..(Len(s) + 1) : k \notin DOMAIN s => k = Len(s) + 1
    BY <1>1
  <2> QED
    BY <1>1, <1>2, <1>3, <2>1, <2>2 DEF UniquePaths
<1> QED
  BY <1>2, <1>4, <1>5

LEMMA InsertPath ==
  ASSUME NEW X, NEW s \in Seq(X), UniquePaths(s), NEW e \in X, \A f \in ToSet(s) : f.path # e.path,
         NEW j \in 1..(Len(s) + 1)
  PROVE  /\ InsertAt(s, j, e) \in Seq(X) /\ UniquePaths(InsertAt(s, j, e))
         /\ ToSet(InsertAt(s, j, e)) = ToSet(s) \cup {e}
<1> DEFINE n == Len(s)
           t == Inserted(s, j, e)
<1>1. DOMAIN s = 1..n /\ n \in Nat
  BY LenProperties
<1>2. InsertAt(s, j, e) \in Seq(X) /\ InsertAt(s, j, e) = t
  BY InsertAtIs
<1>3. /\ DOMAIN t = 1..(n + 1) /\ t[j] = e /\ j \in 1..(n + 1)
      /\ \A m \in 1..(n + 1) : m < j => m \in 1..n /\ t[m] = s[m]
      /\ \A m \in 1..(n + 1) : m > j => m - 1 \in 1..n /\ t[m] = s[m - 1]
  BY <1>1 DEF Inserted
<1>4. \A m \in 1..(n + 1) : m < j \/ m = j \/ m > j
  BY <1>1
<1>5. \A k \in 1..n : IF k < j THEN k \in 1..(n + 1) /\ t[k] = s[k] ELSE k + 1 \in 1..(n + 1) /\ k + 1 > j /\ (k + 1) - 1 = k /\ t[k + 1] = s[k]
  BY <1>1 DEF Inserted
<1> HIDE DEF t, n
<1>6. ToSet(t) = ToSet(s) \cup {e}
  <2>1. \A m \in 1..(n + 1) : t[m] \in ToSet(s) \cup {e}
    BY <1>1, <1>3, <1>4 DEF ToSet
  <2>2. e \in ToSet(t)
    BY <1>3 DEF ToSet
  <2>3. \A k \in 1..n : s[k] \in ToSet(t)
    BY <1>3, <1>5 DEF ToSet
  <2> QED
    BY <1>1, <1>3, <2>1, <2>2, <2>3 DEF ToSet
<1>7. UniquePaths(t)
  <2>1. \A k \in 1..n : s[k].path # e.path
    BY <1>1 DEF ToSet
  <2> SUFFICES ASSUME NEW l \in 1..(n + 1), NEW m \in 1..(n + 1), t[l].path = t[m].path
               PROVE  l = m
    BY <1>3 DEF UniquePaths
  <2>2. CASE l = j \/ m = j
    BY <1>3, <1>4, <2>1, <2>2
  <2>3. CASE l < j /\ m < j
    BY <1>1, <1>3, <2>3 DEF UniquePaths
  <2>4. CASE l > j /\ m > j
    <3>0. /\ t[m] = s[m - 1] /\ m - 1 \in DOMAIN s
          /\ t[l] = s[l - 1] /\ l - 1 \in DOMAIN s
      BY <1>1, <1>3, <2>4
    <3>1. l - 1 = m - 1
      BY <3>0 DEF UniquePaths
    <3> QED
      BY <1>1, <3>1
  <2>5. CASE l < j /\ m > j
    <3>0. /\ t[l] = s[l] /\ l \in DOMAIN s
          /\ t[m] = s[m - 1] /\ m - 1 \in DOMAIN s
      BY <1>1, <1>3, <2>5
    <3>1. l = m - 1
      BY <3>0 DEF UniquePaths
    <3> QED
      BY <1>1, <2>5, <3>1
  <2>6. CASE m < j /\ l > j
    <3>0. /\ t[m] = s[m] /\ m \in DOMAIN s
          /\ t[l] = s[l - 1] /\ l - 1 \in DOMAIN s
      BY <1>1, <1>3, <2>6
    <3>1. m = l - 1
      BY <3>0 DEF UniquePaths
    <3> QED
      BY <1>1, <2>6, <3>1
  <2> QED
    BY <1>4, <2>2, <2>3, <2>4, <2>5, <2>6
<1> QED
  BY <1>2, <1>6, <1>7

LEMMA PlaceIs ==
  ASSUME NEW p, HasRoot(p)
  PROVE  Place(p) \in DOMAIN roots /\ roots[Place(p)].path = p
BY DEF Place, HasRoot

\* What the gestures of workspaces make of the roots.
LEMMA AddRootIs ==
  ASSUME RootsOk(roots), NEW p \in Paths, AddRoot(p)
  PROVE  /\ RootsOk(roots')
         /\ ToSet(roots') = ToSet(roots) \cup (IF HasRoot(p) THEN {} ELSE {[path |-> p, pinned |-> FALSE, known |-> FALSE]})
<1> DEFINE e == [path |-> p, pinned |-> FALSE, known |-> FALSE]
<1>1. CASE HasRoot(p)
  BY <1>1 DEF AddRoot
<1>2. CASE ~HasRoot(p)
  <2>1. roots' = Normalize(Append(roots, e))
    BY <1>2 DEF AddRoot, SetRoots
  <2>2. e \in Root /\ \A f \in ToSet(roots) : f.path # e.path
    BY <1>2 DEF Root, HasRoot, ToSet
  <2>3. Append(roots, e) \in Seq(Root) /\ UniquePaths(Append(roots, e)) /\ ToSet(Append(roots, e)) = ToSet(roots) \cup {e}
    <3> HIDE DEF e
    <3> QED
      BY <2>2, AppendPath DEF RootsOk
  <2> HIDE DEF e
  <2>4. Normalize(Append(roots, e)) \in Seq(Root) /\ PinnedFirst(Normalize(Append(roots, e)))
        /\ UniquePaths(Normalize(Append(roots, e))) /\ ToSet(Normalize(Append(roots, e))) = ToSet(Append(roots, e))
    BY <2>3, NormalizeItems
  <2> QED
    BY <1>2, <2>1, <2>3, <2>4 DEF RootsOk, e
<1> QED
  BY <1>1, <1>2

LEMMA RemoveRootIs ==
  ASSUME RootsOk(roots), NEW p \in Paths, RemoveRoot(p)
  PROVE  /\ RootsOk(roots')
         /\ ToSet(roots') = {e \in ToSet(roots) : e.path # p}
BY ApartItems, ApartPinnedFirst DEF RootsOk, RemoveRoot, SetRoots

LEMMA PinRootIs ==
  ASSUME RootsOk(roots), NEW p \in Paths, PinRoot(p)
  PROVE  /\ RootsOk(roots')
         /\ \E e \in ToSet(roots) :
              /\ e.path = p
              /\ ToSet(roots') = {f \in ToSet(roots) : f.path # p} \cup {[e EXCEPT !.pinned = ~@]}
              /\ Send({[OnRoot("pinroot", p) EXCEPT !.pinned = ~e.pinned]})
         /\ Apart(roots', p) = Apart(roots, p)
<1> DEFINE e == roots[Place(p)]
           others == Apart(roots, p)
           j == Cardinality(PinnedPlaces(others)) + 1
           x == [e EXCEPT !.pinned = ~@]
           t == InsertAt(others, j, x)
<1>1. HasRoot(p) /\ roots' = Normalize(t) /\ Send({[OnRoot("pinroot", p) EXCEPT !.pinned = ~e.pinned]})
  BY DEF PinRoot, SetRoots, PinnedPlaces
<1>2. roots \in Seq(Root) /\ UniquePaths(roots) /\ PinnedFirst(roots)
  BY DEF RootsOk
<1>3. e \in ToSet(roots) /\ e \in Root /\ e.path = p
  BY <1>1, <1>2, PlaceIs, PathItems DEF ToSet
<1> HIDE DEF e
<1>4. x \in Root /\ x.path = p
  BY <1>3 DEF Root
<1>5. others \in Seq(Root) /\ UniquePaths(others) /\ PinnedFirst(others) /\ ToSet(others) = {f \in ToSet(roots) : f.path # p}
  BY <1>2, ApartItems, ApartPinnedFirst
<1> HIDE DEF x, others
<1>6. j \in 1..(Len(others) + 1) /\ PinnedFirst(t)
  BY <1>4, <1>5, InsertPinnedFirst
<1> HIDE DEF j
<1>7. t \in Seq(Root) /\ UniquePaths(t) /\ ToSet(t) = ToSet(others) \cup {x}
  <2>1. \A f \in ToSet(others) : f.path # x.path
    BY <1>4, <1>5
  <2> QED
    BY <1>4, <1>5, <1>6, <2>1, InsertPath
<1>8. Apart(t, p) = Apart(others, p)
  BY <1>4, <1>5, <1>6, ApartIgnores
<1> HIDE DEF t
<1>9. Normalize(t) = t
  BY <1>6, <1>7, NormalizeFacts
<1>10. Apart(others, p) = others
  <2>1. /\ Len(others) \in Nat /\ DOMAIN others = 1..Len(others)
    BY <1>5, LenProperties
  <2>2. {k \in DOMAIN others : others[k].path # p} = 1..Len(others)
    BY <1>5, <2>1 DEF ToSet
  <2> DEFINE id == [m \in 1..Len(others) |-> m]
  <2>3. Ascends(id, Len(others), 1..Len(others))
    BY <2>1 DEF Ascends
  <2> HIDE DEF id
  <2>4. Picked(others, 1..Len(others)) = Draw(others, id, Len(others))
    BY <2>1, <2>3, PickedIsOnly
  <2>5. Draw(others, id, Len(others)) = others
    BY <1>5, <2>1 DEF Draw, id
  <2> QED
    BY <2>2, <2>4, <2>5 DEF Apart
<1> QED
  BY <1>1, <1>3, <1>5, <1>6, <1>7, <1>8, <1>9, <1>10 DEF RootsOk, others, x

LEMMA DragRootIs ==
  ASSUME RootsOk(roots), NEW p \in Paths, NEW q \in Paths, DragRoot(p, q)
  PROVE  /\ RootsOk(roots') /\ ToSet(roots') = ToSet(roots)
         /\ Apart(roots', p) = Apart(roots, p)
<1> DEFINE a == Place(p)
           b == Place(q)
           t == Moved(roots, a, b)
<1>1. HasRoot(p) /\ HasRoot(q) /\ roots[a].pinned = roots[b].pinned /\ roots' = Normalize(t)
  BY DEF DragRoot, SetRoots
<1>2. roots \in Seq(Root) /\ UniquePaths(roots) /\ PinnedFirst(roots) /\ DOMAIN roots = 1..Len(roots)
  BY LenProperties DEF RootsOk
<1>3. a \in 1..Len(roots) /\ b \in 1..Len(roots) /\ roots[a].path = p
  BY <1>1, <1>2, PlaceIs
<1> HIDE DEF a, b
<1>4. Drawn(t, roots, DOMAIN roots) /\ Apart(t, p) = Apart(roots, p) /\ PinnedFirst(t)
  BY <1>1, <1>2, <1>3, MovedFacts
<1>5. t \in Seq(Root) /\ ToSet(t) = {roots[k] : k \in DOMAIN roots} /\ UniquePaths(t)
  <2>1. DOMAIN roots \subseteq DOMAIN roots
    OBVIOUS
  <2> HIDE DEF t
  <2> QED
    BY <1>2, <1>4, <2>1, DrawnItems
<1> HIDE DEF t
<1>6. Normalize(t) = t
  BY <1>4, <1>5, NormalizeFacts
<1> QED
  BY <1>1, <1>4, <1>5, <1>6 DEF RootsOk, ToSet

LEMMA PinIs ==
  ASSUME ListOk(list, handles), NEW i, Pin(i)
  PROVE  /\ ListOk(list', handles)
         /\ \E e \in ToSet(list) :
              /\ e.id = i
              /\ ToSet(list') = {f \in ToSet(list) : f.id # i} \cup {[e EXCEPT !.pinned = ~@]}
              /\ Send({[OnAgent("pin", i) EXCEPT !.pinned = ~e.pinned]})
<1> DEFINE k == Where(list, i)
           e == [list[k] EXCEPT !.pinned = ~@]
           t == Replaced(list, k, e)
<1>1. k \in DOMAIN list /\ list[k].id = i
  BY WhereIs DEF Pin, Lists
<1>2. list' = Normalize(t) /\ Send({[OnAgent("pin", i) EXCEPT !.pinned = ~list[k].pinned]})
  BY DEF Pin, Replaced
<1> HIDE DEF k
<1>0. e \in EntryType /\ e.id = list[k].id
  <2>1. list[k] \in EntryType
    BY <1>1, ListItems DEF ToSet
  <2> QED
    BY <2>1 DEF EntryType
<1> HIDE DEF e
<1>3. ListOk(t, handles) /\ ToSet(t) = {f \in ToSet(list) : f.id # list[k].id} \cup {e}
  BY <1>0, <1>1, ReplacedList
<1> HIDE DEF t
<1>4. ListOk(Normalize(t), handles) /\ ToSet(Normalize(t)) = ToSet(t)
  BY <1>3, NormalizeList
<1>5. list[k] \in ToSet(list)
  BY <1>1 DEF ToSet
<1>6. ToSet(list') = {f \in ToSet(list) : f.id # i} \cup {[list[k] EXCEPT !.pinned = ~@]}
  BY <1>1, <1>2, <1>3, <1>4 DEF e
<1>7. ListOk(list', handles)
  BY <1>2, <1>4
<1> QED
  BY <1>1, <1>2, <1>5, <1>6, <1>7

LEMMA DragIs ==
  ASSUME HandlesOk(handles), ListOk(list, handles), NEW i, NEW j, Drag(i, j)
  PROVE  /\ ListOk(list', handles)
         /\ Send(Placed(list'))
         /\ \A e \in ToSet(list') : /\ e \in ToSet(list) \/ e.order # NoOrder
                                    /\ \E f \in ToSet(list) : f.id = e.id /\ f.pinned = e.pinned
         /\ \A f \in ToSet(list) : \E e \in ToSet(list') : f.id = e.id /\ f.pinned = e.pinned
<1>1. Lists(i) /\ Lists(j) /\ Send(Placed(list')) /\ list' = IF Known(Home) THEN Reordered(i, j) ELSE list
  BY DEF Drag
<1>2. CASE Known(Home)
  <2>1. \A e \in ToSet(Reordered(i, j)) : e.order # NoOrder
    BY <1>1, ReorderedList, SidebarAssumption DEF NoOrder
  <2> QED
    BY <1>1, <1>2, <2>1, ReorderedList
<1>3. CASE ~Known(Home)
  BY <1>1, <1>3
<1> QED
  BY <1>2, <1>3

LEMMA AgentGoneIs ==
  ASSUME ListOk(list, handles), NEW i, AgentGone(i)
  PROVE  /\ ListOk(list', handles)
         /\ ToSet(list') = {e \in ToSet(list) : e.id # i}
         /\ i \in DOMAIN handles /\ ~handles[i].live
BY WithoutList DEF AgentGone

LEMMA CreateReplyIs ==
  ASSUME ListOk(list, handles), NEW c \in replies, ReplyOk(c, handles), CreateReply(c)
  PROVE  /\ c.to = "create"
         /\ ListOk(list', handles)
         /\ ToSet(list') = {e \in ToSet(list) : e.id # c.id} \cup {[id |-> c.id, pinned |-> FALSE, order |-> NoOrder]}
<1> DEFINE s == Without(list, c.id)
           e == [id |-> c.id, pinned |-> FALSE, order |-> NoOrder]
<1>1. list' = Normalize(Append(s, e)) /\ c.to = "create"
  BY DEF CreateReply
<1>2. ListOk(s, handles) /\ ToSet(s) = {f \in ToSet(list) : f.id # c.id}
  BY WithoutList
<1>3. c.id # 0 /\ c.id \in DOMAIN handles /\ c.id \in Nat
  BY <1>1, SidebarAssumption DEF ReplyOk, CallOk, CallType, Saving
<1>4. e \in EntryType /\ e.id = c.id
  BY <1>3, SidebarAssumption DEF EntryType, NoOrder
<1> HIDE DEF s, e
<1>5. ListOk(Append(s, e), handles) /\ ToSet(Append(s, e)) = ToSet(s) \cup {e}
  BY <1>2, <1>3, <1>4, AppendList
<1>6. ListOk(Normalize(Append(s, e)), handles) /\ ToSet(Normalize(Append(s, e))) = ToSet(Append(s, e))
  BY <1>5, NormalizeList
<1> QED
  BY <1>1, <1>2, <1>5, <1>6 DEF e

LEMMA StopReplyIs ==
  ASSUME ListOk(list, handles), NEW c, StopReply(c)
  PROVE  /\ ListOk(list', handles)
         /\ ToSet(list') = {e \in ToSet(list) : e.id # c.id}
BY WithoutList DEF StopReply

LEMMA ListStep ==
  ASSUME SidebarTypes, SidebarNext
  PROVE  ListOk(list', handles')
<1>1. HandlesOk(handles') /\ Grows(handles, handles')
  BY HandlesStep DEF SidebarTypes
<1>2. ListOk(list', handles)
  <2>1. CASE UNCHANGED list
    BY <2>1 DEF SidebarTypes
  <2>2. CASE \E i \in 1..MaxSessions : Pin(i) \/ AgentGone(i) \/ \E j \in 1..MaxSessions : Drag(i, j)
    BY <2>2, PinIs, AgentGoneIs, DragIs DEF SidebarTypes
  <2>3. CASE \E c \in replies : Receive(c)
    BY <2>3, CreateReplyIs, StopReplyIs DEF SidebarTypes, Receive, RegisterReply
  <2>4. CASE \E h \in hydrates : Arrive(h)
    BY <2>4, NormalizeList DEF SidebarTypes, HydrateOk, Arrive
  <2>5. CASE Reload
    BY <2>5 DEF Reload, ListOk, UniqueIds
  <2> QED
    BY <2>1, <2>2, <2>3, <2>4, <2>5, ListChange
<1> QED
  BY <1>1, <1>2, HandlesGrow

LEMMA RootsStep ==
  ASSUME SidebarTypes, SidebarNext
  PROVE  RootsOk(roots') /\ RootsOk(stored')
<1>1. CASE UNCHANGED <<roots, stored>>
  BY <1>1 DEF SidebarTypes
<1>2. CASE \E p \in Paths : AddRoot(p) \/ RemoveRoot(p) \/ PinRoot(p) \/ \E q \in Paths : DragRoot(p, q)
  <2>1. RootsOk(roots')
    BY <1>2, AddRootIs, RemoveRootIs, PinRootIs, DragRootIs DEF SidebarTypes
  <2>2. UNCHANGED stored \/ stored' = roots'
    BY <1>2 DEF AddRoot, RemoveRoot, PinRoot, DragRoot, SetRoots
  <2> QED
    BY <2>1, <2>2 DEF SidebarTypes
<1>3. CASE \E h \in hydrates : Arrive(h)
  <2> PICK h \in hydrates : Arrive(h)
    BY <1>3
  <2>1. h.roots \in Seq(Root) /\ UniquePaths(h.roots)
    BY DEF SidebarTypes, HydrateOk, Arrive
  <2>2. RootsOk(Normalize(h.roots))
    BY <2>1, NormalizeItems DEF RootsOk
  <2> QED
    BY <2>2 DEF Arrive, SetRoots
<1>4. CASE Reload
  <2>1. stored \in Seq(Root) /\ UniquePaths(stored) /\ RootsOk(stored)
    BY DEF SidebarTypes, RootsOk
  <2>2. RootsOk(Normalize(stored))
    BY <2>1, NormalizeItems DEF RootsOk
  <2> QED
    BY <1>4, <2>1, <2>2 DEF Reload
<1> QED
  BY <1>1, <1>2, <1>3, <1>4, RootsChange

LEMMA SelStep ==
  ASSUME SidebarTypes, SidebarNext
  PROVE  sel' \in SelType
<1>1. CASE UNCHANGED sel
  BY <1>1 DEF SidebarTypes
<1>2. CASE \E p \in Paths : AddRoot(p) \/ Select(p) \/ RemoveRoot(p)
  <2> PICK p \in Paths : AddRoot(p) \/ Select(p) \/ RemoveRoot(p)
    BY <1>2
  <2>1. CASE AddRoot(p)
    BY <2>1 DEF SelType, AddRoot
  <2>2. CASE Select(p)
    <3>1. Known(p) \in BOOLEAN
      BY DEF Known
    <3>2. sel' = [path |-> p, known |-> Known(p), blind |-> ~Known(p)]
      BY <2>2 DEF Select
    <3> QED
      BY <3>1, <3>2 DEF SelType
  <2>3. CASE RemoveRoot(p)
    BY <2>3 DEF SidebarTypes, SelType, RemoveRoot, NoRoot
  <2> QED
    BY <2>1, <2>2, <2>3
<1>3. CASE \E c \in replies : Receive(c)
  <2> PICK c \in replies : Receive(c)
    BY <1>3
  <2>1. c.to = "register" => c.path \in Paths
    BY DEF SidebarTypes, ReplyOk, CallOk, OfRoots
  <2>2. CASE RegisterReply(c)
    BY <2>1, <2>2 DEF RegisterReply, SelType
  <2>3. CASE CreateReply(c)
    BY <2>3, SidebarAssumption DEF CreateReply, SelType
  <2>4. CASE StopReply(c)
    BY <2>4 DEF StopReply, SidebarTypes
  <2> QED
    BY <2>2, <2>3, <2>4 DEF Receive
<1>4. CASE Reload
  BY <1>4 DEF Reload, SelType, NoRoot
<1> QED
  BY <1>1, <1>2, <1>3, <1>4, SelChange

LEMMA EnrolledIs ==
  ASSUME NEW s, RegistryOk(s), NEW p \in Paths
  PROVE  /\ RegistryOk(Enrolled(s, p))
         /\ ToSet(Enrolled(s, p)) = ToSet(s) \cup (IF \E e \in ToSet(s) : e.path = p THEN {} ELSE {[path |-> p, pinned |-> FALSE]})
<1> DEFINE e == [path |-> p, pinned |-> FALSE]
<1>1. CASE \E k \in DOMAIN s : s[k].path = p
  BY <1>1 DEF Enrolled, ToSet
<1>2. CASE ~\E k \in DOMAIN s : s[k].path = p
  <2>1. e \in Workspace /\ \A f \in ToSet(s) : f.path # e.path
    BY <1>2 DEF Workspace, ToSet
  <2>2. Enrolled(s, p) = Append(s, e)
    BY <1>2 DEF Enrolled
  <2>3. Append(s, e) \in Seq(Workspace) /\ UniquePaths(Append(s, e)) /\ ToSet(Append(s, e)) = ToSet(s) \cup {e}
    <3> HIDE DEF e
    <3> QED
      BY <2>1, AppendPath DEF RegistryOk
  <2> QED
    BY <2>1, <2>2, <2>3 DEF RegistryOk
<1> QED
  BY <1>1, <1>2

LEMMA ConfigureIs ==
  ASSUME RegistryOk(registry), NEW c, c.pinned \in BOOLEAN, Configure(c)
  PROVE  /\ RegistryOk(registry')
         /\ ToSet(registry') = {IF e.path = c.path THEN [e EXCEPT !.pinned = c.pinned] ELSE e : e \in ToSet(registry)}
<1>1. registry' = [k \in DOMAIN registry |-> IF registry[k].path = c.path THEN [registry[k] EXCEPT !.pinned = c.pinned] ELSE registry[k]]
  BY DEF Configure
<1>2. /\ registry \in Seq(Workspace) /\ UniquePaths(registry) /\ DOMAIN registry = 1..Len(registry) /\ Len(registry) \in Nat
      /\ \A k \in DOMAIN registry : registry[k] \in Workspace
  BY LenProperties, ElementOfSeq DEF RegistryOk
<1>3. \A k \in DOMAIN registry : registry'[k] \in Workspace /\ registry'[k].path = registry[k].path
  BY <1>1, <1>2 DEF Workspace
<1>4. registry' \in Seq(Workspace)
  <2>1. registry' \in [1..Len(registry) -> Workspace]
    BY <1>1, <1>2, <1>3
  <2> QED
    BY <1>2, <2>1, IsASeq
<1>5. UniquePaths(registry')
  BY <1>1, <1>2, <1>3 DEF UniquePaths
<1>6. ToSet(registry') = {IF e.path = c.path THEN [e EXCEPT !.pinned = c.pinned] ELSE e : e \in ToSet(registry)}
  BY <1>1 DEF ToSet
<1> QED
  BY <1>4, <1>5, <1>6 DEF RegistryOk

LEMMA RegistryStep ==
  ASSUME SidebarTypes, SidebarNext
  PROVE  RegistryOk(registry')
<1>1. CASE UNCHANGED registry
  BY <1>1 DEF SidebarTypes
<1>2. CASE \E c \in calls : Register(c) \/ SaveAgents(c)
  <2>1. PICK c \in calls : Register(c) \/ SaveAgents(c)
    BY <1>2
  <2>2. CASE Register(c)
    <3>1. c.path \in Paths
      BY <2>2 DEF SidebarTypes, CallOk, Register, Arrived, OfRoots
    <3> QED
      BY <2>2, <3>1, EnrolledIs DEF SidebarTypes, Register
  <2>3. CASE SaveAgents(c)
    BY <2>3, EnrolledIs, SidebarAssumption DEF SidebarTypes, SaveAgents
  <2> QED
    BY <2>1, <2>2, <2>3
<1>3. CASE \E c \in calls : RemoveWorkspace(c)
  BY <1>3, ApartItems DEF SidebarTypes, RemoveWorkspace, RegistryOk
<1>4. CASE \E c \in calls : Configure(c)
  <2>1. PICK c \in calls : Configure(c)
    BY <1>4
  <2>2. c.pinned \in BOOLEAN
    BY DEF SidebarTypes, CallOk, CallType
  <2> QED
    BY <2>1, <2>2, ConfigureIs DEF SidebarTypes
<1> QED
  BY <1>1, <1>2, <1>3, <1>4, RegistryChange

\* Requests as the gestures make them.
LEMMA CallIs ==
  ASSUME NEW h, NEW to \in OfRoots \cup Saving
  PROVE  /\ Call(to) \in CallType /\ Call(to).to = to /\ Call(to).path = NoPath /\ Call(to).id = 0 /\ Call(to).at = "sent"
         /\ Call(to).snap = <<>> /\ Call(to).heard = TRUE
         /\ SavedOk(<<>>, h)
<1>1. <<>> \in Collections /\ SavedOk(<<>>, h)
  <2>1. <<>> \in [{} -> Saved]
    OBVIOUS
  <2>2. {} \in SUBSET (1..MaxSessions)
    OBVIOUS
  <2>3. <<>> \in Collections
    BY <2>1, <2>2 DEF Collections
  <2> QED
    BY <2>3 DEF SavedOk
<1>2. NoOrder \in 0..NoOrder /\ 0 \in 0..MaxSessions
  BY SidebarAssumption DEF NoOrder
<1> QED
  BY <1>1, <1>2 DEF Call, CallType

LEMMA RootCallOk ==
  ASSUME NEW h, NEW to \in OfRoots, NEW p \in Paths, NEW b \in BOOLEAN
  PROVE  CallOk(OnRoot(to, p), h) /\ CallOk([OnRoot(to, p) EXCEPT !.pinned = b], h)
<1> DEFINE c == Call(to)
<1>1. /\ c \in CallType /\ c.to = to /\ c.path = NoPath /\ c.id = 0 /\ c.at = "sent"
      /\ c.snap = <<>> /\ SavedOk(<<>>, h)
  BY CallIs
<1> HIDE DEF c
<1>2. to \notin Saving
  BY DEF OfRoots, Saving
<1>3. CallOk([c EXCEPT !.path = p], h)
  BY <1>1, <1>2 DEF CallOk, CallType, OfRoots, Saving
<1>4. CallOk([[c EXCEPT !.path = p] EXCEPT !.pinned = b], h)
  BY <1>1, <1>2 DEF CallOk, CallType, OfRoots, Saving
<1> QED
  BY <1>3, <1>4 DEF OnRoot, c

LEMMA AgentCallOk ==
  ASSUME NEW h, HandlesOk(h), NEW to \in {"stop", "pin", "place"}, NEW i \in DOMAIN h, NEW b \in BOOLEAN, NEW r \in 0..NoOrder
  PROVE  /\ CallOk(OnAgent(to, i), h)
         /\ CallOk([OnAgent(to, i) EXCEPT !.pinned = b], h)
         /\ CallOk([OnAgent(to, i) EXCEPT !.order = r], h)
<1> DEFINE c == Call(to)
<1>0. i \in 1..MaxSessions
  BY LenProperties, SidebarAssumption DEF HandlesOk
<1>1. /\ c \in CallType /\ c.to = to /\ c.path = NoPath /\ c.id = 0 /\ c.at = "sent"
      /\ c.snap = <<>> /\ SavedOk(<<>>, h)
  BY CallIs DEF Saving
<1> HIDE DEF c
<1>2. to \in Saving /\ to \notin OfRoots
  BY DEF OfRoots, Saving
<1> DEFINE d == [c EXCEPT !.id = i]
<1>3. /\ d \in CallType /\ d.to = to /\ d.path = NoPath /\ d.id = i /\ d.at = "sent" /\ d.snap = <<>>
  BY <1>0, <1>1, SidebarAssumption DEF CallType
<1> HIDE DEF d
<1>4. i # 0
  BY <1>0, SidebarAssumption
<1>5. CallOk(d, h)
  BY <1>1, <1>2, <1>3, <1>4 DEF CallOk
<1> DEFINE f == [d EXCEPT !.pinned = b]
           g == [d EXCEPT !.order = r]
<1>6. /\ f \in CallType /\ f.to = to /\ f.path = NoPath /\ f.id = i /\ f.at = "sent" /\ f.snap = <<>>
      /\ g \in CallType /\ g.to = to /\ g.path = NoPath /\ g.id = i /\ g.at = "sent" /\ g.snap = <<>>
  BY <1>3 DEF CallType
<1> HIDE DEF f, g
<1>7. CallOk(f, h) /\ CallOk(g, h)
  BY <1>1, <1>2, <1>4, <1>6 DEF CallOk
<1> QED
  BY <1>5, <1>7 DEF OnAgent, c, d, f, g

LEMMA CreateCallOk ==
  ASSUME NEW h
  PROVE  CallOk(Call("create"), h)
<1> DEFINE c == Call("create")
<1>1. /\ c \in CallType /\ c.to = "create" /\ c.path = NoPath /\ c.id = 0 /\ c.at = "sent"
      /\ c.snap = <<>> /\ SavedOk(<<>>, h)
  BY CallIs DEF Saving
<1> HIDE DEF c
<1>2. CallOk(c, h)
  BY <1>1 DEF CallOk, OfRoots, Saving
<1> QED
  BY <1>2 DEF c

LEMMA SavedRecord ==
  ASSUME NEW b \in BOOLEAN, NEW r \in 0..NoOrder
  PROVE  [pinned |-> b, order |-> r] \in Saved
BY DEF Saved

\* No order is on record that the handle lacks.
Ordered(s, h) == \A i \in DOMAIN s : s[i].order # NoOrder => h[i].order # NoOrder

\* What a request collects of the agents is what it may save.
LEMMA SnapshotOk ==
  ASSUME HandlesOk(handles), SavedOk(disk, handles), NEW c
  PROVE  /\ SavedOk(Snapshot(c), handles) /\ DOMAIN Snapshot(c) = Live
         /\ Ordered(disk, handles) => \A i \in Live : Snapshot(c)[i] = [pinned |-> handles[i].pinned, order |-> handles[i].order]
<1>1. /\ DOMAIN handles \subseteq 1..MaxSessions /\ \A i \in DOMAIN handles : handles[i] \in Agent
  BY LenProperties, ElementOfSeq, SidebarAssumption DEF HandlesOk
<1>2. Live \subseteq DOMAIN handles
  BY DEF Live
<1>3. \A i \in DOMAIN disk : disk[i] \in Saved
  BY DEF SavedOk, Collections
<1>4. Ordered(disk, handles) => \A i \in Live : Snapshot(c)[i] = [pinned |-> handles[i].pinned, order |-> handles[i].order]
  BY DEF Snapshot, Ordered
<1>5. DOMAIN Snapshot(c) = Live
  BY DEF Snapshot
<1>6. Snapshot(c) \in [Live -> Saved]
  <2>1. \A i \in Live : Snapshot(c)[i] \in Saved
    <3> SUFFICES ASSUME NEW i \in Live PROVE Snapshot(c)[i] \in Saved
      OBVIOUS
    <3> DEFINE old == handles[i].order = NoOrder /\ i \in DOMAIN disk /\ ~(c.to = "place" /\ c.id = i)
               r == IF old THEN disk[i].order ELSE handles[i].order
    <3>1. handles[i].pinned \in BOOLEAN /\ handles[i].order \in 0..NoOrder
      BY <1>1, <1>2 DEF Agent
    <3>2. r \in 0..NoOrder
      BY <1>3, <3>1 DEF Saved
    <3>3. Snapshot(c)[i] = [pinned |-> handles[i].pinned, order |-> r]
      BY DEF Snapshot
    <3> QED
      BY <3>1, <3>2, <3>3, SavedRecord
  <2>2. Snapshot(c) = [i \in Live |-> Snapshot(c)[i]]
    BY DEF Snapshot
  <2> QED
    BY <2>1, <2>2
<1>7. Snapshot(c) \in Collections
  <2>1. Live \in SUBSET (1..MaxSessions)
    BY <1>1, <1>2
  <2> QED
    BY <1>6, <2>1 DEF Collections
<1> QED
  BY <1>2, <1>4, <1>5, <1>7 DEF SavedOk

\* A request on its way to its answer.
LEMMA AppliedCallOk ==
  ASSUME NEW h, HandlesOk(h), NEW c, CallOk(c, h), c.to \in Saving, c.at = "sent",
         NEW i \in DOMAIN h, c.to # "create" => i = c.id
  PROVE  CallOk([c EXCEPT !.at = "applied", !.id = i], h)
<1>0. i \in 1..MaxSessions
  BY LenProperties, SidebarAssumption DEF HandlesOk
<1> DEFINE d == [c EXCEPT !.at = "applied", !.id = i]
<1>1. c \in CallType /\ i # 0 /\ i \in 0..MaxSessions
  BY <1>0, SidebarAssumption DEF CallOk
<1>2. d \in CallType /\ d.to = c.to /\ d.path = c.path /\ d.id = i /\ d.at = "applied" /\ d.snap = c.snap
  BY <1>1 DEF CallType
<1> HIDE DEF d
<1>3. CallOk(d, h)
  BY <1>1, <1>2 DEF CallOk, OfRoots, Saving
<1> QED
  BY <1>3 DEF d

LEMMA CollectedCallOk ==
  ASSUME NEW h, NEW c, CallOk(c, h), c.at = "applied", NEW s, SavedOk(s, h)
  PROVE  CallOk([c EXCEPT !.at = "collected", !.snap = s], h)
BY DEF CallOk, CallType, SavedOk, OfRoots, Saving

LEMMA UnheardCallOk ==
  ASSUME NEW h, NEW c, CallOk(c, h)
  PROVE  CallOk([c EXCEPT !.heard = FALSE], h)
BY DEF CallOk, CallType

LEMMA ReplyIs ==
  ASSUME NEW h, NEW c, CallOk(c, h), c.to = "register" \/ (c.to \in {"create", "stop"} /\ c.at # "sent"),
         NEW r \in Reply(c)
  PROVE  /\ ReplyOk(r, h) /\ c.heard /\ r = [c EXCEPT !.snap = <<>>]
         /\ r.to = c.to /\ r.id = c.id /\ r.at = c.at /\ r.path = c.path
<1>1. c.heard /\ r = [c EXCEPT !.snap = <<>>]
  BY DEF Reply
<1>2. SavedOk(<<>>, h)
  BY CallIs DEF Saving
<1>3. c \in CallType
  BY DEF CallOk
<1>4. r \in CallType /\ r.to = c.to /\ r.id = c.id /\ r.at = c.at /\ r.path = c.path /\ r.heard = c.heard /\ r.snap = <<>>
  BY <1>1, <1>2, <1>3 DEF CallType, SavedOk
<1> QED
  BY <1>1, <1>2, <1>4 DEF ReplyOk, CallOk

\* What the user's steps send.
LEMMA UserCalls ==
  ASSUME SidebarTypes, UserSteps
  PROVE  \E new : /\ Send(new)
                  /\ UNCHANGED <<handles, disk, registry, replies>>
                  /\ \A c \in new : CallOk(c, handles) /\ c.at = "sent" /\ c.heard /\ (c.to = "create" => StartAgent /\ c = Call("create"))
<1> USE DEF Gesture, backend, browser
<1>0. HandlesOk(handles) /\ ListOk(list, handles)
  BY DEF SidebarTypes
<1>a. NoOrder \in 0..NoOrder /\ FALSE \in BOOLEAN
  BY SidebarAssumption DEF NoOrder
<1>1. ASSUME NEW p \in Paths, AddRoot(p) \/ RemoveRoot(p)
      PROVE  \E to \in {"register", "remove"} : Send({OnRoot(to, p)})
  BY <1>1 DEF AddRoot, RemoveRoot
<1>2. ASSUME NEW p \in Paths, PinRoot(p)
      PROVE  \E b \in BOOLEAN : Send({[OnRoot("pinroot", p) EXCEPT !.pinned = b]})
  <2>1. PICK e \in ToSet(roots) : Send({[OnRoot("pinroot", p) EXCEPT !.pinned = ~e.pinned]})
    BY <1>2, PinRootIs DEF SidebarTypes
  <2>2. (~e.pinned) \in BOOLEAN
    OBVIOUS
  <2> QED
    BY <2>1, <2>2
<1>3. ASSUME NEW p \in Paths, AddRoot(p) \/ RemoveRoot(p) \/ PinRoot(p)
      PROVE  \E new : /\ Send(new)
                      /\ \A c \in new : CallOk(c, handles) /\ c.at = "sent" /\ c.heard /\ c.to # "create"
  <2>1. CASE AddRoot(p) \/ RemoveRoot(p)
    <3>1. PICK to \in {"register", "remove"} : Send({OnRoot(to, p)})
      BY <1>1, <2>1
    <3>2. CallOk(OnRoot(to, p), handles)
      BY <1>a, RootCallOk DEF OfRoots
    <3>3. OnRoot(to, p).at = "sent" /\ OnRoot(to, p).heard /\ OnRoot(to, p).to # "create"
      BY DEF OnRoot, Call
    <3> QED
      BY <3>1, <3>2, <3>3
  <2>2. CASE PinRoot(p)
    <3> DEFINE d(b) == [OnRoot("pinroot", p) EXCEPT !.pinned = b]
    <3>1. PICK b \in BOOLEAN : Send({d(b)})
      BY <1>2, <2>2
    <3>2. CallOk(d(b), handles)
      BY RootCallOk DEF OfRoots
    <3>3. d(b).at = "sent" /\ d(b).heard /\ d(b).to # "create"
      BY DEF OnRoot, Call
    <3> HIDE DEF d
    <3> QED
      BY <3>1, <3>2, <3>3
  <2> QED
    BY <1>3, <2>1, <2>2
<1>4. CASE \E p \in Paths : AddRoot(p) \/ RemoveRoot(p) \/ PinRoot(p)
  <2>1. UNCHANGED <<handles, disk, registry, replies>>
    BY <1>4 DEF AddRoot, RemoveRoot, PinRoot
  <2> QED
    BY <1>3, <1>4, <2>1
<1>5. CASE StartAgent
  <2>1. Send({Call("create")}) /\ UNCHANGED <<handles, disk, registry, replies>>
    BY <1>5 DEF StartAgent
  <2>2. CallOk(Call("create"), handles) /\ Call("create").at = "sent" /\ Call("create").heard
    BY CreateCallOk DEF Call
  <2> QED
    BY <1>5, <2>1, <2>2
<1>6. ASSUME NEW i, Lists(i) PROVE i \in DOMAIN handles
  BY <1>0, <1>6 DEF Lists, ListOk
<1>7. CASE \E i \in 1..MaxSessions : StopAgent(i) \/ AgentGone(i)
  <2> PICK i \in 1..MaxSessions : StopAgent(i) \/ AgentGone(i)
    BY <1>7
  <2>1. Lists(i) /\ Send({OnAgent("stop", i)}) /\ UNCHANGED <<handles, disk, registry, replies>>
    BY DEF StopAgent, AgentGone
  <2>2. i \in DOMAIN handles
    BY <1>6, <2>1
  <2>3. CallOk(OnAgent("stop", i), handles)
    BY <1>0, <1>a, <2>2, AgentCallOk
  <2>4. OnAgent("stop", i).at = "sent" /\ OnAgent("stop", i).heard /\ OnAgent("stop", i).to # "create"
    BY DEF OnAgent, Call
  <2> QED
    BY <2>1, <2>3, <2>4
<1>8. CASE \E i \in 1..MaxSessions : Pin(i)
  <2> PICK i \in 1..MaxSessions : Pin(i)
    BY <1>8
  <2> DEFINE d(b) == [OnAgent("pin", i) EXCEPT !.pinned = b]
  <2>1. PICK e \in ToSet(list) : Send({d(~e.pinned)})
    BY <1>0, PinIs
  <2>2. PICK b \in BOOLEAN : Send({d(b)})
    <3>1. (~e.pinned) \in BOOLEAN
      OBVIOUS
    <3> HIDE DEF d
    <3> QED
      BY <2>1, <3>1
  <2>3. UNCHANGED <<handles, disk, registry, replies>> /\ i \in DOMAIN handles
    BY <1>6 DEF Pin
  <2>4. CallOk(d(b), handles)
    BY <1>0, <1>a, <2>3, AgentCallOk
  <2>5. d(b).at = "sent" /\ d(b).heard /\ d(b).to # "create"
    BY DEF OnAgent, Call
  <2> HIDE DEF d
  <2> QED
    BY <2>2, <2>3, <2>4, <2>5
<1>9. CASE \E i, j \in 1..MaxSessions : Drag(i, j)
  <2> PICK i \in 1..MaxSessions, j \in 1..MaxSessions : Drag(i, j)
    BY <1>9
  <2>1. ListOk(list', handles) /\ Send(Placed(list'))
    BY <1>0, DragIs
  <2>2. UNCHANGED <<handles, disk, registry, replies>>
    BY DEF Drag
  <2>3. ASSUME NEW c \in Placed(list')
        PROVE  CallOk(c, handles) /\ c.at = "sent" /\ c.heard /\ c.to # "create"
    <3>1. PICK k \in DOMAIN list' : c = [OnAgent("place", list'[k].id) EXCEPT !.order = list'[k].order]
      BY <2>3 DEF Placed
    <3>2. list'[k].id \in DOMAIN handles /\ list'[k].order \in 0..NoOrder
      <4>1. list'[k] \in ToSet(list')
        BY DEF ToSet
      <4> QED
        BY <2>1, <4>1, ListItems DEF EntryType
    <3>3. CallOk(c, handles)
      BY <1>0, <1>a, <3>1, <3>2, AgentCallOk
    <3>4. c.at = "sent" /\ c.heard /\ c.to # "create"
      BY <3>1 DEF OnAgent, Call
    <3> QED
      BY <3>3, <3>4
  <2> QED
    BY <2>1, <2>2, <2>3
<1> QED
  BY <1>4, <1>5, <1>7, <1>8, <1>9 DEF UserSteps

LEMMA DiskStep ==
  ASSUME SidebarTypes, SidebarNext
  PROVE  SavedOk(disk', handles')
<1>1. HandlesOk(handles') /\ Grows(handles, handles')
  BY HandlesStep DEF SidebarTypes
<1>2. SavedOk(disk', handles)
  <2>1. CASE UNCHANGED disk
    BY <2>1 DEF SidebarTypes
  <2>2. CASE \E c \in calls : RemoveWorkspace(c)
    BY <2>2, CallIs DEF SidebarTypes, RemoveWorkspace, Saving
  <2>3. CASE \E c \in calls : SaveAgents(c)
    BY <2>3 DEF SidebarTypes, CallOk, SaveAgents
  <2> QED
    BY <2>1, <2>2, <2>3, DiskChange
<1> QED
  BY <1>1, <1>2, HandlesGrow

LEMMA RepliesStep ==
  ASSUME SidebarTypes, SidebarNext, NEW r \in replies'
  PROVE  ReplyOk(r, handles')
<1>1. HandlesOk(handles') /\ Grows(handles, handles')
  BY HandlesStep DEF SidebarTypes
<1>2. CASE r \in replies
  BY <1>1, <1>2, HandlesGrow DEF SidebarTypes
<1>3. CASE \E c \in calls : (Register(c) \/ SaveAgents(c)) /\ r \in Reply(c) /\ (SaveAgents(c) => c.to \in {"create", "stop"})
  <2> PICK c \in calls : (Register(c) \/ SaveAgents(c)) /\ r \in Reply(c) /\ (SaveAgents(c) => c.to \in {"create", "stop"})
    BY <1>3
  <2>1. c.to = "register" \/ (c.to \in {"create", "stop"} /\ c.at # "sent")
    BY DEF Register, SaveAgents, Arrived
  <2>2. CallOk(c, handles)
    BY DEF SidebarTypes
  <2>3. ReplyOk(r, handles)
    BY <2>1, <2>2, ReplyIs
  <2> QED
    BY <1>1, <2>3, HandlesGrow
<1>4. r \in replies \/ \E c \in calls : (Register(c) \/ SaveAgents(c)) /\ r \in Reply(c) /\ (SaveAgents(c) => c.to \in {"create", "stop"})
  <2>1. CASE \E c \in calls : Register(c)
    <3> PICK c \in calls : Register(c)
      BY <2>1
    <3>1. replies' = replies \cup Reply(c) /\ c.at = "sent"
      BY DEF Register, Arrived
    <3>2. ~SaveAgents(c)
      BY <3>1 DEF SaveAgents
    <3> QED
      BY <3>1, <3>2
  <2>2. CASE \E c \in calls : SaveAgents(c)
    BY <2>2 DEF SaveAgents
  <2>3. CASE UNCHANGED replies \/ (\E c \in replies : Receive(c)) \/ Reload
    BY <2>3 DEF Receive, Reload
  <2> QED
    BY <2>1, <2>2, <2>3, RepliesChange
<1> QED
  BY <1>2, <1>3, <1>4

LEMMA NewIdIs ==
  ASSUME HandlesOk(handles)
  PROVE  NewId = Len(handles) + 1 /\ Cardinality(DOMAIN handles) = Len(handles) /\ Len(handles) \in Nat
<1>1. DOMAIN handles = 1..Len(handles) /\ Len(handles) \in Nat
  BY LenProperties DEF HandlesOk
<1> QED
  BY <1>1, PlacesCounted DEF NewId

\* What becomes of a request in a step of the daemon.
LEMMA AppliedIs ==
  ASSUME SidebarTypes, NEW c \in calls, CreateSession(c) \/ StopSession(c) \/ PinSession(c) \/ PlaceSession(c)
  PROVE  /\ c.at = "sent" /\ c.to \in Saving
         /\ \E i \in DOMAIN handles' :
              /\ calls' = (calls \ {c}) \cup {[c EXCEPT !.at = "applied", !.id = i]}
              /\ CallOk([c EXCEPT !.at = "applied", !.id = i], handles')
              /\ c.to # "create" => i = c.id /\ i \in DOMAIN handles
              /\ c.to = "create" => i = Len(handles) + 1
         /\ UNCHANGED <<browser, registry, disk, replies, overtaken, hydrated>> /\ hydrates' = Missed
<1>1. c.at = "sent" /\ c.to \in Saving /\ UNCHANGED <<browser, registry, disk, replies, overtaken, hydrated>> /\ hydrates' = Missed
  BY DEF CreateSession, StopSession, PinSession, PlaceSession, Arrived, Applied, Saving
<1>2. SidebarNext
  BY DEF SidebarNext
<1>3. HandlesOk(handles') /\ Grows(handles, handles') /\ HandlesOk(handles)
  BY <1>2, HandlesStep DEF SidebarTypes
<1>4. CallOk(c, handles) /\ CallOk(c, handles')
  BY <1>3, HandlesGrow DEF SidebarTypes
<1>5. CASE CreateSession(c)
  <2>1. c.to = "create" /\ Applied(c, NewId)
    BY <1>5 DEF CreateSession, Arrived
  <2>2. NewId \in DOMAIN handles'
    <3>1. handles \in Seq(Agent) /\ handles' = Append(handles, [live |-> TRUE, pinned |-> FALSE, order |-> NoOrder])
      BY <1>3, <1>5 DEF CreateSession, HandlesOk
    <3>2. Len(handles') = Len(handles) + 1 /\ DOMAIN handles' = 1..Len(handles')
      BY <3>1, <1>3, LenProperties DEF HandlesOk
    <3> QED
      BY <1>3, <3>2, NewIdIs
  <2>3. CallOk([c EXCEPT !.at = "applied", !.id = NewId], handles')
    BY <1>1, <1>3, <1>4, <2>1, <2>2, AppliedCallOk
  <2> QED
    BY <1>1, <1>3, <2>1, <2>2, <2>3, NewIdIs DEF Applied
<1>6. CASE StopSession(c) \/ PinSession(c) \/ PlaceSession(c)
  <2>1. c.to \in {"stop", "pin", "place"} /\ Applied(c, c.id)
    BY <1>6 DEF StopSession, PinSession, PlaceSession, Arrived
  <2>2. c.id \in DOMAIN handles /\ c.id \in DOMAIN handles'
    BY <1>3, <1>4, <2>1 DEF CallOk, Saving, Grows
  <2>3. CallOk([c EXCEPT !.at = "applied", !.id = c.id], handles')
    BY <1>1, <1>3, <1>4, <2>1, <2>2, AppliedCallOk
  <2> QED
    BY <1>1, <2>1, <2>2, <2>3 DEF Applied
<1> QED
  BY <1>5, <1>6

LEMMA CallsStep ==
  ASSUME SidebarTypes, SidebarNext, NEW c \in calls'
  PROVE  CallOk(c, handles')
<1>1. HandlesOk(handles') /\ Grows(handles, handles')
  BY HandlesStep DEF SidebarTypes
<1>2. \A d : CallOk(d, handles) => CallOk(d, handles')
  BY <1>1, HandlesGrow
<1>3. \A d \in calls : CallOk(d, handles) /\ CallOk(d, handles')
  BY <1>2 DEF SidebarTypes
<1>4. CASE UNCHANGED calls
  BY <1>3, <1>4
<1>5. CASE UserSteps
  BY <1>2, <1>3, <1>5, UserCalls DEF Send
<1>6. CASE \E d \in calls : Register(d) \/ RemoveWorkspace(d) \/ Configure(d) \/ Lost(d) \/ SaveAgents(d)
  BY <1>3, <1>6 DEF Register, RemoveWorkspace, Configure, Lost, SaveAgents
<1>7. CASE \E d \in calls : CreateSession(d) \/ StopSession(d) \/ PinSession(d) \/ PlaceSession(d)
  BY <1>3, <1>7, AppliedIs
<1>8. CASE \E d \in calls : Collect(d)
  <2> PICK d \in calls : Collect(d)
    BY <1>8
  <2>1. SavedOk(Snapshot(d), handles)
    BY SnapshotOk DEF SidebarTypes
  <2>2. d.at = "applied" /\ calls' = (calls \ {d}) \cup {[d EXCEPT !.at = "collected", !.snap = Snapshot(d)]}
    BY DEF Collect
  <2>3. CallOk([d EXCEPT !.at = "collected", !.snap = Snapshot(d)], handles)
    BY <1>3, <2>1, <2>2, CollectedCallOk
  <2> QED
    BY <1>2, <1>3, <2>2, <2>3
<1>9. CASE Reload
  <2>1. PICK d \in calls : c = [d EXCEPT !.heard = FALSE]
    BY <1>9 DEF Reload
  <2> QED
    BY <1>3, <2>1, UnheardCallOk
<1> QED
  BY <1>4, <1>5, <1>6, <1>7, <1>8, <1>9, CallsChange

\* Where a request after a step comes from.
LEMMA CallOrigin ==
  ASSUME SidebarTypes, SidebarNext, ~UserSteps, NEW c \in calls'
  PROVE  \E d \in calls : /\ c.to = d.to /\ c.path = d.path /\ (c.at = "sent" => d.at = "sent")
                          /\ c.id = d.id \/ (c.to = "create" /\ d.at = "sent" /\ c.id = Len(handles) + 1)
                          /\ \/ c = d
                             \/ d \notin calls' /\ calls' = (calls \ {d}) \cup {c} /\ c.at # "sent"
                             \/ Reload /\ c = [d EXCEPT !.heard = FALSE]
<1>1. \A d \in calls : d \in CallType
  BY DEF SidebarTypes, CallOk
<1>2. CASE UNCHANGED calls
  BY <1>2
<1>3. CASE \E d \in calls : Register(d) \/ RemoveWorkspace(d) \/ Configure(d) \/ Lost(d) \/ SaveAgents(d)
  BY <1>3 DEF Register, RemoveWorkspace, Configure, Lost, SaveAgents
<1>4. CASE \E d \in calls : CreateSession(d) \/ StopSession(d) \/ PinSession(d) \/ PlaceSession(d)
  <2> PICK d \in calls : CreateSession(d) \/ StopSession(d) \/ PinSession(d) \/ PlaceSession(d)
    BY <1>4
  <2>1. PICK i \in DOMAIN handles' : /\ calls' = (calls \ {d}) \cup {[d EXCEPT !.at = "applied", !.id = i]} /\ d.at = "sent"
                                     /\ d.to # "create" => i = d.id
                                     /\ d.to = "create" => i = Len(handles) + 1
    BY AppliedIs
  <2> DEFINE e == [d EXCEPT !.at = "applied", !.id = i]
  <2>2. e.to = d.to /\ e.path = d.path /\ e.at = "applied" /\ e.id = i /\ e # d
    BY <1>1, <2>1 DEF CallType
  <2> HIDE DEF e
  <2>3. calls' = (calls \ {d}) \cup {e}
    BY <2>1 DEF e
  <2> QED
    BY <2>1, <2>2, <2>3
<1>5. CASE \E d \in calls : Collect(d)
  <2> PICK d \in calls : Collect(d)
    BY <1>5
  <2> DEFINE e == [d EXCEPT !.at = "collected", !.snap = Snapshot(d)]
  <2>1. d.at = "applied"
    BY DEF Collect
  <2>2. e.to = d.to /\ e.path = d.path /\ e.at = "collected" /\ e.id = d.id /\ e # d
    BY <1>1, <2>1 DEF CallType
  <2>3. calls' = (calls \ {d}) \cup {e}
    BY DEF Collect
  <2> HIDE DEF e
  <2> QED
    BY <2>2, <2>3
<1>6. CASE Reload
  <2>1. PICK d \in calls : c = [d EXCEPT !.heard = FALSE]
    BY <1>6 DEF Reload
  <2> QED
    BY <1>1, <1>6, <2>1 DEF CallType
<1> QED
  BY <1>2, <1>3, <1>4, <1>5, <1>6, CallsChange

LEMMA RoomStep ==
  ASSUME SidebarTypes, SidebarNext
  PROVE  Room'
<1> SUFFICES ASSUME NEW c \in calls', c.to = "create", c.at = "sent" PROVE Len(handles') < MaxSessions
  BY DEF Room
<1>1. CASE UserSteps
  <2>1. UNCHANGED handles /\ (c \in calls \/ StartAgent)
    BY <1>1, UserCalls DEF Send
  <2>2. CASE c \in calls
    BY <2>1, <2>2 DEF SidebarTypes, Room
  <2>3. CASE StartAgent
    BY <2>1, <2>3, NewIdIs DEF StartAgent, SidebarTypes
  <2> QED
    BY <2>1, <2>2, <2>3
<1>2. CASE ~UserSteps
  <2>1. PICK d \in calls : /\ c.to = d.to /\ (c.at = "sent" => d.at = "sent")
                           /\ \/ c = d
                              \/ d \notin calls' /\ calls' = (calls \ {d}) \cup {c}
                              \/ Reload /\ c = [d EXCEPT !.heard = FALSE]
    BY <1>2, CallOrigin
  <2>2. Len(handles) < MaxSessions
    BY <2>1 DEF SidebarTypes, Room
  <2>3. CASE \E e \in calls : CreateSession(e)
    <3> PICK e \in calls : CreateSession(e)
      BY <2>3
    <3>1. PICK i \in DOMAIN handles' : calls' = (calls \ {e}) \cup {[e EXCEPT !.at = "applied", !.id = i]}
      BY AppliedIs
    <3>2. e \in CallType /\ e.to = "create" /\ e.at = "sent"
      BY DEF SidebarTypes, CallOk, CreateSession, Arrived
    <3>3. [e EXCEPT !.at = "applied", !.id = i].at = "applied"
      BY <3>2 DEF CallType
    <3>4. c \in calls /\ c # e
      BY <3>1, <3>3
    <3> QED
      BY <3>2, <3>4 DEF SidebarTypes, Alone
  <2>4. CASE ~\E e \in calls : CreateSession(e)
    <3>1. Len(handles') = Len(handles)
      <4>1. HandlesOk(handles) /\ HandlesOk(handles')
        BY HandlesStep DEF SidebarTypes
      <4>2. DOMAIN handles' = DOMAIN handles
        BY <2>4, HandlesChange DEF StopSession, PinSession, PlaceSession, Exit, Revive
      <4> QED
        BY <4>1, <4>2, LenProperties DEF HandlesOk
    <3> QED
      BY <2>2, <3>1
  <2> QED
    BY <2>3, <2>4
<1> QED
  BY <1>1, <1>2

\* An agent that is being started is a request or an answer, not both.
LEMMA AloneStep ==
  ASSUME SidebarTypes, SidebarNext
  PROVE  Alone'
<1>0. Alone /\ \A r \in replies : ReplyOk(r, handles)
  BY DEF SidebarTypes
<1>1. CASE UserSteps
  <2>1. PICK new : /\ calls' = calls \cup new /\ replies' = replies
                   /\ \A c \in new : c.to = "create" => StartAgent /\ c = Call("create")
    BY <1>1, UserCalls DEF Send
  <2>2. CASE StartAgent
    <3>1. \A c \in calls \cup replies : c.to # "create"
      BY <2>2 DEF StartAgent
    <3> QED
      BY <2>1, <3>1 DEF Alone
  <2>3. CASE ~StartAgent
    BY <1>0, <2>1, <2>3 DEF Alone
  <2> QED
    BY <2>2, <2>3
<1>2. CASE ~UserSteps
  <2>1. \A c, d \in calls' : c.to = "create" /\ d.to = "create" => c = d
    <3> SUFFICES ASSUME NEW c \in calls', NEW d \in calls', c.to = "create", d.to = "create" PROVE c = d
      OBVIOUS
    <3>1. PICK a \in calls : /\ c.to = a.to
                             /\ \/ c = a
                                \/ a \notin calls' /\ calls' = (calls \ {a}) \cup {c}
                                \/ Reload /\ c = [a EXCEPT !.heard = FALSE]
      BY <1>2, CallOrigin
    <3>2. PICK b \in calls : /\ d.to = b.to
                             /\ \/ d = b
                                \/ b \notin calls' /\ calls' = (calls \ {b}) \cup {d}
                                \/ Reload /\ d = [b EXCEPT !.heard = FALSE]
      BY <1>2, CallOrigin
    <3>3. a = b
      BY <1>0, <3>1, <3>2 DEF Alone
    <3>4. CASE Reload
      <4>1. /\ \E x \in calls : c = [x EXCEPT !.heard = FALSE] /\ x.to = "create"
            /\ \E x \in calls : d = [x EXCEPT !.heard = FALSE] /\ x.to = "create"
        <5>1. ASSUME NEW y \in calls', y.to = "create" PROVE \E x \in calls : y = [x EXCEPT !.heard = FALSE] /\ x.to = "create"
          <6>1. PICK x \in calls : y = [x EXCEPT !.heard = FALSE]
            BY <3>4, <5>1 DEF Reload
          <6>2. x \in CallType
            BY DEF SidebarTypes, CallOk
          <6> QED
            BY <5>1, <6>1, <6>2 DEF CallType
        <5> QED
          BY <5>1
      <4> QED
        BY <1>0, <4>1 DEF Alone
    <3>5. CASE ~Reload
      <4>1. CASE c \in calls \/ d \in calls
        BY <1>0, <3>1, <3>2, <3>3, <3>5, <4>1 DEF Alone
      <4>2. CASE c \notin calls /\ d \notin calls
        BY <3>1, <3>2, <3>5, <4>2
      <4> QED
        BY <4>1, <4>2
    <3> QED
      BY <3>4, <3>5
  <2>2. CASE UNCHANGED replies
    <3>1. \A c \in calls' : \E a \in calls : c.to = a.to
      BY <1>2, CallOrigin
    <3> QED
      BY <1>0, <2>1, <2>2, <3>1 DEF Alone
  <2>3. CASE \E c \in calls : Register(c) \/ SaveAgents(c)
    <3> PICK c \in calls : Register(c) \/ SaveAgents(c)
      BY <2>3
    <3>1. calls' = calls \ {c} /\ (replies' = replies \/ replies' = replies \cup Reply(c))
      BY DEF Register, SaveAgents
    <3>2. \A r \in Reply(c) : r.to = c.to
      <4>1. c \in CallType
        BY DEF SidebarTypes, CallOk
      <4> QED
        BY <4>1 DEF Reply, CallType
    <3>3. \A r, s \in Reply(c) : r = s
      BY DEF Reply
    <3> QED
      BY <1>0, <3>1, <3>2, <3>3 DEF Alone
  <2>4. CASE \E c \in replies : Receive(c)
    BY <1>0, <2>4 DEF Receive, Alone
  <2>5. CASE Reload
    BY <2>1, <2>5 DEF Reload, Alone
  <2> QED
    BY <2>2, <2>3, <2>4, <2>5, RepliesChange
<1> QED
  BY <1>1, <1>2

LEMMA SeqToSeqsIs ==
  ASSUME NEW n \in Nat, NEW S, S \subseteq 1..n, NEW s \in SetToSeqs(S)
  PROVE  /\ s \in Seq(S) /\ ToSet(s) = S
         /\ \A j, k \in DOMAIN s : s[j] = s[k] => j = k
<1> DEFINE m == Cardinality(S)
<1>1. IsFiniteSet(S) /\ m \in Nat
  <2>1. IsFiniteSet(1..n)
    BY PlacesCounted
  <2>2. IsFiniteSet(S)
    BY <2>1, FS_Subset
  <2> QED
    BY <2>2, FS_CardinalityType
<1>2. s \in [1..m -> S] /\ \A i, j \in 1..m : i # j => s[i] # s[j]
  BY DEF SetToSeqs
<1>3. s \in Seq(S)
  BY <1>1, <1>2, IsASeq
<1>4. IsFiniteSet(1..m) /\ Cardinality(1..m) = m
  BY <1>1, PlacesCounted
<1> HIDE DEF m
<1>5. s \in Injection(1..m, S)
  BY <1>2 DEF Injection, IsInjective
<1>6. s \in Surjection(1..m, S)
  <2>1. Cardinality(1..m) = Cardinality(S)
    BY <1>4 DEF m
  <2>2. Cardinality(1..m) = Cardinality(S) <=> s \in Surjection(1..m, S)
    BY <1>1, <1>5, FS_Injection
  <2> QED
    BY <2>1, <2>2
<1>7. \A x \in S : \E i \in 1..m : s[i] = x
  BY <1>6 DEF Surjection
<1>8. DOMAIN s = 1..m /\ \A i \in 1..m : s[i] \in S
  BY <1>2
<1>9. ToSet(s) = S
  BY <1>7, <1>8 DEF ToSet
<1>10. \A j, k \in DOMAIN s : s[j] = s[k] => j = k
  BY <1>2, <1>8
<1> QED
  BY <1>3, <1>9, <1>10

LEMMA BootstrappedIs ==
  ASSUME HandlesOk(handles), SavedOk(disk, handles), NEW i \in Live
  PROVE  Bootstrapped(i) \in EntryType /\ Bootstrapped(i).id = i
<1>1. i \in DOMAIN handles /\ handles[i] \in Agent /\ i \in Nat
  BY LenProperties, ElementOfSeq DEF HandlesOk, Live
<1>2. i \in DOMAIN disk => disk[i] \in Saved
  BY DEF SavedOk, Collections
<1> DEFINE b == IF i \in DOMAIN disk THEN disk[i].pinned ELSE handles[i].pinned
           r == IF i \in DOMAIN disk /\ disk[i].order # NoOrder THEN disk[i].order ELSE handles[i].order
<1>3. b \in BOOLEAN /\ r \in 0..NoOrder
  BY <1>1, <1>2 DEF Agent, Saved
<1>4. Bootstrapped(i) = [id |-> i, pinned |-> b, order |-> r]
  BY DEF Bootstrapped
<1> HIDE DEF b, r
<1> QED
  BY <1>1, <1>3, <1>4 DEF EntryType

\* What a bootstrap answers.
LEMMA AnswerIs ==
  ASSUME SidebarTypes, NEW h \in hydrates, Answer(h)
  PROVE  \E g : /\ hydrates' = (hydrates \ {h}) \cup {g}
                /\ HydrateOk(g, handles)
                /\ g.at = "answered" /\ g.stale = h.stale
                /\ \A i \in Live : \E e \in ToSet(g.list) : e.id = i
                /\ \A e \in ToSet(g.list) : e.id \in Live /\ e = Bootstrapped(e.id)
                /\ ToSet(g.roots) = {[path |-> e.path, pinned |-> e.pinned, known |-> TRUE] : e \in ToSet(Listed(h.roots))}
<1>0. HandlesOk(handles) /\ SavedOk(disk, handles) /\ RegistryOk(h.roots) /\ HydrateOk(h, handles)
  BY DEF SidebarTypes, HydrateOk, Answer, RegistryOk
<1> DEFINE shown == Listed(h.roots)
<1> DEFINE rs == [k \in DOMAIN shown |-> [path |-> shown[k].path, pinned |-> shown[k].pinned, known |-> TRUE]]
           es(s) == [k \in DOMAIN s |-> Bootstrapped(s[k])]
<1>1. PICK s \in SetToSeqs(Live) :
         hydrates' = (hydrates \ {h}) \cup {[h EXCEPT !.at = "answered", !.roots = rs, !.list = es(s)]}
  BY DEF Answer
<1>2. RegistryOk(shown)
  BY <1>0, EnrolledIs, SidebarAssumption DEF Listed
<1> HIDE DEF shown
<1>3. /\ shown \in Seq(Workspace) /\ UniquePaths(shown) /\ DOMAIN shown = 1..Len(shown) /\ Len(shown) \in Nat
      /\ \A k \in DOMAIN shown : shown[k].path \in Paths /\ shown[k].pinned \in BOOLEAN
  <2>1. /\ shown \in Seq(Workspace) /\ UniquePaths(shown) /\ DOMAIN shown = 1..Len(shown) /\ Len(shown) \in Nat
        /\ \A k \in DOMAIN shown : shown[k] \in Workspace
    BY <1>2, LenProperties, ElementOfSeq DEF RegistryOk
  <2> QED
    BY <2>1 DEF Workspace
<1>4. rs \in Seq(Root)
  <2>1. \A k \in 1..Len(shown) : rs[k] \in Root
    BY <1>3 DEF Root
  <2>2. rs \in [1..Len(shown) -> Root]
    BY <1>3, <2>1
  <2> QED
    BY <1>3, <2>2, IsASeq
<1>5. UniquePaths(rs)
  BY <1>3 DEF UniquePaths
<1>6. ToSet(rs) = {[path |-> e.path, pinned |-> e.pinned, known |-> TRUE] : e \in ToSet(shown)}
  BY DEF ToSet
<1> HIDE DEF rs
<1>7. /\ s \in Seq(Live) /\ ToSet(s) = Live
      /\ \A j, k \in DOMAIN s : s[j] = s[k] => j = k
  <2>1. DOMAIN handles = 1..Len(handles) /\ Len(handles) \in Nat /\ Live \subseteq DOMAIN handles
    BY <1>0, LenProperties DEF HandlesOk, Live
  <2> QED
    BY <2>1, SeqToSeqsIs
<1>8. DOMAIN s = 1..Len(s) /\ Len(s) \in Nat /\ \A k \in DOMAIN s : s[k] \in Live
  BY <1>7, LenProperties, ElementOfSeq
<1>9. \A k \in DOMAIN s : es(s)[k] \in EntryType /\ es(s)[k].id = s[k] /\ es(s)[k] = Bootstrapped(s[k])
  BY <1>0, <1>8, BootstrappedIs
<1>10. DOMAIN es(s) = DOMAIN s /\ es(s) = [k \in DOMAIN s |-> es(s)[k]]
  OBVIOUS
<1> HIDE DEF es
<1>11. es(s) \in Seq(EntryType)
  <2>1. es(s) \in [1..Len(s) -> EntryType]
    BY <1>8, <1>9, <1>10
  <2> QED
    BY <1>8, <2>1, IsASeq
<1>12. UniqueIds(es(s))
  BY <1>7, <1>9, <1>10 DEF UniqueIds
<1>13. \A e \in ToSet(es(s)) : e.id \in Live /\ e = Bootstrapped(e.id)
  BY <1>8, <1>9, <1>10 DEF ToSet
<1>14. \A i \in Live : \E e \in ToSet(es(s)) : e.id = i
  BY <1>7, <1>9, <1>10 DEF ToSet
<1>15. ListOk(es(s), handles)
  BY <1>11, <1>12, <1>13, ListOfItems DEF Live
<1> DEFINE g == [h EXCEPT !.at = "answered", !.roots = rs, !.list = es(s)]
<1>16. g.at = "answered" /\ g.stale = h.stale /\ g.roots = rs /\ g.list = es(s)
  BY <1>0 DEF HydrateOk
<1>17. HydrateOk(g, handles)
  BY <1>0, <1>4, <1>5, <1>11, <1>15 DEF HydrateOk
<1> HIDE DEF g
<1>18. hydrates' = (hydrates \ {h}) \cup {g}
  BY <1>1 DEF g
<1> QED
  BY <1>6, <1>13, <1>14, <1>16, <1>17, <1>18 DEF shown

LEMMA AskedOk ==
  ASSUME NEW n \in Nat, NEW h
  PROVE  HydrateOk(Asked(n), h) /\ Asked(n).at = "asked"
<1>1. <<>> \in Seq(Root) /\ <<>> \in Seq(EntryType) /\ DOMAIN <<>> = {}
  OBVIOUS
<1>2. UniquePaths(<<>>) /\ ListOk(<<>>, h)
  BY <1>1 DEF UniquePaths, ListOk, UniqueIds
<1>3. SavedOk(<<>>, h)
  BY CallIs DEF Saving
<1> QED
  BY <1>1, <1>2, <1>3 DEF HydrateOk, Asked, SavedOk

LEMMA GesturesStep ==
  ASSUME SidebarTypes, SidebarNext
  PROVE  gestures' \in Nat
<1>0. gestures \in Nat
  BY DEF SidebarTypes
<1>1. ASSUME gestures' = gestures - 1, gestures > 0 PROVE gestures' \in Nat
  BY <1>0, <1>1
<1>2. UNCHANGED gestures \/ (gestures' = gestures - 1 /\ gestures > 0)
  <2> USE DEF Gesture
  <2>1. CASE \E p \in Paths : AddRoot(p) \/ Select(p) \/ RemoveRoot(p) \/ PinRoot(p) \/ \E q \in Paths : DragRoot(p, q)
    BY <2>1 DEF AddRoot, Select, RemoveRoot, PinRoot, DragRoot
  <2>2. CASE StartAgent
    BY <2>2 DEF StartAgent
  <2>3. CASE \E i \in 1..MaxSessions : StopAgent(i) \/ Pin(i) \/ AgentGone(i) \/ Exit(i) \/ \E j \in 1..MaxSessions : Drag(i, j)
    BY <2>3 DEF StopAgent, Pin, AgentGone, Exit, Drag
  <2>4. CASE \E c \in calls : Register(c) \/ RemoveWorkspace(c) \/ Configure(c) \/ Lost(c)
         \/ CreateSession(c) \/ StopSession(c) \/ PinSession(c) \/ PlaceSession(c)
         \/ Collect(c) \/ SaveAgents(c)
    BY <2>4 DEF Register, RemoveWorkspace, Configure, Lost, CreateSession, StopSession, PinSession, PlaceSession, Applied, Collect, SaveAgents
  <2>5. CASE (\E c \in replies : Receive(c)) \/ Reconnect \/ Reload
    BY <2>5 DEF Receive, Reconnect, Reload
  <2>6. CASE \E h \in hydrates : Load(h) \/ Revive(h) \/ Answer(h) \/ Arrive(h) \/ HydrationFails(h)
    BY <2>6, HydrationLeaves
  <2> QED
    BY <2>1, <2>2, <2>3, <2>4, <2>5, <2>6 DEF SidebarNext
<1> QED
  BY <1>0, <1>1, <1>2

LEMMA HydratesStep ==
  ASSUME SidebarTypes, SidebarNext, NEW g \in hydrates'
  PROVE  HydrateOk(g, handles')
<1>0. /\ \A r : HydrateOk(r, handles) => HydrateOk(r, handles')
      /\ \A h \in hydrates : HydrateOk(h, handles) /\ HydrateOk(h, handles')
  BY HandlesStep, HandlesGrow DEF SidebarTypes
<1>1. ASSUME NEW h \in hydrates, NEW b \in BOOLEAN PROVE HydrateOk([h EXCEPT !.stale = b], handles')
  BY <1>0 DEF HydrateOk
<1>2. ASSUME NEW h \in hydrates PROVE HydrateOk([h EXCEPT !.heard = FALSE], handles')
  BY <1>0 DEF HydrateOk
<1>3. CASE UNCHANGED hydrates
  BY <1>0, <1>3
<1>4. CASE hydrates' = Missed \/ \E i \in 1..MaxSessions : Exit(i)
  <2>1. \E h \in hydrates, b \in BOOLEAN : g = [h EXCEPT !.stale = b]
    <3>1. CASE hydrates' = Missed
      <4>1. PICK h \in hydrates : g = [h EXCEPT !.stale = @ \/ h.at # "asked"]
        BY <3>1 DEF Missed
      <4>2. (h.stale \/ h.at # "asked") \in BOOLEAN
        OBVIOUS
      <4> QED
        BY <4>1, <4>2
    <3>2. CASE \E i \in 1..MaxSessions : Exit(i)
      <4>1. PICK h \in hydrates : g = [h EXCEPT !.stale = @ \/ h.at = "revived"]
        BY <3>2 DEF Exit
      <4>2. (h.stale \/ h.at = "revived") \in BOOLEAN
        OBVIOUS
      <4> QED
        BY <4>1, <4>2
    <3> QED
      BY <1>4, <3>1, <3>2
  <2> QED
    BY <1>1, <2>1
<1>5. CASE \E h \in hydrates : Load(h)
  <2> PICK h \in hydrates : Load(h)
    BY <1>5
  <2> DEFINE f == [h EXCEPT !.at = "loaded", !.saved = disk, !.roots = registry, !.stale = calls # {}]
  <2>1. registry \in Seq(Workspace) /\ UniquePaths(registry) /\ SavedOk(disk, handles) /\ disk \in Collections
    BY DEF SidebarTypes, RegistryOk, SavedOk
  <2>2. (calls # {}) \in BOOLEAN
    OBVIOUS
  <2>3. HydrateOk(f, handles)
    BY <1>0, <2>1, <2>2 DEF HydrateOk
  <2> HIDE DEF f
  <2>4. hydrates' = (hydrates \ {h}) \cup {f}
    BY DEF Load, f
  <2> QED
    BY <1>0, <2>3, <2>4
<1>6. CASE \E h \in hydrates : Revive(h)
  <2> PICK h \in hydrates : Revive(h)
    BY <1>6
  <2> DEFINE f == [h EXCEPT !.at = "revived", !.saved = <<>>]
  <2>1. SavedOk(<<>>, handles) /\ <<>> \in Collections /\ h.at = "loaded"
    BY CallIs DEF Saving, SavedOk, Revive
  <2>2. HydrateOk(f, handles)
    BY <1>0, <2>1 DEF HydrateOk
  <2> HIDE DEF f
  <2>3. hydrates' = (hydrates \ {h}) \cup {f}
    BY DEF Revive, f
  <2> QED
    BY <1>0, <2>2, <2>3
<1>7. CASE \E h \in hydrates : Answer(h)
  BY <1>0, <1>7, AnswerIs
<1>8. CASE \E h \in hydrates : Arrive(h) \/ HydrationFails(h)
  BY <1>0, <1>2, <1>8 DEF Arrive, HydrationFails
<1>9. CASE Reconnect \/ Reload
  <2>1. g = Asked(gestures') \/ g \in hydrates \/ \E h \in hydrates : g = [h EXCEPT !.heard = FALSE]
    BY <1>9 DEF Reconnect, Reload
  <2> QED
    BY <1>0, <1>2, <2>1, AskedOk, GesturesStep
<1> QED
  BY <1>3, <1>4, <1>5, <1>6, <1>7, <1>8, <1>9, HydratesChange

LEMMA FlagsStep ==
  ASSUME SidebarTypes, SidebarNext
  PROVE  hydrated' \in BOOLEAN /\ overtaken' \in BOOLEAN
<1>0. hydrated \in BOOLEAN /\ overtaken \in BOOLEAN
  BY DEF SidebarTypes
<1>1. hydrated' \in BOOLEAN
  BY <1>0, HydratedChange DEF Arrive, Reload
<1>2. overtaken' = TRUE \/ overtaken' = FALSE
  <2>1. CASE UNCHANGED overtaken
    BY <1>0, <2>1
  <2>2. CASE \E new : Send(new)
    BY <2>2 DEF Send
  <2>3. CASE \E c \in calls : Register(c) \/ Configure(c) \/ Lost(c)
    BY <2>3 DEF Register, Configure, Lost
  <2>4. CASE \E c \in calls : SaveAgents(c)
    BY <2>4 DEF SaveAgents
  <2>5. CASE \E c \in replies : Receive(c)
    BY <1>0, <2>5 DEF Receive, RegisterReply, CreateReply, StopReply
  <2>6. CASE \E h \in hydrates : Arrive(h) \/ Revive(h)
    BY <2>6 DEF Arrive, Revive
  <2>7. CASE UserSteps
    BY <2>2, <2>7, UserCalls
  <2>8. CASE \E p \in Paths : Select(p) \/ \E q \in Paths : DragRoot(p, q)
    BY <2>1, <2>8 DEF Select, DragRoot
  <2>9. CASE \E i \in 1..MaxSessions : Exit(i)
    BY <2>1, <2>9 DEF Exit
  <2>10. CASE \E c \in calls : RemoveWorkspace(c) \/ CreateSession(c) \/ StopSession(c) \/ PinSession(c) \/ PlaceSession(c) \/ Collect(c)
    BY <2>1, <2>10 DEF RemoveWorkspace, CreateSession, StopSession, PinSession, PlaceSession, Applied, Collect
  <2>11. CASE Reconnect \/ Reload \/ \E h \in hydrates : Load(h) \/ Answer(h) \/ HydrationFails(h)
    BY <2>1, <2>11, HydrationLeaves DEF Reconnect, Reload
  <2> QED
    BY <2>3, <2>4, <2>5, <2>6, <2>7, <2>8, <2>9, <2>10, <2>11 DEF SidebarNext, UserSteps
<1> QED
  BY <1>1, <1>2

LEMMA SidebarTypesInit ==
  ASSUME SidebarInit
  PROVE  SidebarTypes
<1> USE SidebarAssumption
<1>1. <<>> \in Seq(Root) /\ <<>> \in Seq(EntryType) /\ DOMAIN <<>> = {}
  OBVIOUS
<1>2. RootsOk(<<>>) /\ UniquePaths(<<>>) /\ \A h : ListOk(<<>>, h)
  BY <1>1 DEF UniquePaths, ListOk, UniqueIds, RootsOk, PinnedFirst
<1>3. NoRoot \in SelType
  BY DEF NoRoot, SelType
<1>4. RegistryOk(registry)
  <2>1. registry = <<[path |-> Home, pinned |-> FALSE]>> /\ [path |-> Home, pinned |-> FALSE] \in Workspace
    BY DEF SidebarInit, Workspace
  <2>2. \A x \in Workspace : <<x>> \in Seq(Workspace) /\ DOMAIN <<x>> = {1}
    OBVIOUS
  <2> QED
    BY <2>1, <2>2 DEF RegistryOk, UniquePaths
<1>5. PICK n \in DOMAIN Gestures :
         /\ handles = [i \in 1..n |-> [live |-> TRUE, pinned |-> FALSE, order |-> NoOrder]]
         /\ disk = [i \in 1..n |-> [pinned |-> FALSE, order |-> NoOrder]]
         /\ gestures = Gestures[n]
  BY DEF SidebarInit
<1>6. n \in 1..MaxSessions /\ gestures \in Nat
  <2>1. n \in 1..Len(Gestures) /\ Len(Gestures) \in Nat /\ Gestures[n] \in Nat
    BY LenProperties, ElementOfSeq
  <2> QED
    BY <1>5, <2>1
<1>7. /\ [live |-> TRUE, pinned |-> FALSE, order |-> NoOrder] \in Agent
      /\ [pinned |-> FALSE, order |-> NoOrder] \in Saved
  BY DEF Agent, Saved, NoOrder
<1>8. HandlesOk(handles) /\ DOMAIN handles = 1..n
  <2>1. handles \in [1..n -> Agent]
    BY <1>5, <1>7
  <2>2. handles \in Seq(Agent)
    BY <1>6, <2>1, IsASeq
  <2> QED
    BY <1>6, <2>1, <2>2, LenProperties DEF HandlesOk
<1>9. SavedOk(disk, handles)
  <2>1. disk \in [1..n -> Saved] /\ 1..n \in SUBSET (1..MaxSessions)
    BY <1>5, <1>6, <1>7
  <2>2. disk \in Collections
    BY <2>1 DEF Collections
  <2> QED
    BY <1>8, <2>1, <2>2 DEF SavedOk
<1>10. \A h \in hydrates : HydrateOk(h, handles)
  BY <1>6, AskedOk DEF SidebarInit
<1> QED
  BY <1>2, <1>3, <1>4, <1>6, <1>8, <1>9, <1>10 DEF SidebarInit, SidebarTypes, Room, Alone

LEMMA SidebarTypesStep ==
  ASSUME SidebarTypes, SidebarNext
  PROVE  SidebarTypes'
<1>1. RootsOk(roots') /\ RootsOk(stored') /\ sel' \in SelType /\ ListOk(list', handles')
  BY RootsStep, SelStep, ListStep
<1>2. RegistryOk(registry') /\ HandlesOk(handles') /\ SavedOk(disk', handles')
  BY RegistryStep, HandlesStep, DiskStep DEF SidebarTypes
<1>3. /\ \A c \in calls' : CallOk(c, handles')
      /\ \A c \in replies' : ReplyOk(c, handles')
  BY CallsStep, RepliesStep
<1>4. \A h \in hydrates' : HydrateOk(h, handles')
  BY HydratesStep
<1>5. gestures' \in Nat /\ hydrated' \in BOOLEAN /\ overtaken' \in BOOLEAN /\ Room' /\ Alone'
  BY GesturesStep, FlagsStep, RoomStep, AloneStep
<1> QED
  BY <1>1, <1>2, <1>3, <1>4, <1>5 DEF SidebarTypes

(* Types, and what every list promises: roots, workspaces and agents are   *)
(* each listed once, what any request, answer or saved collection names    *)
(* has a handle, and the request that starts an agent is alone and has     *)
(* room for it. This is what the daemon's and the store's keyed maps rely  *)
(* on (app-store.ts:371-446, rest/agent.rs:107, bootstrap.rs:193).         *)
THEOREM SidebarTypeCorrect == SidebarSpec => []SidebarTypes
<1>1. SidebarInit => SidebarTypes
  BY SidebarTypesInit
<1>2. SidebarTypes /\ [SidebarNext]_sidebarVars => SidebarTypes'
  <2> SUFFICES ASSUME SidebarTypes, [SidebarNext]_sidebarVars PROVE SidebarTypes'
    OBVIOUS
  <2>1. CASE SidebarNext
    BY <2>1, SidebarTypesStep
  <2>2. CASE UNCHANGED sidebarVars
    BY <2>2 DEF sidebarVars, browser, backend, SidebarTypes, Room, Alone
  <2> QED
    BY <2>1, <2>2
<1> QED
  BY <1>1, <1>2, PTL DEF SidebarSpec

(* An action property, for any lists: pinning or dragging a workspace, and *)
(* dragging an agent in a list that is in the order shown, leaves the      *)
(* others in their order (app-store.ts:371-402, 422-446, 585-622). Of the  *)
(* model it needs only that every path and id is listed once.              *)
LEMMA GestureStep ==
  ASSUME SidebarTypes
  PROVE  /\ \A p \in Paths : (PinRoot(p) \/ \E q \in Paths : DragRoot(p, q)) => Apart(roots', p) = Apart(roots, p)
         /\ \A i, j \in 1..MaxSessions :
              (Drag(i, j) /\ Display(list) = Ids(list)) => Others(Display(list'), i) = Others(Display(list), i)
<1>1. ASSUME NEW p \in Paths, PinRoot(p) \/ \E q \in Paths : DragRoot(p, q)
      PROVE  Apart(roots', p) = Apart(roots, p)
  BY <1>1, PinRootIs, DragRootIs DEF SidebarTypes
<1>2. ASSUME NEW i \in 1..MaxSessions, NEW j \in 1..MaxSessions, Drag(i, j), Display(list) = Ids(list)
      PROVE  Others(Display(list'), i) = Others(Display(list), i)
  <2> DEFINE a == Where(list, i)
             b == Where(list, j)
  <2>1. a \in DOMAIN list /\ b \in DOMAIN list /\ list[a].id = i
    BY <1>2, WhereIs DEF Drag, Lists
  <2>2. list' = Restamped(list, a, b) \/ list' = list
    BY <1>2 DEF Drag, Reordered, Restamped
  <2>3. list \in Seq(EntryType) /\ UniqueIds(list) /\ Len(list) <= MaxSessions
    BY ListFits, SidebarAssumption DEF SidebarTypes, ListOk
  <2> HIDE DEF a, b
  <2>4. Others(Display(Restamped(list, a, b)), list[a].id) = Others(Display(list), list[a].id)
    BY <1>2, <2>1, <2>3, DragLeavesOthers
  <2> QED
    BY <2>1, <2>2, <2>4
<1> QED
  BY <1>1, <1>2

(* Pinning or dragging a workspace leaves the order of the other           *)
(* workspaces alone, and dragging an agent on a list that is in the order  *)
(* it is shown in leaves that of the other agents alone, for lists of any  *)
(* length and whatever orders the agents had before                        *)
(* (app-store.ts:371-402, 422-446, 585-622, WorkspaceSidebar.tsx:83-103).  *)
THEOREM GesturesMoveOne == SidebarSpec => GestureMovesOne
<1>1. SidebarTypes => 
        /\ \A p \in Paths : (PinRoot(p) \/ \E q \in Paths : DragRoot(p, q)) => Apart(roots', p) = Apart(roots, p)
        /\ \A i, j \in 1..MaxSessions :
              (Drag(i, j) /\ Display(list) = Ids(list)) => Others(Display(list'), i) = Others(Display(list), i)
  BY GestureStep
<1> QED
  BY <1>1, SidebarTypeCorrect, PTL DEF GestureMovesOne

-----------------------------------------------------------------------------
(* The sidebars: the selection.                                            *)

IdAwaited == \E c \in calls \cup replies : c.to = "register" /\ c.heard

\* A selection that waits for its id has a request or an answer that brings it.
SelOk == (~overtaken /\ sel.path # NoPath /\ ~sel.known /\ ~sel.blind) => IdAwaited

LEMMA SelOkStep ==
  ASSUME SidebarTypes, SelOk, SidebarNext
  PROVE  SelOk'
<1> SUFFICES ASSUME ~overtaken', sel'.path # NoPath, ~sel'.known, ~sel'.blind PROVE IdAwaited'
  BY DEF SelOk
<1>1. ~overtaken
  BY OvertakenStays
<1>2. CASE \E p \in Paths : AddRoot(p)
  <2> PICK p \in Paths : AddRoot(p)
    BY <1>2
  <2>1. OnRoot("register", p) \in calls'
    BY DEF AddRoot, Send
  <2>2. OnRoot("register", p).to = "register" /\ OnRoot("register", p).heard
    BY DEF OnRoot, Call
  <2> QED
    BY <2>1, <2>2 DEF IdAwaited
<1>3. CASE \E p \in Paths : Select(p)
  <2> PICK p \in Paths : Select(p)
    BY <1>3
  <2>1. sel' = [path |-> p, known |-> Known(p), blind |-> ~Known(p)]
    BY DEF Select
  <2>2. sel'.known <=> ~sel'.blind
    BY <2>1
  <2> QED
    BY <2>2
<1>4. CASE Reload
  BY <1>4 DEF Reload, NoRoot
<1>5. CASE UNCHANGED sel \/ sel' = NoRoot
  <2>1. IdAwaited
    BY <1>1, <1>5 DEF SelOk, NoRoot
  <2>2. PICK c \in calls \cup replies : c.to = "register" /\ c.heard
    BY <2>1 DEF IdAwaited
  <2>5. ~Reload
    BY DEF Reload, NoRoot
  <2>3. CASE c \in calls
    <3>1. c \in calls' \/ \E r \in replies' : r.to = "register" /\ r.heard
      <4>1. CASE UNCHANGED calls
        BY <2>3, <4>1
      <4>2. CASE UserSteps
        BY <2>3, <4>2, UserCalls DEF Send
      <4>3. CASE \E d \in calls : RemoveWorkspace(d) \/ Configure(d) \/ SaveAgents(d)
        <5>1. PICK d \in calls : RemoveWorkspace(d) \/ Configure(d) \/ SaveAgents(d)
          BY <4>3
        <5>2. calls' = calls \ {d} /\ d.to # "register"
          <6>1. d.at # "sent" => d.to # "register"
            BY DEF SidebarTypes, CallOk, OfRoots
          <6> QED
            BY <5>1, <6>1 DEF RemoveWorkspace, Configure, SaveAgents, Arrived
        <5> QED
          BY <2>2, <2>3, <5>2
      <4>4. CASE \E d \in calls : Lost(d)
        BY <4>4 DEF Lost
      <4>5. CASE \E d \in calls : Register(d)
        <5>1. PICK d \in calls : Register(d)
          BY <4>5
        <5>2. calls' = calls \ {d} /\ replies' = replies \cup Reply(d) /\ d.to = "register"
          BY <5>1 DEF Register, Arrived
        <5>3. CASE c = d
          <6>1. Reply(d) = {[d EXCEPT !.snap = <<>>]}
            BY <2>2, <5>3 DEF Reply
          <6>2. [d EXCEPT !.snap = <<>>].to = "register" /\ [d EXCEPT !.snap = <<>>].heard
            <7>1. d \in CallType /\ d.heard
              BY <2>2, <5>3 DEF SidebarTypes, CallOk
            <7> QED
              BY <5>2, <7>1 DEF CallType
          <6> QED
            BY <5>2, <6>1, <6>2
        <5>4. CASE c # d
          BY <2>3, <5>2, <5>4
        <5> QED
          BY <5>3, <5>4
      <4>6. CASE \E d \in calls : CreateSession(d) \/ StopSession(d) \/ PinSession(d) \/ PlaceSession(d)
        <5>1. PICK d \in calls : CreateSession(d) \/ StopSession(d) \/ PinSession(d) \/ PlaceSession(d)
          BY <4>6
        <5>2. d.to \in Saving /\ calls \ {d} \subseteq calls'
          BY <5>1, AppliedIs
        <5> QED
          BY <2>2, <2>3, <5>2 DEF Saving
      <4>7. CASE \E d \in calls : Collect(d)
        <5>1. PICK d \in calls : Collect(d)
          BY <4>7
        <5>2. calls \ {d} \subseteq calls' /\ d.at # "sent"
          BY <5>1 DEF Collect
        <5>3. c # d
          BY <2>2, <2>3, <5>2 DEF SidebarTypes, CallOk, OfRoots
        <5> QED
          BY <2>3, <5>2, <5>3
      <4> QED
        BY <4>1, <4>2, <4>3, <4>4, <4>5, <4>6, <4>7, <2>5, CallsChange
    <3> QED
      BY <2>2, <3>1 DEF IdAwaited
  <2>4. CASE c \in replies
    <3>1. c \in replies'
      <4>1. CASE UNCHANGED replies
        BY <2>4, <4>1
      <4>2. CASE \E d \in calls : Register(d) \/ SaveAgents(d)
        BY <2>4, <4>2 DEF Register, SaveAgents
      <4>3. CASE \E d \in replies : Receive(d)
        <5> PICK d \in replies : Receive(d)
          BY <4>3
        <5>1. replies' = replies \ {d}
          BY DEF Receive
        <5>2. d.to # "register"
          <6> SUFFICES ASSUME d.to = "register" PROVE FALSE
            OBVIOUS
          <6>1. sel' = [path |-> d.path, known |-> TRUE, blind |-> FALSE]
            BY DEF Receive, RegisterReply, CreateReply, StopReply
          <6> QED
            BY <6>1
        <5> QED
          BY <2>2, <2>4, <5>1, <5>2
      <4> QED
        BY <2>5, <4>1, <4>2, <4>3, RepliesChange
    <3> QED
      BY <2>2, <3>1 DEF IdAwaited
  <2> QED
    BY <2>2, <2>3, <2>4
<1>6. CASE \E c \in replies : Receive(c)
  <2>1. UNCHANGED sel \/ sel'.known
    BY <1>6 DEF Receive, RegisterReply, CreateReply, StopReply
  <2> QED
    BY <1>5, <2>1
<1>7. CASE \E p \in Paths : RemoveRoot(p)
  BY <1>5, <1>7 DEF RemoveRoot
<1> QED
  BY <1>2, <1>3, <1>4, <1>5, <1>6, <1>7, SelChange

(* When nothing is on its way and nothing was lost or overtaken, the       *)
(* agents of Home are shown when it is selected and has its id: until the  *)
(* id is there, the answer that brings it is still awaited                 *)
(* (NewWorkspaceView.tsx:12, useDaemon.ts:23, AppSidebar.tsx:101).         *)
THEOREM SelectedServed == SidebarSpec => []SelectedIsServed
<1>1. SidebarInit => SelOk
  BY DEF SidebarInit, SelOk, NoRoot
<1>2. SidebarTypes /\ SelOk /\ [SidebarNext]_sidebarVars => SelOk'
  <2> SUFFICES ASSUME SidebarTypes, SelOk, [SidebarNext]_sidebarVars PROVE SelOk'
    OBVIOUS
  <2>1. CASE SidebarNext
    BY <2>1, SelOkStep
  <2>2. CASE UNCHANGED sidebarVars
    BY <2>2 DEF sidebarVars, browser, SelOk, IdAwaited
  <2> QED
    BY <2>1, <2>2
<1>3. SelOk => SelectedIsServed
  BY SidebarAssumption DEF SelOk, SelectedIsServed, Visible, Settled, IdAwaited
<1> QED
  BY <1>1, <1>2, <1>3, SidebarTypeCorrect, PTL DEF SidebarSpec

-----------------------------------------------------------------------------
(* The sidebars: agreement. As long as nothing was lost or overtaken, the  *)
(* requests under way are about different things (AloneCalls). What is on  *)
(* the disk is then what the handles say, unless a save is under way       *)
(* (DiskIsCurrent, and OrdersKept for what is about to be saved). A        *)
(* bootstrap that is not stale finds no request under way (Calm); what it  *)
(* read is what is on the disk, and once it has taken up the agents of the *)
(* disk again they all run (TakenUp), with their settings (RevivalKeeps); *)
(* so it tells the browser what the daemon has (Answered). From the first  *)
(* one that arrives on, the roots and the list differ from the daemon's by *)
(* the requests under way only (RootsAgree, ListAgrees, AllListed). An     *)
(* agent that exited matters as long as a bootstrap may take it up again:  *)
(* the list is right about every agent that is kept, running or saved      *)
(* (Kept), and no agent that was stopped is (StopsHold). An agent that is  *)
(* not listed yet has the settings it was started with (UntouchedCalls,    *)
(* UntouchedReplies), which are the ones it is then listed with.           *)

\* No two requests under way are about the same thing.
AloneCalls == \A c, d \in calls : Same(c, d) => c = d

LEMMA SameFacts ==
  ASSUME \A c \in calls : CallOk(c, handles), AloneCalls, NEW c \in calls, NEW d \in calls
  PROVE  /\ c.to \in Saving /\ d.to \in Saving /\ c.id = d.id => c = d
         /\ c.to \in OfRoots /\ d.to \in OfRoots /\ c.path = d.path => c = d
         /\ ~(c.to = "remove" /\ d.to \in Saving)
<1>1. c.to \in Saving /\ d.to \in Saving /\ c.id = d.id => c = d
  BY DEF CallOk, AloneCalls, Same
<1>2. c.to \in OfRoots /\ d.to \in OfRoots /\ c.path = d.path => c = d
  BY DEF CallOk, AloneCalls, Same
<1>3. ~(c.to = "remove" /\ d.to \in Saving)
  BY DEF AloneCalls, Same, Saving
<1> QED
  BY <1>1, <1>2, <1>3

LEMMA SendAlone ==
  ASSUME AloneCalls, NEW new, Send(new), ~overtaken', \A c, d \in new : Same(c, d) => c = d
  PROVE  AloneCalls'
<1>1. calls' = calls \cup new /\ \A c \in new, d \in calls : Same(c, d) => c = d
  BY DEF Send
<1>2. \A c, d : Same(c, d) => Same(d, c)
  BY DEF Same
<1> QED
  BY <1>1, <1>2 DEF AloneCalls

LEMMA AloneCallsStep ==
  ASSUME SidebarTypes, AloneCalls, SidebarNext, ~overtaken'
  PROVE  AloneCalls'
<1>1. CASE UserSteps
  <2>1. CASE \E c : Send({c})
    BY <2>1, SendAlone
  <2>2. CASE \E i, j \in 1..MaxSessions : Drag(i, j)
    <3>1. ListOk(list', handles) /\ Send(Placed(list'))
      BY <2>2, DragIs DEF SidebarTypes
    <3>2. ASSUME NEW c \in Placed(list'), NEW d \in Placed(list'), Same(c, d) PROVE c = d
      <4>1. PICK k \in DOMAIN list' : c = [OnAgent("place", list'[k].id) EXCEPT !.order = list'[k].order]
        BY DEF Placed
      <4>2. PICK l \in DOMAIN list' : d = [OnAgent("place", list'[l].id) EXCEPT !.order = list'[l].order]
        BY DEF Placed
      <4>3. c.to = "place" /\ d.to = "place" /\ c.id = list'[k].id /\ d.id = list'[l].id
        BY <4>1, <4>2 DEF OnAgent, Call
      <4>4. list'[k].id = list'[l].id
        BY <3>2, <4>3 DEF Same
      <4>5. k = l
        BY <3>1, <4>4 DEF ListOk, UniqueIds
      <4> QED
        BY <4>1, <4>2, <4>5
    <3> QED
      BY <3>1, <3>2, SendAlone
  <2> QED
    BY <1>1, <2>1, <2>2 DEF UserSteps, AddRoot, RemoveRoot, PinRoot, StartAgent, StopAgent, AgentGone, Pin
<1>2. CASE ~UserSteps
  <2> SUFFICES ASSUME NEW c \in calls', NEW d \in calls', Same(c, d) PROVE c = d
    BY DEF AloneCalls
  <2>0. \A x \in calls : CallOk(x, handles) /\ x.id # Len(handles) + 1
    <3>1. DOMAIN handles = 1..Len(handles) /\ Len(handles) \in Nat
      BY LenProperties DEF SidebarTypes, HandlesOk
    <3> QED
      BY <3>1 DEF SidebarTypes, CallOk
  <2>1. PICK a \in calls : /\ c.to = a.to /\ c.path = a.path
                           /\ c.id = a.id \/ (c.to = "create" /\ a.at = "sent" /\ c.id = Len(handles) + 1)
                           /\ \/ c = a
                              \/ a \notin calls' /\ calls' = (calls \ {a}) \cup {c} /\ c.at # "sent"
                              \/ Reload /\ c = [a EXCEPT !.heard = FALSE]
    BY <1>2, CallOrigin
  <2>2. PICK b \in calls : /\ d.to = b.to /\ d.path = b.path
                           /\ d.id = b.id \/ (d.to = "create" /\ b.at = "sent" /\ d.id = Len(handles) + 1)
                           /\ \/ d = b
                              \/ b \notin calls' /\ calls' = (calls \ {b}) \cup {d} /\ d.at # "sent"
                              \/ Reload /\ d = [b EXCEPT !.heard = FALSE]
    BY <1>2, CallOrigin
  <2>3. a = b
    <3>1. CASE c.id = a.id /\ d.id = b.id
      <4>1. Same(a, b)
        BY <2>1, <2>2, <3>1 DEF Same
      <4> QED
        BY <4>1 DEF AloneCalls
    <3>2. CASE c.to = "create" /\ d.to = "create"
      BY <2>1, <2>2, <3>2 DEF SidebarTypes, Alone
    <3>3. CASE c.to = "create" /\ c.id = Len(handles) + 1 /\ d.id = b.id
      <4>1. d.id # c.id
        BY <2>0, <2>2, <3>3
      <4>2. d.to = "remove"
        BY <3>3, <4>1 DEF Same, Saving
      <4>3. Same(a, b)
        BY <2>1, <2>2, <3>3, <4>2 DEF Same, Saving
      <4> QED
        BY <4>3 DEF AloneCalls
    <3>4. CASE d.to = "create" /\ d.id = Len(handles) + 1 /\ c.id = a.id
      <4>1. d.id # c.id
        BY <2>0, <2>1, <3>4
      <4>2. c.to = "remove"
        BY <3>4, <4>1 DEF Same, Saving
      <4>3. Same(a, b)
        BY <2>1, <2>2, <3>4, <4>2 DEF Same, Saving
      <4> QED
        BY <4>3 DEF AloneCalls
    <3> QED
      BY <2>1, <2>2, <3>1, <3>2, <3>3, <3>4
  <2>4. CASE Reload
    <3>1. PICK x \in calls : c = [x EXCEPT !.heard = FALSE]
      BY <2>4 DEF Reload
    <3>2. PICK y \in calls : d = [y EXCEPT !.heard = FALSE]
      BY <2>4 DEF Reload
    <3>3. c.to = x.to /\ c.path = x.path /\ c.id = x.id /\ d.to = y.to /\ d.path = y.path /\ d.id = y.id
      <4>1. x \in CallType /\ y \in CallType
        BY DEF SidebarTypes, CallOk
      <4> QED
        BY <3>1, <3>2, <4>1 DEF CallType
    <3>4. Same(x, y)
      BY <3>3 DEF Same
    <3>5. x = y
      BY <3>4 DEF AloneCalls
    <3> QED
      BY <3>1, <3>2, <3>5
  <2>5. CASE ~Reload
    <3>1. CASE c = a /\ d = b
      BY <2>3, <3>1
    <3>2. CASE a \notin calls' /\ calls' = (calls \ {a}) \cup {c}
      <4>1. d # a
        BY <3>2
      <4>2. CASE d = c
        BY <4>2
      <4>3. CASE d \in calls /\ d # c
        <5>1. d # b
          BY <2>3, <4>1
        <5>2. calls' = (calls \ {b}) \cup {d} /\ d.at # "sent"
          BY <2>2, <2>5, <5>1
        <5>3. d.id = b.id
          BY <2>0, <2>2, <4>3
        <5>4. Same(b, d)
          BY <2>2, <5>3 DEF Same
        <5>5. d = b
          BY <4>3, <5>4 DEF AloneCalls
        <5> QED
          BY <5>1, <5>5
      <4> QED
        BY <3>2, <4>2, <4>3
    <3>3. CASE b \notin calls' /\ calls' = (calls \ {b}) \cup {d}
      <4>1. c # b
        BY <3>3
      <4>2. CASE d = c
        BY <4>2
      <4>3. CASE c \in calls /\ d # c
        <5>1. c # a
          BY <2>3, <4>1
        <5>3. c.id = a.id
          BY <2>0, <2>1, <4>3
        <5>4. Same(a, c)
          BY <2>1, <5>3 DEF Same
        <5>5. c = a
          BY <4>3, <5>4 DEF AloneCalls
        <5> QED
          BY <5>1, <5>5
      <4> QED
        BY <3>3, <4>2, <4>3
    <3> QED
      BY <2>1, <2>2, <2>5, <3>1, <3>2, <3>3
  <2> QED
    BY <2>4, <2>5
<1> QED
  BY <1>1, <1>2

\* What is on record of agents is what their handles say.
Matches(s, h) == \A i \in DOMAIN s : s[i].pinned = h[i].pinned /\ s[i].order = h[i].order

SavesPending == \E c \in calls : c.to \in Saving

DiskIsCurrent == Matches(disk, handles) \/ SavesPending

\* No order is on record that the handle lacks.
OrdersKept == Ordered(disk, handles) /\ \A c \in calls : c.at = "collected" => Ordered(c.snap, handles)

LEMMA CallKinds ==
  ASSUME SidebarTypes, NEW c \in calls
  PROVE  /\ c \in CallType /\ (c.to \in Saving \/ c.to \in OfRoots) /\ ~(c.to \in Saving /\ c.to \in OfRoots)
         /\ Register(c) \/ RemoveWorkspace(c) \/ Configure(c) => c.to \in OfRoots
         /\ c.at # "sent" => c.to \in Saving
BY DEF SidebarTypes, CallOk, CallType, Register, RemoveWorkspace, Configure, Arrived, OfRoots, Saving

\* Only a save, or a loss, ends a request that saves.
LEMMA SavesStay ==
  ASSUME SidebarTypes, SidebarNext, ~overtaken', ~\E c \in calls : SaveAgents(c), SavesPending
  PROVE  SavesPending'
<1>1. PICK c \in calls : c.to \in Saving
  BY DEF SavesPending
<1>2. CASE UNCHANGED calls
  BY <1>1, <1>2 DEF SavesPending
<1>3. CASE UserSteps
  BY <1>1, <1>3, UserCalls DEF Send, SavesPending
<1>4. CASE \E d \in calls : Register(d) \/ RemoveWorkspace(d) \/ Configure(d)
  <2> PICK d \in calls : Register(d) \/ RemoveWorkspace(d) \/ Configure(d)
    BY <1>4
  <2>1. c # d /\ calls' = calls \ {d}
    BY <1>1, CallKinds DEF Register, RemoveWorkspace, Configure
  <2> QED
    BY <1>1, <2>1 DEF SavesPending
<1>5. CASE \E d \in calls : Lost(d)
  BY <1>5 DEF Lost
<1>6. CASE \E d \in calls : CreateSession(d) \/ StopSession(d) \/ PinSession(d) \/ PlaceSession(d)
  <2> PICK d \in calls : CreateSession(d) \/ StopSession(d) \/ PinSession(d) \/ PlaceSession(d)
    BY <1>6
  <2>1. PICK i \in DOMAIN handles' : calls' = (calls \ {d}) \cup {[d EXCEPT !.at = "applied", !.id = i]} /\ d.to \in Saving
    BY AppliedIs
  <2>2. [d EXCEPT !.at = "applied", !.id = i].to = d.to
    BY CallKinds DEF CallType
  <2> QED
    BY <2>1, <2>2 DEF SavesPending
<1>7. CASE \E d \in calls : Collect(d)
  <2> PICK d \in calls : Collect(d)
    BY <1>7
  <2> DEFINE e == [d EXCEPT !.at = "collected", !.snap = Snapshot(d)]
  <2>1. e.to = d.to /\ d.to \in Saving
    BY CallKinds DEF CallType, Collect
  <2>2. e \in calls'
    BY DEF Collect
  <2> HIDE DEF e
  <2> QED
    BY <2>1, <2>2 DEF SavesPending
<1>8. CASE Reload
  <2>1. [c EXCEPT !.heard = FALSE] \in calls' /\ [c EXCEPT !.heard = FALSE].to = c.to
    BY <1>1, <1>8, CallKinds DEF Reload, CallType
  <2> QED
    BY <1>1, <2>1 DEF SavesPending
<1> QED
  BY <1>2, <1>3, <1>4, <1>5, <1>6, <1>7, <1>8, CallsChange

\* A bootstrap that is not stale finds no request under way.
Calm == \A h \in hydrates : h.at # "asked" /\ ~h.stale => calls = {}

\* Where a bootstrap that is not stale comes from.
LEMMA HydrateOrigin ==
  ASSUME SidebarTypes, Calm, SidebarNext, NEW g \in hydrates', g.at # "asked", ~g.stale
  PROVE  /\ calls = {} /\ calls' = {} /\ registry' = registry /\ disk' = disk
         /\ \/ \E h \in hydrates : /\ h.at = g.at /\ ~h.stale /\ g.saved = h.saved /\ g.roots = h.roots /\ g.list = h.list
                                   /\ g.at = "revived" => ~\E i \in 1..MaxSessions : Exit(i)
            \/ (\E h \in hydrates : Load(h)) /\ g.at = "loaded" /\ g.saved = disk /\ g.roots = registry
            \/ \E h \in hydrates : Revive(h) /\ ~h.stale /\ g.at = "revived" /\ g.roots = h.roots
            \/ \E h \in hydrates : /\ Answer(h) /\ ~h.stale /\ g.at = "answered"
                                   /\ \A i \in Live : \E e \in ToSet(g.list) : e.id = i
                                   /\ \A e \in ToSet(g.list) : e.id \in Live /\ e = Bootstrapped(e.id)
                                   /\ ToSet(g.roots) = {[path |-> e.path, pinned |-> e.pinned, known |-> TRUE] : e \in ToSet(Listed(h.roots))}
<1> DEFINE Kind == [n: Nat, at: {"asked", "loaded", "revived", "answered"}, heard: BOOLEAN, stale: BOOLEAN, saved: Collections,
                    roots: Seq(Root) \cup Seq(Workspace), list: Seq(EntryType)]
<1>0. \A h \in hydrates : h \in Kind
  BY DEF SidebarTypes, HydrateOk
<1> DEFINE same(h) == h.at = g.at /\ ~h.stale /\ g.saved = h.saved /\ g.roots = h.roots /\ g.list = h.list
<1>1. CASE \E i \in 1..MaxSessions : Exit(i)
  <2>1. PICK h \in hydrates : g = [h EXCEPT !.stale = @ \/ h.at = "revived"]
    BY <1>1 DEF Exit
  <2>2. same(h) /\ g.at # "revived"
    <3>1. h \in Kind
      BY <1>0
    <3> QED
      BY <2>1, <3>1
  <2>3. calls' = calls /\ registry' = registry /\ disk' = disk
    BY <1>1 DEF Exit
  <2>4. calls = {}
    BY <2>2 DEF Calm
  <2> QED
    BY <2>2, <2>3, <2>4
<1>2. CASE UNCHANGED <<hydrates, registry, handles, disk>> /\ (calls' \subseteq calls \/ \E c \in calls : Collect(c))
  <2>1. calls = {}
    BY <1>2 DEF Calm
  <2>2. ASSUME ~\E i \in 1..MaxSessions : Exit(i) PROVE \E h \in hydrates : same(h) /\ ~\E i \in 1..MaxSessions : Exit(i)
    BY <1>2, <2>2
  <2> QED
    BY <1>1, <1>2, <2>1, <2>2
<1>3. CASE hydrates' = Missed
  <2>1. PICK h \in hydrates : g = [h EXCEPT !.stale = @ \/ h.at # "asked"]
    BY <1>3 DEF Missed
  <2>2. h \in Kind
    BY <1>0
  <2> QED
    BY <2>1, <2>2
<1>4. ASSUME g \in hydrates, UNCHANGED <<calls, registry, disk>>, ~\E i \in 1..MaxSessions : Exit(i)
      PROVE  /\ calls = {} /\ calls' = {} /\ registry' = registry /\ disk' = disk
             /\ \E h \in hydrates : same(h) /\ ~\E i \in 1..MaxSessions : Exit(i)
  <2>1. calls = {}
    BY <1>4 DEF Calm
  <2> QED
    BY <1>4, <2>1
<1>5. CASE \E h \in hydrates : Load(h) \/ Revive(h) \/ Answer(h) \/ Arrive(h) \/ HydrationFails(h)
  <2> PICK h \in hydrates : Load(h) \/ Revive(h) \/ Answer(h) \/ Arrive(h) \/ HydrationFails(h)
    BY <1>5
  <2>0. UNCHANGED <<calls, registry, disk>> /\ h \in Kind
    BY <1>0, HydrationLeaves
  <2>1. CASE g \in hydrates
    BY <1>1, <1>4, <2>0, <2>1
  <2>2. CASE Load(h) /\ g \notin hydrates
    <3>1. g = [h EXCEPT !.at = "loaded", !.saved = disk, !.roots = registry, !.stale = calls # {}]
      BY <2>2 DEF Load
    <3>2. g.at = "loaded" /\ g.saved = disk /\ g.roots = registry /\ calls = {}
      BY <2>0, <3>1
    <3> QED
      BY <2>0, <2>2, <3>2
  <2>3. CASE Revive(h) /\ g \notin hydrates
    <3>1. g = [h EXCEPT !.at = "revived", !.saved = <<>>] /\ h.at = "loaded"
      BY <2>3 DEF Revive
    <3>2. g.at = "revived" /\ g.roots = h.roots /\ ~h.stale
      BY <2>0, <3>1
    <3>3. calls = {}
      BY <3>1, <3>2 DEF Calm
    <3> QED
      BY <2>0, <2>3, <3>2, <3>3
  <2>4. CASE Answer(h) /\ g \notin hydrates
    <3>1. /\ g.at = "answered" /\ g.stale = h.stale
          /\ \A i \in Live : \E e \in ToSet(g.list) : e.id = i
          /\ \A e \in ToSet(g.list) : e.id \in Live /\ e = Bootstrapped(e.id)
          /\ ToSet(g.roots) = {[path |-> e.path, pinned |-> e.pinned, known |-> TRUE] : e \in ToSet(Listed(h.roots))}
      BY <2>4, AnswerIs
    <3>2. calls = {}
      BY <2>4, <3>1 DEF Answer, Calm
    <3> QED
      BY <2>0, <2>4, <3>1, <3>2
  <2>5. CASE Arrive(h) /\ g \notin hydrates
    BY <2>5 DEF Arrive
  <2>6. CASE HydrationFails(h) /\ g \notin hydrates
    <3>1. g = [h EXCEPT !.heard = FALSE]
      BY <2>6 DEF HydrationFails
    <3>2. same(h)
      BY <2>0, <3>1
    <3>3. calls = {}
      BY <3>2 DEF Calm
    <3> QED
      BY <1>1, <2>0, <3>2, <3>3
  <2> QED
    BY <2>1, <2>2, <2>3, <2>4, <2>5, <2>6
<1>6. CASE Reconnect
  <2>1. g \in hydrates
    BY <1>6 DEF Reconnect, Asked
  <2> QED
    BY <1>1, <1>4, <1>6, <2>1 DEF Reconnect, backend
<1>7. CASE Reload
  <2>1. PICK h \in hydrates : g = [h EXCEPT !.heard = FALSE]
    BY <1>7 DEF Reload, Asked
  <2>2. same(h)
    <3>1. h \in Kind
      BY <1>0
    <3> QED
      BY <2>1, <3>1
  <2>3. calls = {}
    BY <2>2 DEF Calm
  <2>4. calls' = {} /\ registry' = registry /\ disk' = disk
    BY <1>7, <2>3 DEF Reload, backend
  <2> QED
    BY <1>1, <2>2, <2>3, <2>4
<1> QED
  BY <1>1, <1>2, <1>3, <1>5, <1>6, <1>7, HydratesChange

LEMMA CalmStep ==
  ASSUME SidebarTypes, Calm, SidebarNext
  PROVE  Calm'
BY HydrateOrigin DEF Calm

\* Once a bootstrap has arrived, the page hears every answer it waits for.
AllHeard == hydrated => \A c \in calls : c.heard

LEMMA StaysHydrated ==
  ASSUME SidebarNext, ~\E h \in hydrates : Arrive(h), hydrated'
  PROVE  hydrated /\ ~Reload
<1>1. ~Reload
  BY DEF Reload
<1> QED
  BY <1>1, HydratedChange

LEMMA AllHeardStep ==
  ASSUME SidebarTypes, Calm, AllHeard, SidebarNext, ~overtaken'
  PROVE  AllHeard'
<1> SUFFICES ASSUME hydrated', NEW c \in calls' PROVE c.heard
  BY DEF AllHeard
<1>1. CASE \E h \in hydrates : Arrive(h)
  <2> PICK h \in hydrates : Arrive(h)
    BY <1>1
  <2>1. h.at = "answered" /\ ~h.stale /\ calls' = calls
    BY DEF Arrive
  <2> QED
    BY <2>1 DEF Calm
<1>2. CASE ~\E h \in hydrates : Arrive(h)
  <2>1. hydrated /\ ~Reload
    BY <1>2, StaysHydrated
  <2>2. \A d \in calls : d.heard
    BY <2>1 DEF AllHeard
  <2>3. CASE UserSteps
    BY <2>2, <2>3, UserCalls DEF Send
  <2>4. CASE \E d \in calls : CreateSession(d) \/ StopSession(d) \/ PinSession(d) \/ PlaceSession(d)
    <3> PICK d \in calls : CreateSession(d) \/ StopSession(d) \/ PinSession(d) \/ PlaceSession(d)
      BY <2>4
    <3>1. PICK i \in DOMAIN handles' : calls' = (calls \ {d}) \cup {[d EXCEPT !.at = "applied", !.id = i]}
      BY AppliedIs
    <3>2. [d EXCEPT !.at = "applied", !.id = i].heard = d.heard
      BY CallKinds DEF CallType
    <3> QED
      BY <2>2, <3>1, <3>2
  <2>5. CASE \E d \in calls : Collect(d)
    <3> PICK d \in calls : Collect(d)
      BY <2>5
    <3>1. calls' = (calls \ {d}) \cup {[d EXCEPT !.at = "collected", !.snap = Snapshot(d)]}
      BY DEF Collect
    <3>2. [d EXCEPT !.at = "collected", !.snap = Snapshot(d)].heard = d.heard
      BY CallKinds DEF CallType
    <3> QED
      BY <2>2, <3>1, <3>2
  <2>6. CASE calls' \subseteq calls
    BY <2>2, <2>6
  <2> QED
    BY <2>1, <2>3, <2>4, <2>5, <2>6, CallsChange DEF Register, RemoveWorkspace, Configure, Lost, SaveAgents
<1> QED
  BY <1>1, <1>2

\* What a bootstrap that is not stale has read and taken up again.
TakenUp ==
  \A h \in hydrates : ~h.stale =>
    /\ h.at = "loaded" => h.saved = disk
    /\ h.at = "revived" => DOMAIN disk \subseteq Live
    /\ h.at \in {"loaded", "revived"} => h.roots = registry

\* What taking up the agents of the disk leaves alone.
LEMMA RevivalKeeps ==
  ASSUME SidebarTypes, Calm, TakenUp, DiskIsCurrent, NEW h \in hydrates, Revive(h), ~overtaken'
  PROVE  /\ DOMAIN handles' = DOMAIN handles
         /\ \A i \in DOMAIN handles : handles'[i].pinned = handles[i].pinned /\ handles'[i].order = handles[i].order
         /\ Live \subseteq Live' /\ \A i \in Live' : i \in Live \/ (i \in DOMAIN disk /\ calls = {})
         /\ ~h.stale => calls = {} /\ DOMAIN disk \subseteq Live'
<1>0. HandlesOk(handles) /\ SavedOk(disk, handles) /\ DOMAIN h.saved \subseteq DOMAIN handles
  BY DEF SidebarTypes, HydrateOk, SavedOk
<1> DEFINE revived == DOMAIN h.saved \ Live
           taken(i) == [live |-> TRUE, pinned |-> h.saved[i].pinned, order |-> h.saved[i].order]
<1>1. /\ handles' = [i \in DOMAIN handles |-> IF i \in revived THEN taken(i) ELSE handles[i]]
      /\ h.at = "loaded" /\ (h.stale => revived = {})
  BY DEF Revive
<1>2. \A i : taken(i).live = TRUE /\ taken(i).pinned = h.saved[i].pinned /\ taken(i).order = h.saved[i].order
  OBVIOUS
<1> HIDE DEF revived, taken
<1>3. /\ DOMAIN handles' = DOMAIN handles
      /\ \A i \in DOMAIN handles : handles'[i] = IF i \in revived THEN taken(i) ELSE handles[i]
  BY <1>1
<1>4. Live' = Live \cup revived
  <2>1. revived \subseteq DOMAIN handles
    BY <1>0 DEF revived
  <2> QED
    BY <1>2, <1>3, <2>1 DEF Live
<1>5. CASE h.stale
  BY <1>1, <1>3, <1>4, <1>5
<1>6. CASE ~h.stale
  <2>1. calls = {} /\ h.saved = disk
    BY <1>1, <1>6 DEF Calm, TakenUp
  <2>2. Matches(disk, handles)
    BY <2>1 DEF DiskIsCurrent, SavesPending
  <2>3. \A i \in revived : i \in DOMAIN disk /\ taken(i).pinned = handles[i].pinned /\ taken(i).order = handles[i].order
    BY <1>2, <2>1, <2>2 DEF Matches, revived
  <2>4. DOMAIN disk \subseteq Live'
    BY <1>4, <2>1 DEF revived
  <2> QED
    BY <1>3, <1>4, <2>1, <2>3, <2>4
<1> QED
  BY <1>5, <1>6

\* Where the settings of an agent come from.
LEMMA SettingsOrigin ==
  ASSUME SidebarTypes, Calm, TakenUp, DiskIsCurrent, SidebarNext, ~overtaken', NEW i \in DOMAIN handles'
  PROVE  \/ /\ i \in DOMAIN handles
            /\ handles'[i].pinned = handles[i].pinned /\ handles'[i].order = handles[i].order
         \/ \E c \in calls : CreateSession(c) /\ i = Len(handles) + 1 /\ handles'[i] = [live |-> TRUE, pinned |-> FALSE, order |-> NoOrder]
         \/ \E c \in calls : /\ PinSession(c) /\ c.id = i /\ i \in DOMAIN handles
                             /\ handles'[i].pinned = c.pinned /\ handles'[i].order = handles[i].order
         \/ \E c \in calls : /\ PlaceSession(c) /\ c.id = i /\ i \in DOMAIN handles
                             /\ handles'[i].pinned = handles[i].pinned
                             /\ handles'[i].order = IF c.order # NoOrder THEN c.order ELSE handles[i].order
<1>0. /\ handles \in Seq(Agent) /\ DOMAIN handles = 1..Len(handles) /\ Len(handles) \in Nat
      /\ \A j \in DOMAIN handles : handles[j] \in Agent
  BY LenProperties, ElementOfSeq DEF SidebarTypes, HandlesOk
<1>1. CASE UNCHANGED handles
  BY <1>1
<1>2. CASE \E c \in calls : CreateSession(c)
  <2> PICK c \in calls : CreateSession(c)
    BY <1>2
  <2> DEFINE a == [live |-> TRUE, pinned |-> FALSE, order |-> NoOrder]
  <2>1. handles' = Append(handles, a)
    BY DEF CreateSession
  <2> HIDE DEF a
  <2>2. /\ DOMAIN handles' = 1..(Len(handles) + 1) /\ handles'[Len(handles) + 1] = a
        /\ \A j \in DOMAIN handles : handles'[j] = handles[j]
    BY <1>0, <2>1
  <2>3. i \in DOMAIN handles \/ i = Len(handles) + 1
    BY <1>0, <2>2
  <2>4. CASE i = Len(handles) + 1
    BY <2>2, <2>4 DEF a
  <2>5. CASE i \in DOMAIN handles
    BY <2>2, <2>5
  <2> QED
    BY <2>3, <2>4, <2>5
<1>3. CASE (\E c \in calls : StopSession(c)) \/ \E j \in 1..MaxSessions : Exit(j)
  <2> PICK j : handles' = [handles EXCEPT ![j].live = FALSE]
    BY <1>3 DEF StopSession, Exit
  <2>1. i \in DOMAIN handles /\ handles[i] \in Agent
    BY <1>0
  <2>2. handles'[i].pinned = handles[i].pinned /\ handles'[i].order = handles[i].order
    BY <1>0, <2>1 DEF Agent
  <2> QED
    BY <2>1, <2>2
<1>4. CASE \E h \in hydrates : Revive(h)
  BY <1>4, RevivalKeeps
<1>5. CASE \E c \in calls : PinSession(c)
  <2> PICK c \in calls : PinSession(c)
    BY <1>5
  <2>1. handles' = [handles EXCEPT ![c.id].pinned = c.pinned]
    BY DEF PinSession
  <2>2. i \in DOMAIN handles /\ handles[i] \in Agent
    BY <1>0, <2>1
  <2>3. i # c.id => handles'[i] = handles[i]
    BY <1>0, <2>1, <2>2
  <2>4. i = c.id => handles'[i].pinned = c.pinned /\ handles'[i].order = handles[i].order
    BY <1>0, <2>1, <2>2 DEF Agent
  <2> QED
    BY <2>2, <2>3, <2>4
<1>6. CASE \E c \in calls : PlaceSession(c)
  <2> PICK c \in calls : PlaceSession(c)
    BY <1>6
  <2>0. CASE c.order = NoOrder
    BY <1>1, <2>0 DEF PlaceSession
  <2>1. CASE c.order # NoOrder
    <3>1. handles' = [handles EXCEPT ![c.id].order = c.order]
      BY <2>1 DEF PlaceSession
    <3>2. i \in DOMAIN handles /\ handles[i] \in Agent
      BY <1>0, <3>1
    <3>3. i # c.id => handles'[i] = handles[i]
      BY <1>0, <3>1, <3>2
    <3>4. i = c.id => handles'[i].order = c.order /\ handles'[i].pinned = handles[i].pinned
      BY <1>0, <3>1, <3>2 DEF Agent
    <3> QED
      BY <2>1, <3>2, <3>3, <3>4
  <2> QED
    BY <2>0, <2>1
<1> QED
  BY <1>1, <1>2, <1>3, <1>4, <1>5, <1>6, HandlesChange

\* Orders come and do not go.
LEMMA OrderStays ==
  ASSUME SidebarTypes, Calm, TakenUp, DiskIsCurrent, SidebarNext, ~overtaken',
         NEW i \in DOMAIN handles, handles[i].order # NoOrder
  PROVE  handles'[i].order # NoOrder
<1>1. i \in DOMAIN handles' /\ i # Len(handles) + 1
  <2>1. DOMAIN handles = 1..Len(handles) /\ Len(handles) \in Nat
    BY LenProperties DEF SidebarTypes, HandlesOk
  <2> QED
    BY <2>1, HandlesStep DEF SidebarTypes, Grows
<1> QED
  BY <1>1, SettingsOrigin

\* What is collected is what the handles say.
LEMMA CollectedIs ==
  ASSUME SidebarTypes, OrdersKept, NEW c
  PROVE  /\ DOMAIN Snapshot(c) = Live
         /\ \A i \in Live : Snapshot(c)[i].pinned = handles[i].pinned /\ Snapshot(c)[i].order = handles[i].order
<1>1. HandlesOk(handles) /\ SavedOk(disk, handles) /\ Ordered(disk, handles)
  BY DEF SidebarTypes, OrdersKept
<1>2. DOMAIN Snapshot(c) = Live
  BY <1>1, SnapshotOk
<1>3. \A i \in Live : Snapshot(c)[i] = [pinned |-> handles[i].pinned, order |-> handles[i].order]
  BY <1>1, SnapshotOk
<1> QED
  BY <1>2, <1>3

LEMMA OrdersKeptStep ==
  ASSUME SidebarTypes, Calm, TakenUp, DiskIsCurrent, OrdersKept, SidebarNext, ~overtaken'
  PROVE  OrdersKept'
<1>0. SavedOk(disk, handles) /\ HandlesOk(handles) /\ \A c \in calls : CallOk(c, handles) /\ c \in CallType
  BY DEF SidebarTypes, CallOk
<1>1. ASSUME NEW s, SavedOk(s, handles), Ordered(s, handles) PROVE Ordered(s, handles')
  BY <1>1, OrderStays DEF Ordered, SavedOk
<1>2. Ordered(disk', handles')
  <2>1. disk' \in {disk, <<>>} \/ \E c \in calls : c.at = "collected" /\ disk' = c.snap
    BY DiskChange DEF RemoveWorkspace, SaveAgents
  <2>2. CASE disk' = disk
    BY <1>0, <1>1, <2>2 DEF OrdersKept
  <2>3. CASE disk' = <<>>
    BY <2>3 DEF Ordered
  <2>4. CASE \E c \in calls : c.at = "collected" /\ disk' = c.snap
    <3>1. SavedOk(disk', handles) /\ Ordered(disk', handles)
      BY <1>0, <2>4 DEF OrdersKept, CallOk
    <3> QED
      BY <1>1, <3>1
  <2> QED
    BY <2>1, <2>2, <2>3, <2>4
<1>3. ASSUME NEW c \in calls', c.at = "collected" PROVE Ordered(c.snap, handles')
  <2>1. CASE c \in calls
    BY <1>0, <1>1, <1>3, <2>1 DEF OrdersKept, CallOk
  <2>2. CASE c \notin calls
    <3>1. CASE UserSteps
      BY <1>3, <2>2, <3>1, UserCalls DEF Send
    <3>2. CASE \E d \in calls : CreateSession(d) \/ StopSession(d) \/ PinSession(d) \/ PlaceSession(d)
      <4> PICK d \in calls : CreateSession(d) \/ StopSession(d) \/ PinSession(d) \/ PlaceSession(d)
        BY <3>2
      <4>1. PICK i \in DOMAIN handles' : calls' = (calls \ {d}) \cup {[d EXCEPT !.at = "applied", !.id = i]}
        BY AppliedIs
      <4>2. c = [d EXCEPT !.at = "applied", !.id = i]
        BY <2>2, <4>1
      <4> QED
        BY <1>0, <1>3, <4>2 DEF CallType
    <3>3. CASE \E d \in calls : Collect(d)
      <4> PICK d \in calls : Collect(d)
        BY <3>3
      <4>1. c = [d EXCEPT !.at = "collected", !.snap = Snapshot(d)] /\ handles' = handles
        BY <2>2 DEF Collect, backend
      <4>2. c.snap = Snapshot(d)
        BY <1>0, <4>1 DEF CallType
      <4>3. \A i \in DOMAIN Snapshot(d) : Snapshot(d)[i].order = handles[i].order
        BY CollectedIs
      <4> QED
        BY <4>1, <4>2, <4>3 DEF Ordered
    <3>4. CASE Reload
      <4>1. PICK d \in calls : c = [d EXCEPT !.heard = FALSE]
        BY <3>4 DEF Reload
      <4>2. c.snap = d.snap /\ c.at = d.at
        BY <1>0, <4>1 DEF CallType
      <4> QED
        BY <1>0, <1>1, <1>3, <4>2 DEF OrdersKept, CallOk
    <3>5. CASE \E d \in calls : Register(d) \/ RemoveWorkspace(d) \/ Configure(d) \/ Lost(d) \/ SaveAgents(d)
      BY <2>2, <3>5 DEF Register, RemoveWorkspace, Configure, Lost, SaveAgents
    <3> QED
      BY <2>2, <3>1, <3>2, <3>3, <3>4, <3>5, CallsChange
  <2> QED
    BY <2>1, <2>2
<1> QED
  BY <1>2, <1>3 DEF OrdersKept

\* Where what is on the disk comes from once no save is under way.
LEMMA DiskOrigin ==
  ASSUME SidebarTypes, OrdersKept, SidebarNext, ~overtaken', ~SavesPending'
  PROVE  \/ ~SavesPending /\ disk' \in {disk, <<>>}
         \/ /\ \E c \in calls : SaveAgents(c)
            /\ handles' = handles /\ DOMAIN disk' = Live /\ Matches(disk', handles)
<1>1. CASE \E c \in calls : SaveAgents(c)
  <2> PICK c \in calls : SaveAgents(c)
    BY <1>1
  <2>1. disk' = c.snap /\ handles' = handles /\ calls' = calls \ {c}
    BY DEF SaveAgents
  <2>2. c.snap = Snapshot(c)
    BY <2>1 DEF SaveAgents, SavesPending
  <2>3. DOMAIN Snapshot(c) = Live /\ \A i \in Live : Snapshot(c)[i].pinned = handles[i].pinned /\ Snapshot(c)[i].order = handles[i].order
    BY CollectedIs
  <2> QED
    BY <2>1, <2>2, <2>3 DEF Matches
<1>2. CASE ~\E c \in calls : SaveAgents(c)
  <2>1. ~SavesPending
    BY <1>2, SavesStay
  <2> QED
    BY <1>2, <2>1, DiskChange DEF RemoveWorkspace
<1> QED
  BY <1>1, <1>2

LEMMA DiskIsCurrentStep ==
  ASSUME SidebarTypes, Calm, TakenUp, OrdersKept, DiskIsCurrent, SidebarNext, ~overtaken'
  PROVE  DiskIsCurrent'
<1> SUFFICES ASSUME ~SavesPending' PROVE Matches(disk', handles')
  BY DEF DiskIsCurrent
<1>1. CASE handles' = handles /\ Matches(disk', handles)
  BY <1>1
<1>2. CASE ~SavesPending /\ disk' \in {disk, <<>>}
  <2>1. Matches(disk', handles) /\ DOMAIN disk' \subseteq DOMAIN handles
    <3>1. Matches(disk, handles) /\ DOMAIN disk \subseteq DOMAIN handles
      BY <1>2 DEF DiskIsCurrent, SidebarTypes, SavedOk
    <3> QED
      BY <1>2, <3>1 DEF Matches
  <2>2. \A c \in calls : c.to \notin Saving
    BY <1>2 DEF SavesPending
  <2>3. DOMAIN handles \subseteq DOMAIN handles'
    BY HandlesStep DEF SidebarTypes, Grows
  <2>4. \A i \in DOMAIN handles : handles'[i].pinned = handles[i].pinned /\ handles'[i].order = handles[i].order
    BY <2>2, <2>3, SettingsOrigin DEF CreateSession, PinSession, PlaceSession, Arrived, Saving
  <2> QED
    BY <2>1, <2>4 DEF Matches
<1> QED
  BY <1>1, <1>2, DiskOrigin

\* An agent that runs, or that the next bootstrap takes up again.
Kept(i) == i \in Live \/ (i \in DOMAIN disk /\ ~SavesPending)

LEMMA KeptIs ==
  ASSUME SidebarTypes, NEW i, Kept(i)
  PROVE  i \in DOMAIN handles
BY DEF SidebarTypes, SavedOk, Kept, Live

\* Only starting an agent makes one that is kept.
LEMMA KeptOrigin ==
  ASSUME SidebarTypes, Calm, TakenUp, OrdersKept, DiskIsCurrent, SidebarNext, ~overtaken', NEW i, Kept(i)'
  PROVE  Kept(i) \/ \E c \in calls : CreateSession(c) /\ i = Len(handles) + 1
<1>0. /\ handles \in Seq(Agent) /\ DOMAIN handles = 1..Len(handles) /\ Len(handles) \in Nat
      /\ \A j \in DOMAIN handles : handles[j] \in Agent
  BY LenProperties, ElementOfSeq DEF SidebarTypes, HandlesOk
<1>1. CASE i \in Live'
  <2>0. i \in DOMAIN handles' /\ handles'[i].live
    BY <1>1 DEF Live
  <2>1. CASE UNCHANGED handles
    BY <1>1, <2>1 DEF Live, Kept
  <2>2. CASE \E c \in calls : CreateSession(c)
    <3>1. PICK c \in calls : CreateSession(c)
      BY <2>2
    <3> DEFINE a == [live |-> TRUE, pinned |-> FALSE, order |-> NoOrder]
    <3>2. handles' = Append(handles, a)
      BY <3>1 DEF CreateSession
    <3> HIDE DEF a
    <3>3. /\ DOMAIN handles' = 1..(Len(handles) + 1)
          /\ \A j \in DOMAIN handles : handles'[j] = handles[j]
      BY <1>0, <3>2
    <3>4. i \in DOMAIN handles \/ i = Len(handles) + 1
      BY <1>0, <2>0, <3>3
    <3> QED
      BY <2>0, <3>1, <3>3, <3>4 DEF Live, Kept
  <2>3. CASE (\E c \in calls : StopSession(c)) \/ \E j \in 1..MaxSessions : Exit(j)
    <3> PICK j : handles' = [handles EXCEPT ![j].live = FALSE]
      BY <2>3 DEF StopSession, Exit
    <3>1. i \in DOMAIN handles /\ handles[i] \in Agent
      BY <1>0, <2>0
    <3>2. i # j /\ handles'[i] = handles[i]
      BY <1>0, <2>0, <3>1 DEF Agent
    <3> QED
      BY <2>0, <3>1, <3>2 DEF Live, Kept
  <2>4. CASE \E h \in hydrates : Revive(h)
    <3>1. i \in Live \/ (i \in DOMAIN disk /\ calls = {})
      BY <1>1, <2>4, RevivalKeeps
    <3> QED
      BY <3>1 DEF Kept, SavesPending
  <2>5. CASE \E c \in calls : PinSession(c) \/ PlaceSession(c)
    <3>1. \E j, b, r : handles' = handles \/ handles' = [handles EXCEPT ![j].pinned = b] \/ handles' = [handles EXCEPT ![j].order = r]
      BY <2>5 DEF PinSession, PlaceSession
    <3>2. i \in DOMAIN handles
      BY <1>0, <2>0, <3>1
    <3>3. handles[i].live
      BY <1>0, <2>0, <3>1, <3>2 DEF Agent
    <3> QED
      BY <3>2, <3>3 DEF Live, Kept
  <2> QED
    BY <2>1, <2>2, <2>3, <2>4, <2>5, HandlesChange
<1>2. CASE i \in DOMAIN disk' /\ ~SavesPending'
  <2>1. CASE ~SavesPending /\ disk' \in {disk, <<>>}
    BY <1>2, <2>1 DEF Kept
  <2>2. CASE DOMAIN disk' = Live
    BY <1>2, <2>2 DEF Kept
  <2> QED
    BY <1>2, <2>1, <2>2, DiskOrigin
<1> QED
  BY <1>1, <1>2 DEF Kept

LEMMA UpToDateStep ==
  ASSUME SidebarTypes, Calm, TakenUp, DiskIsCurrent, SidebarNext, ~overtaken'
  PROVE  TakenUp'
<1> SUFFICES ASSUME NEW g \in hydrates', ~g.stale, g.at \in {"loaded", "revived"}
             PROVE  /\ g.at = "loaded" => g.saved = disk'
                    /\ g.at = "revived" => DOMAIN disk' \subseteq Live'
                    /\ g.roots = registry'
  BY DEF TakenUp
<1>1. calls = {} /\ registry' = registry /\ disk' = disk
  BY HydrateOrigin
<1>2. CASE \E h \in hydrates : /\ h.at = g.at /\ ~h.stale /\ g.saved = h.saved /\ g.roots = h.roots
                               /\ g.at = "revived" => ~\E i \in 1..MaxSessions : Exit(i)
  <2>1. /\ g.at = "loaded" => g.saved = disk
        /\ g.at = "revived" => DOMAIN disk \subseteq Live /\ ~\E i \in 1..MaxSessions : Exit(i)
        /\ g.roots = registry
    BY <1>2 DEF TakenUp
  <2>2. ASSUME ~\E i \in 1..MaxSessions : Exit(i) PROVE Live \subseteq Live'
    <3>1. CASE UNCHANGED handles
      BY <3>1 DEF Live
    <3>2. CASE \E h \in hydrates : Revive(h)
      BY <3>2, RevivalKeeps
    <3> QED
      BY <1>1, <2>2, <3>1, <3>2, HandlesChange
  <2> QED
    BY <1>1, <2>1, <2>2
<1>3. CASE g.at = "loaded" /\ g.saved = disk /\ g.roots = registry
  BY <1>1, <1>3
<1>4. CASE \E h \in hydrates : Revive(h) /\ ~h.stale /\ g.at = "revived" /\ g.roots = h.roots
  <2> PICK h \in hydrates : Revive(h) /\ ~h.stale /\ g.at = "revived" /\ g.roots = h.roots
    BY <1>4
  <2>1. h.roots = registry
    BY DEF TakenUp, Revive
  <2>2. DOMAIN disk \subseteq Live'
    BY RevivalKeeps
  <2> QED
    BY <1>1, <2>1, <2>2
<1> QED
  BY <1>2, <1>3, <1>4, HydrateOrigin

\* An agent that was stopped is not kept.
StopsHold == \A c \in calls \cup replies : c.to = "stop" /\ c.at # "sent" => ~Kept(c.id)

LEMMA StopsHoldStep ==
  ASSUME SidebarTypes, Calm, TakenUp, OrdersKept, DiskIsCurrent, StopsHold, SidebarNext, ~overtaken'
  PROVE  StopsHold'
<1>0. /\ handles \in Seq(Agent) /\ DOMAIN handles = 1..Len(handles) /\ Len(handles) \in Nat
      /\ \A j \in DOMAIN handles : handles[j] \in Agent
      /\ \A c \in calls : CallOk(c, handles) /\ c \in CallType
      /\ \A c \in replies : CallOk(c, handles)
  BY LenProperties, ElementOfSeq DEF SidebarTypes, HandlesOk, CallOk, ReplyOk
<1>1. ASSUME NEW c \in calls \cup replies, c.to = "stop", c.at # "sent" PROVE ~Kept(c.id)'
  <2>1. c.id \in DOMAIN handles
    BY <1>0, <1>1 DEF CallOk, Saving
  <2>2. c.id # Len(handles) + 1
    BY <1>0, <2>1
  <2>3. ~Kept(c.id)
    BY <1>1 DEF StopsHold
  <2> QED
    BY <2>2, <2>3, KeptOrigin
<1>2. ASSUME NEW c \in replies', c \notin replies, c.to = "stop" PROVE ~Kept(c.id)'
  <2>1. PICK d \in calls : (Register(d) \/ SaveAgents(d)) /\ c \in Reply(d)
    BY <1>2, RepliesChange DEF Register, SaveAgents, Receive, Reload
  <2>2. d.to = "register" \/ (d.to \in {"create", "stop"} /\ d.at # "sent")
    BY <1>2, <2>1 DEF Register, SaveAgents, Arrived
  <2>3. c.to = d.to /\ c.id = d.id
    BY <1>0, <2>1, <2>2, ReplyIs
  <2> QED
    BY <1>1, <1>2, <2>2, <2>3
<1>3. ASSUME NEW c \in calls', c \notin calls, c.to = "stop", c.at # "sent" PROVE ~Kept(c.id)'
  <2>1. CASE UserSteps
    BY <1>3, <2>1, UserCalls DEF Send
  <2>2. CASE \E d \in calls : CreateSession(d) \/ StopSession(d) \/ PinSession(d) \/ PlaceSession(d)
    <3> PICK d \in calls : CreateSession(d) \/ StopSession(d) \/ PinSession(d) \/ PlaceSession(d)
      BY <2>2
    <3>1. PICK i \in DOMAIN handles' : /\ calls' = (calls \ {d}) \cup {[d EXCEPT !.at = "applied", !.id = i]}
                                       /\ d.to # "create" => i = d.id /\ i \in DOMAIN handles
      BY AppliedIs
    <3>2. c = [d EXCEPT !.at = "applied", !.id = i]
      BY <1>3, <3>1
    <3>3. d.to = "stop" /\ c.id = i
      BY <1>0, <1>3, <3>2 DEF CallType
    <3>4. handles' = [handles EXCEPT ![d.id].live = FALSE]
      BY <3>3 DEF StopSession, CreateSession, PinSession, PlaceSession, Arrived
    <3>5. i = d.id /\ i \in DOMAIN handles /\ ~handles'[i].live
      BY <1>0, <3>1, <3>3, <3>4 DEF Agent
    <3>6. SavesPending'
      BY <1>3 DEF SavesPending, Saving
    <3> QED
      BY <3>3, <3>5, <3>6 DEF Kept, Live
  <2>3. CASE \E d \in calls : Collect(d)
    <3> PICK d \in calls : Collect(d)
      BY <2>3
    <3>1. c = [d EXCEPT !.at = "collected", !.snap = Snapshot(d)] /\ d.at = "applied"
      BY <1>3 DEF Collect
    <3>2. c.to = d.to /\ c.id = d.id
      BY <1>0, <3>1 DEF CallType
    <3> QED
      BY <1>1, <1>3, <3>1, <3>2
  <2>4. CASE Reload
    <3>1. PICK d \in calls : c = [d EXCEPT !.heard = FALSE]
      BY <2>4 DEF Reload
    <3>2. c.to = d.to /\ c.id = d.id /\ c.at = d.at
      BY <1>0, <3>1 DEF CallType
    <3> QED
      BY <1>1, <1>3, <3>2
  <2>5. CASE \E d \in calls : Register(d) \/ RemoveWorkspace(d) \/ Configure(d) \/ Lost(d) \/ SaveAgents(d)
    BY <1>3, <2>5 DEF Register, RemoveWorkspace, Configure, Lost, SaveAgents
  <2> QED
    BY <1>3, <2>1, <2>2, <2>3, <2>4, <2>5, CallsChange
<1>4. \A c \in replies' : c.at # "sent" \/ c.to # "stop"
  BY RepliesStep DEF ReplyOk
<1> QED
  BY <1>1, <1>2, <1>3, <1>4 DEF StopsHold

Holds(s, i) == \E e \in ToSet(s) : e.id = i

\* Only a bootstrap, or a new page, takes an agent that is kept off the list.
LEMMA HeldStays ==
  ASSUME SidebarTypes, StopsHold, SidebarNext, ~\E h \in hydrates : Arrive(h), ~Reload,
         NEW i, Kept(i), Kept(i)', Holds(list, i)
  PROVE  Holds(list', i)
<1>0. ListOk(list, handles) /\ HandlesOk(handles) /\ \A c \in replies : ReplyOk(c, handles)
  BY DEF SidebarTypes
<1>1. CASE UNCHANGED list
  BY <1>1
<1>2. CASE \E j \in 1..MaxSessions : Pin(j)
  <2> PICK j \in 1..MaxSessions : Pin(j)
    BY <1>2
  <2>1. PICK e \in ToSet(list) :
             /\ e.id = j
             /\ ToSet(list') = {f \in ToSet(list) : f.id # j} \cup {[e EXCEPT !.pinned = ~@]}
             /\ Send({[OnAgent("pin", j) EXCEPT !.pinned = ~e.pinned]})
    BY <1>0, PinIs
  <2>2. [e EXCEPT !.pinned = ~@].id = e.id
    BY <1>0, ListItems DEF EntryType
  <2> HIDE DEF ToSet
  <2> QED
    BY <2>1, <2>2 DEF Holds
<1>3. CASE \E j \in 1..MaxSessions : AgentGone(j)
  <2> PICK j \in 1..MaxSessions : AgentGone(j)
    BY <1>3
  <2>1. j \notin Live' /\ OnAgent("stop", j) \in calls'
    BY DEF AgentGone, Send, Live, backend
  <2>2. OnAgent("stop", j).to = "stop"
    BY DEF OnAgent, Call
  <2>3. i # j
    BY <2>1, <2>2 DEF Kept, SavesPending, Saving
  <2> QED
    BY <1>0, <2>3, AgentGoneIs DEF Holds
<1>4. CASE \E j, k \in 1..MaxSessions : Drag(j, k)
  BY <1>0, <1>4, DragIs DEF Holds
<1>5. CASE \E c \in replies : Receive(c)
  <2> PICK c \in replies : Receive(c)
    BY <1>5
  <2>1. CASE RegisterReply(c)
    BY <2>1 DEF RegisterReply
  <2>2. CASE CreateReply(c)
    <3> DEFINE n == [id |-> c.id, pinned |-> FALSE, order |-> NoOrder]
    <3>1. ToSet(list') = {e \in ToSet(list) : e.id # c.id} \cup {n}
      BY <1>0, <2>2, CreateReplyIs
    <3>2. n.id = c.id
      OBVIOUS
    <3> HIDE DEF n, ToSet
    <3>3. PICK e \in ToSet(list) : e.id = i
      BY DEF Holds
    <3>4. n \in ToSet(list') /\ (e.id # c.id => e \in ToSet(list'))
      BY <3>1
    <3> QED
      BY <3>2, <3>3, <3>4 DEF Holds
  <2>3. CASE StopReply(c)
    <3>1. ToSet(list') = {e \in ToSet(list) : e.id # c.id} /\ c.to = "stop"
      BY <1>0, <2>3, StopReplyIs DEF StopReply
    <3>2. c.at # "sent"
      BY <1>0, <3>1 DEF ReplyOk
    <3>3. i # c.id
      BY <3>1, <3>2 DEF StopsHold
    <3> QED
      BY <3>1, <3>3 DEF Holds
  <2> QED
    BY <2>1, <2>2, <2>3 DEF Receive
<1> QED
  BY <1>1, <1>2, <1>3, <1>4, <1>5, ListChange

\* Whether the roots S and the workspaces T say the same of p, but for a Home that only
\* its agents bring back.
RootAgrees(p, S, T) ==
  \/ \E e \in S, f \in T : e.path = p /\ f.path = p /\ e.pinned = f.pinned
  \/ (\A e \in S : e.path # p) /\ (\A f \in T : f.path # p)
  \/ p = Home /\ (\E e \in S : e.path = p /\ ~e.pinned) /\ (\A f \in T : f.path # p)

Answered ==
  \A h \in hydrates : (h.at = "answered" /\ ~h.stale) =>
    /\ \A i : Kept(i) => Holds(h.list, i)
    /\ \A e \in ToSet(h.list) : Kept(e.id) => e.pinned = handles[e.id].pinned /\ e.order = handles[e.id].order
    /\ \A p \in Paths : RootAgrees(p, ToSet(h.roots), ToSet(registry))

\* Without a save under way, a bootstrap says of an agent what its handle says.
LEMMA BootstrappedAgrees ==
  ASSUME Matches(disk, handles), NEW i
  PROVE  Bootstrapped(i) = [id |-> i, pinned |-> handles[i].pinned, order |-> handles[i].order]
<1>1. i \in DOMAIN disk => disk[i].pinned = handles[i].pinned /\ disk[i].order = handles[i].order
  BY DEF Matches
<1> DEFINE b == IF i \in DOMAIN disk THEN disk[i].pinned ELSE handles[i].pinned
           r == IF i \in DOMAIN disk /\ disk[i].order # NoOrder THEN disk[i].order ELSE handles[i].order
<1>2. b = handles[i].pinned /\ r = handles[i].order
  BY <1>1
<1>3. Bootstrapped(i) = [id |-> i, pinned |-> b, order |-> r]
  BY DEF Bootstrapped
<1> HIDE DEF b, r
<1> QED
  BY <1>2, <1>3

LEMMA ListedAgrees ==
  ASSUME NEW g, RegistryOk(g), NEW p \in Paths, NEW S,
         S = {[path |-> e.path, pinned |-> e.pinned, known |-> TRUE] : e \in ToSet(Listed(g))}
  PROVE  RootAgrees(p, S, ToSet(g))
<1> DEFINE root(e) == [path |-> e.path, pinned |-> e.pinned, known |-> TRUE]
<1>0. /\ S = {root(e) : e \in ToSet(Listed(g))}
      /\ \A e : root(e).path = e.path /\ root(e).pinned = e.pinned
  OBVIOUS
<1> HIDE DEF root, ToSet
<1>1. /\ \A e \in S : \E f \in ToSet(Listed(g)) : e.path = f.path /\ e.pinned = f.pinned
      /\ \A f \in ToSet(Listed(g)) : \E e \in S : e.path = f.path /\ e.pinned = f.pinned
  BY <1>0
<1>2. CASE Listed(g) = g
  BY <1>1, <1>2 DEF RootAgrees
<1>3. CASE Listed(g) = Enrolled(g, Home)
  <2> DEFINE h == [path |-> Home, pinned |-> FALSE]
  <2>1. ToSet(Listed(g)) = ToSet(g) \cup (IF \E e \in ToSet(g) : e.path = Home THEN {} ELSE {h})
    BY <1>3, EnrolledIs, SidebarAssumption
  <2>2. h.path = Home /\ ~h.pinned
    OBVIOUS
  <2> HIDE DEF h
  <2>3. CASE \E f \in ToSet(g) : f.path = p
    <3>1. PICK f \in ToSet(g) : f.path = p
      BY <2>3
    <3>2. PICK e \in S : e.path = f.path /\ e.pinned = f.pinned
      BY <1>1, <2>1
    <3> QED
      BY <3>1, <3>2 DEF RootAgrees
  <2>4. CASE (\A f \in ToSet(g) : f.path # p) /\ p = Home
    <3>1. h \in ToSet(Listed(g))
      BY <2>1, <2>4
    <3>2. PICK e \in S : e.path = h.path /\ e.pinned = h.pinned
      BY <1>1, <3>1
    <3> QED
      BY <2>2, <2>4, <3>2 DEF RootAgrees
  <2>5. CASE (\A f \in ToSet(g) : f.path # p) /\ p # Home
    BY <1>1, <2>1, <2>2, <2>5 DEF RootAgrees
  <2> QED
    BY <2>3, <2>4, <2>5
<1> QED
  BY <1>2, <1>3 DEF Listed

LEMMA AnsweredStep ==
  ASSUME SidebarTypes, Calm, TakenUp, OrdersKept, DiskIsCurrent, Answered, SidebarNext, ~overtaken'
  PROVE  Answered'
<1> SUFFICES ASSUME NEW g \in hydrates', g.at = "answered", ~g.stale
             PROVE  /\ \A i : Kept(i)' => Holds(g.list, i)
                    /\ \A e \in ToSet(g.list) : Kept(e.id)' => e.pinned = handles'[e.id].pinned /\ e.order = handles'[e.id].order
                    /\ \A p \in Paths : RootAgrees(p, ToSet(g.roots), ToSet(registry'))
  BY DEF Answered
<1>1. calls = {} /\ registry' = registry /\ disk' = disk
  BY HydrateOrigin
<1>2. ASSUME NEW i, Kept(i)'
      PROVE  Kept(i) /\ handles'[i].pinned = handles[i].pinned /\ handles'[i].order = handles[i].order
  <2>1. Kept(i)
    BY <1>1, <1>2, KeptOrigin
  <2>2. i \in DOMAIN handles /\ i \in DOMAIN handles'
    BY <2>1, KeptIs, HandlesStep DEF SidebarTypes, Grows
  <2> QED
    BY <1>1, <2>1, <2>2, SettingsOrigin
<1>3. CASE \E h \in hydrates : h.at = g.at /\ ~h.stale /\ g.roots = h.roots /\ g.list = h.list
  <2> PICK h \in hydrates : h.at = g.at /\ ~h.stale /\ g.roots = h.roots /\ g.list = h.list
    BY <1>3
  <2> QED
    BY <1>1, <1>2 DEF Answered
<1>4. CASE \E h \in hydrates : /\ Answer(h) /\ ~h.stale
                               /\ \A i \in Live : \E e \in ToSet(g.list) : e.id = i
                               /\ \A e \in ToSet(g.list) : e.id \in Live /\ e = Bootstrapped(e.id)
                               /\ ToSet(g.roots) = {[path |-> e.path, pinned |-> e.pinned, known |-> TRUE] : e \in ToSet(Listed(h.roots))}
  <2> PICK h \in hydrates : /\ Answer(h) /\ ~h.stale
                            /\ \A i \in Live : \E e \in ToSet(g.list) : e.id = i
                            /\ \A e \in ToSet(g.list) : e.id \in Live /\ e = Bootstrapped(e.id)
                            /\ ToSet(g.roots) = {[path |-> e.path, pinned |-> e.pinned, known |-> TRUE] : e \in ToSet(Listed(h.roots))}
    BY <1>4
  <2>1. DOMAIN disk \subseteq Live /\ h.roots = registry
    BY DEF TakenUp, Answer
  <2>2. Matches(disk, handles)
    BY <1>1 DEF DiskIsCurrent, SavesPending
  <2>3. \A i : Kept(i)' => i \in Live
    BY <1>2, <2>1 DEF Kept
  <2>4. ASSUME NEW e \in ToSet(g.list), Kept(e.id)'
        PROVE  e.pinned = handles'[e.id].pinned /\ e.order = handles'[e.id].order
    <3>1. e = [id |-> e.id, pinned |-> handles[e.id].pinned, order |-> handles[e.id].order]
      BY <2>2, BootstrappedAgrees
    <3>2. e.pinned = handles[e.id].pinned /\ e.order = handles[e.id].order
      BY <3>1
    <3> QED
      BY <1>2, <2>4, <3>2
  <2>5. \A p \in Paths : RootAgrees(p, ToSet(g.roots), ToSet(registry))
    BY <2>1, ListedAgrees DEF SidebarTypes
  <2> QED
    BY <1>1, <2>3, <2>4, <2>5 DEF Holds
<1> QED
  BY <1>3, <1>4, HydrateOrigin

\* The user's steps but Pin and Drag send neither pins nor places.
LEMMA OtherCalls ==
  ASSUME UserSteps, ~\E i \in 1..MaxSessions : Pin(i) \/ \E j \in 1..MaxSessions : Drag(i, j)
  PROVE  \E new : Send(new) /\ \A c \in new : c.to \notin {"pin", "place"}
<1>1. \A to, p : OnRoot(to, p).to = to
  BY DEF OnRoot, Call
<1>2. \A to, i : OnAgent(to, i).to = to
  BY DEF OnAgent, Call
<1>3. ASSUME NEW p \in Paths, AddRoot(p) PROVE Send({OnRoot("register", p)})
  BY <1>3 DEF AddRoot
<1>4. ASSUME NEW p \in Paths, RemoveRoot(p) PROVE Send({OnRoot("remove", p)})
  BY <1>4 DEF RemoveRoot
<1>5. ASSUME NEW p \in Paths, PinRoot(p) PROVE \E b : Send({[OnRoot("pinroot", p) EXCEPT !.pinned = b]})
  BY <1>5 DEF PinRoot
<1>6. \A p, b : [OnRoot("pinroot", p) EXCEPT !.pinned = b].to = "pinroot"
  BY DEF OnRoot, Call
<1>7. ASSUME NEW i, StopAgent(i) \/ AgentGone(i) PROVE Send({OnAgent("stop", i)})
  BY <1>7 DEF StopAgent, AgentGone
<1>8. StartAgent => Send({Call("create")}) /\ Call("create").to = "create"
  BY DEF StartAgent, Call
<1>9. CASE \E p \in Paths : AddRoot(p) \/ RemoveRoot(p) \/ PinRoot(p)
  <2> PICK p \in Paths : AddRoot(p) \/ RemoveRoot(p) \/ PinRoot(p)
    BY <1>9
  <2> DEFINE d(b) == [OnRoot("pinroot", p) EXCEPT !.pinned = b]
  <2>1. CASE AddRoot(p) \/ RemoveRoot(p)
    <3>1. PICK to \in {"register", "remove"} : Send({OnRoot(to, p)})
      BY <1>3, <1>4, <2>1
    <3>2. OnRoot(to, p).to = to
      BY <1>1
    <3> QED
      BY <3>1, <3>2
  <2>2. CASE PinRoot(p)
    <3>1. PICK b : Send({d(b)})
      BY <1>5, <2>2
    <3>2. d(b).to = "pinroot"
      BY <1>6
    <3> HIDE DEF d
    <3> QED
      BY <3>1, <3>2
  <2> QED
    BY <2>1, <2>2
<1>10. CASE StartAgent
  BY <1>8, <1>10
<1>11. CASE \E i \in 1..MaxSessions : StopAgent(i) \/ AgentGone(i)
  <2> PICK i \in 1..MaxSessions : StopAgent(i) \/ AgentGone(i)
    BY <1>11
  <2>1. Send({OnAgent("stop", i)})
    BY <1>7
  <2>2. OnAgent("stop", i).to = "stop"
    BY <1>2
  <2> QED
    BY <2>1, <2>2
<1> QED
  BY <1>9, <1>10, <1>11 DEF UserSteps

\* What a drag sends is the order of every agent of the list.
LEMMA PlacedIs ==
  ASSUME NEW s, NEW c \in Placed(s)
  PROVE  \E e \in ToSet(s) : c = [OnAgent("place", e.id) EXCEPT !.order = e.order]
BY DEF Placed, ToSet

LEMMA PlacedCall ==
  ASSUME NEW i, NEW r
  PROVE  LET c == [OnAgent("place", i) EXCEPT !.order = r]
         IN  c.to = "place" /\ c.id = i /\ c.order = r /\ c.at = "sent" /\ c.path = NoPath
BY DEF OnAgent, Call

LEMMA PinCall ==
  ASSUME NEW i, NEW b
  PROVE  LET c == [OnAgent("pin", i) EXCEPT !.pinned = b]
         IN  c.to = "pin" /\ c.id = i /\ c.pinned = b /\ c.at = "sent" /\ c.path = NoPath
BY DEF OnAgent, Call

\* Pins and places are sent for agents of the list only.
LEMMA SettingsShown ==
  ASSUME SidebarTypes, UserSteps, NEW c \in calls' \ calls, c.to \in {"pin", "place"}
  PROVE  Holds(list, c.id)
<1>0. HandlesOk(handles) /\ ListOk(list, handles)
  BY DEF SidebarTypes
<1>1. CASE \E i \in 1..MaxSessions : Pin(i)
  <2> PICK i \in 1..MaxSessions : Pin(i)
    BY <1>1
  <2>1. PICK e \in ToSet(list) :
             /\ e.id = i
             /\ ToSet(list') = {f \in ToSet(list) : f.id # i} \cup {[e EXCEPT !.pinned = ~@]}
             /\ Send({[OnAgent("pin", i) EXCEPT !.pinned = ~e.pinned]})
    BY <1>0, PinIs
  <2>2. c = [OnAgent("pin", i) EXCEPT !.pinned = ~e.pinned]
    BY <2>1 DEF Send
  <2>3. c.id = i
    BY <2>2 DEF OnAgent, Call
  <2> QED
    BY <2>1, <2>3 DEF Holds
<1>2. CASE \E i, j \in 1..MaxSessions : Drag(i, j)
  <2> PICK i \in 1..MaxSessions, j \in 1..MaxSessions : Drag(i, j)
    BY <1>2
  <2>1. /\ Send(Placed(list'))
        /\ \A e \in ToSet(list') : \E f \in ToSet(list) : f.id = e.id
    BY <1>0, DragIs
  <2>2. PICK e \in ToSet(list') : c = [OnAgent("place", e.id) EXCEPT !.order = e.order]
    BY <2>1, PlacedIs DEF Send
  <2>3. c.id = e.id
    BY <2>2, PlacedCall
  <2> HIDE DEF ToSet
  <2> QED
    BY <2>1, <2>3 DEF Holds
<1>3. CASE ~\E i \in 1..MaxSessions : Pin(i) \/ \E j \in 1..MaxSessions : Drag(i, j)
  <2>1. PICK new : Send(new) /\ \A d \in new : d.to \notin {"pin", "place"}
    BY <1>3, OtherCalls
  <2> QED
    BY <2>1 DEF Send
<1> QED
  BY <1>1, <1>2, <1>3

FreshAgent(a) == ~a.pinned /\ a.order = NoOrder

\* Until it is listed, an agent that is kept has the settings it was started with.
UntouchedCalls == \A c \in calls : c.to = "create" /\ c.id # 0 => FreshAgent(handles[c.id])
UntouchedReplies ==
  \A c \in replies : c.to = "create" /\ Kept(c.id) =>
    \/ Holds(list, c.id)
    \/ FreshAgent(handles[c.id]) /\ \A d \in calls : d.id = c.id => d.to \notin {"pin", "place"}

LEMMA UntouchedCallsStep ==
  ASSUME SidebarTypes, AloneCalls, Calm, TakenUp, DiskIsCurrent, UntouchedCalls, SidebarNext, ~overtaken'
  PROVE  UntouchedCalls'
<1> SUFFICES ASSUME NEW c \in calls', c.to = "create", c.id # 0
             PROVE  ~handles'[c.id].pinned /\ handles'[c.id].order = NoOrder
  BY DEF UntouchedCalls, FreshAgent
<1>0. /\ handles \in Seq(Agent) /\ DOMAIN handles = 1..Len(handles) /\ Len(handles) \in Nat
      /\ \A d \in calls : CallOk(d, handles)
  BY LenProperties DEF SidebarTypes, HandlesOk
<1>1. CASE UserSteps
  <2>1. PICK new : /\ Send(new) /\ UNCHANGED <<handles, disk, registry, replies>>
                   /\ \A d \in new : d.to = "create" => d = Call("create")
    BY <1>1, UserCalls
  <2>2. Call("create").id = 0
    BY DEF Call
  <2>3. c \in calls
    BY <2>1, <2>2 DEF Send
  <2> QED
    BY <2>1, <2>3 DEF UntouchedCalls, FreshAgent
<1>2. CASE ~UserSteps
  <2>0. CallOk(c, handles')
    BY CallsStep
  <2>1. PICK d \in calls : /\ c.to = d.to
                           /\ c.id = d.id \/ (c.to = "create" /\ d.at = "sent" /\ c.id = Len(handles) + 1)
    BY <1>2, CallOrigin
  <2>2. c.id \in DOMAIN handles'
    BY <2>0 DEF CallOk
  <2>3. c.id \in DOMAIN handles => c.id = d.id
    BY <1>0, <2>1
  <2>4. CASE c.id \in DOMAIN handles
    <3>1. ~\E e \in calls : (PinSession(e) \/ PlaceSession(e)) /\ e.id = c.id
      BY <1>0, <2>1, <2>3, <2>4, SameFacts DEF PinSession, PlaceSession, Arrived, Saving
    <3>2. c.id # Len(handles) + 1
      BY <1>0, <2>4
    <3>3. handles'[c.id].pinned = handles[c.id].pinned /\ handles'[c.id].order = handles[c.id].order
      BY <2>2, <3>1, <3>2, SettingsOrigin
    <3> QED
      BY <2>1, <2>3, <2>4, <3>3 DEF UntouchedCalls, FreshAgent
  <2>5. CASE c.id \notin DOMAIN handles
    <3>1. handles'[c.id] = [live |-> TRUE, pinned |-> FALSE, order |-> NoOrder]
      BY <2>2, <2>5, SettingsOrigin
    <3> QED
      BY <3>1
  <2> QED
    BY <2>4, <2>5
<1> QED
  BY <1>1, <1>2

LEMMA UntouchedRepliesStep ==
  ASSUME SidebarTypes, Calm, TakenUp, OrdersKept, DiskIsCurrent, AloneCalls, StopsHold, Answered, UntouchedCalls, UntouchedReplies, SidebarNext, ~overtaken'
  PROVE  UntouchedReplies'
<1> SUFFICES ASSUME NEW c \in replies', c.to = "create", Kept(c.id)', ~Holds(list', c.id)
             PROVE  /\ FreshAgent(handles'[c.id])
                    /\ \A d \in calls' : d.id = c.id => d.to \notin {"pin", "place"}
  BY DEF UntouchedReplies
<1>0. /\ HandlesOk(handles) /\ ListOk(list, handles) /\ DOMAIN handles = 1..Len(handles) /\ Len(handles) \in Nat
      /\ \A d \in calls : CallOk(d, handles)
      /\ \A d \in replies : ReplyOk(d, handles)
  BY LenProperties DEF SidebarTypes, HandlesOk
<1>1. CASE c \in replies
  <2>1. c.id \in DOMAIN handles
    BY <1>0, <1>1 DEF ReplyOk, CallOk, Saving
  <2>2. c.id \in DOMAIN handles' /\ c.id # Len(handles) + 1 /\ Kept(c.id)
    <3>1. c.id \in DOMAIN handles' /\ c.id # Len(handles) + 1
      BY <1>0, <2>1, HandlesStep DEF SidebarTypes, Grows
    <3> QED
      BY <3>1, KeptOrigin
  <2>3. ~Reload
    BY DEF Reload
  <2>4. ~Holds(list, c.id)
    <3>1. CASE \E h \in hydrates : Arrive(h)
      <4> PICK h \in hydrates : Arrive(h)
        BY <3>1
      <4>1. h.at = "answered" /\ ~h.stale /\ list' = Normalize(h.list)
        BY DEF Arrive
      <4>2. Holds(h.list, c.id)
        BY <2>2, <4>1 DEF Answered
      <4>3. ToSet(list') = ToSet(h.list)
        BY <4>1, NormalizeList DEF SidebarTypes, HydrateOk
      <4> QED
        BY <4>2, <4>3 DEF Holds
    <3>2. CASE ~\E h \in hydrates : Arrive(h)
      BY <2>2, <2>3, <3>2, HeldStays
    <3> QED
      BY <3>1, <3>2
  <2>5. /\ FreshAgent(handles[c.id])
        /\ \A d \in calls : d.id = c.id => d.to \notin {"pin", "place"}
    BY <1>1, <2>2, <2>4 DEF UntouchedReplies
  <2>6. FreshAgent(handles'[c.id])
    <3>0. \A d \in calls : PinSession(d) \/ PlaceSession(d) => d.id # c.id
      BY <2>5 DEF PinSession, PlaceSession, Arrived
    <3>1. handles'[c.id].pinned = handles[c.id].pinned /\ handles'[c.id].order = handles[c.id].order
      BY <2>2, <3>0, SettingsOrigin
    <3> QED
      BY <2>5, <3>1 DEF FreshAgent
  <2>7. ASSUME NEW d \in calls', d.id = c.id, d.to \in {"pin", "place"} PROVE FALSE
    <3>1. CASE UserSteps
      BY <2>4, <2>5, <2>7, <3>1, SettingsShown
    <3>2. CASE ~UserSteps
      <4>1. PICK e \in calls : d.to = e.to /\ (d.id = e.id \/ d.to = "create")
        BY <3>2, CallOrigin
      <4> QED
        BY <2>5, <2>7, <4>1
    <3> QED
      BY <3>1, <3>2
  <2> QED
    BY <2>6, <2>7
<1>2. CASE c \notin replies
  <2>1. PICK d \in calls : (Register(d) \/ SaveAgents(d)) /\ c \in Reply(d)
    BY <1>2, RepliesChange DEF Register, SaveAgents, Receive, Reload
  <2>2. c.to = d.to /\ c.id = d.id
    <3>1. d.to = "register" \/ (d.to \in {"create", "stop"} /\ d.at # "sent")
      <4>1. CASE Register(d)
        BY <4>1 DEF Register, Arrived
      <4>2. CASE SaveAgents(d)
        BY <1>2, <4>2 DEF SaveAgents
      <4> QED
        BY <2>1, <4>1, <4>2
    <3> QED
      BY <1>0, <2>1, <3>1, ReplyIs
  <2>3. SaveAgents(d)
    BY <2>1, <2>2 DEF Register, Arrived
  <2>4. d.at = "collected" /\ calls' = calls \ {d} /\ handles' = handles
    BY <2>3 DEF SaveAgents
  <2>5. d.id # 0
    BY <1>0, <2>2, <2>4 DEF CallOk, Saving
  <2>6. FreshAgent(handles[d.id])
    BY <2>2, <2>5 DEF UntouchedCalls
  <2>7. ASSUME NEW e \in calls', e.id = d.id, e.to \in {"pin", "place"} PROVE FALSE
    BY <1>0, <2>2, <2>4, <2>7, SameFacts DEF Saving
  <2> QED
    BY <2>2, <2>4, <2>6, <2>7
<1> QED
  BY <1>1, <1>2

\* The requests among cs that are on their way to set something of agent i.
Underway(cs, kind, i) == {c \in cs : c.to = kind /\ c.id = i /\ c.at = "sent"}

\* What the list shows of an agent that is kept is what its handle says, or will say.
EntryAgrees(e, a, cs) ==
  /\ Underway(cs, "pin", e.id) = {} => e.pinned = a.pinned
  /\ Underway(cs, "place", e.id) = {} => e.order = a.order
  /\ \A c \in Underway(cs, "pin", e.id) : c.pinned = e.pinned
  /\ \A c \in Underway(cs, "place", e.id) : c.order = e.order /\ (c.order = NoOrder => a.order = NoOrder)
ListAgrees == \A e \in ToSet(list) : Kept(e.id) => EntryAgrees(e, handles[e.id], calls)

\* In the other steps no pin or place is sent or handled.
LEMMA SettingsFrame ==
  ASSUME SidebarTypes, SidebarNext, ~overtaken', ~Reload,
         ~\E i \in 1..MaxSessions : Pin(i) \/ \E j \in 1..MaxSessions : Drag(i, j),
         ~\E c \in calls : PinSession(c) \/ PlaceSession(c),
         NEW kind \in {"pin", "place"}, NEW i
  PROVE  Underway(calls', kind, i) = Underway(calls, kind, i)
<1>1. CASE UNCHANGED calls
  BY <1>1
<1>2. CASE UserSteps
  <2>1. PICK new : Send(new) /\ \A c \in new : c.to \notin {"pin", "place"}
    BY <1>2, OtherCalls
  <2> QED
    BY <2>1 DEF Send, Underway
<1>3. CASE \E c \in calls : Register(c) \/ RemoveWorkspace(c) \/ Configure(c) \/ Lost(c) \/ SaveAgents(c)
  <2> PICK c \in calls : Register(c) \/ RemoveWorkspace(c) \/ Configure(c) \/ Lost(c) \/ SaveAgents(c)
    BY <1>3
  <2>1. calls' = calls \ {c}
    BY DEF Register, RemoveWorkspace, Configure, Lost, SaveAgents
  <2>2. c.at # "sent" \/ c.to \notin {"pin", "place"}
    BY DEF Register, RemoveWorkspace, Configure, Lost, SaveAgents, Arrived
  <2> QED
    BY <2>1, <2>2 DEF Underway
<1>4. CASE \E c \in calls : CreateSession(c) \/ StopSession(c)
  <2> PICK c \in calls : CreateSession(c) \/ StopSession(c)
    BY <1>4
  <2>1. PICK j \in DOMAIN handles' : calls' = (calls \ {c}) \cup {[c EXCEPT !.at = "applied", !.id = j]}
    BY AppliedIs
  <2> DEFINE d == [c EXCEPT !.at = "applied", !.id = j]
  <2>2. d.at = "applied"
    BY CallKinds DEF CallType
  <2>3. c.to \notin {"pin", "place"}
    BY DEF CreateSession, StopSession, Arrived
  <2>4. calls' = (calls \ {c}) \cup {d}
    BY <2>1
  <2> HIDE DEF d
  <2> QED
    BY <2>2, <2>3, <2>4 DEF Underway
<1>5. CASE \E c \in calls : Collect(c)
  <2> PICK c \in calls : Collect(c)
    BY <1>5
  <2> DEFINE d == [c EXCEPT !.at = "collected", !.snap = Snapshot(c)]
  <2>1. calls' = (calls \ {c}) \cup {d} /\ c.at = "applied"
    BY DEF Collect
  <2>2. d.at = "collected"
    BY CallKinds DEF CallType
  <2> HIDE DEF d
  <2> QED
    BY <2>1, <2>2 DEF Underway
<1> QED
  BY <1>1, <1>2, <1>3, <1>4, <1>5, CallsChange

\* Where no pin or place is sent or handled, the list stays right if it gets nothing new.
LEMMA ListAgreesFrame ==
  ASSUME SidebarTypes, Calm, TakenUp, OrdersKept, DiskIsCurrent, ListAgrees, SidebarNext, ~overtaken', ~Reload,
         ~\E i \in 1..MaxSessions : Pin(i) \/ \E j \in 1..MaxSessions : Drag(i, j),
         ~\E c \in calls : PinSession(c) \/ PlaceSession(c),
         NEW e \in ToSet(list), Kept(e.id)'
  PROVE  EntryAgrees(e, handles'[e.id], calls')
<1>0. /\ DOMAIN handles = 1..Len(handles) /\ Len(handles) \in Nat /\ e.id \in DOMAIN handles /\ e.id \in DOMAIN handles'
      /\ e.id # Len(handles) + 1
  <2>1. ListOk(list, handles) /\ HandlesOk(handles) /\ Grows(handles, handles')
    BY HandlesStep DEF SidebarTypes
  <2> QED
    BY <2>1, LenProperties, ListItems DEF HandlesOk, Grows
<1>1. EntryAgrees(e, handles[e.id], calls)
  <2>1. Kept(e.id)
    BY <1>0, KeptOrigin
  <2> QED
    BY <2>1 DEF ListAgrees
<1>2. \A kind \in {"pin", "place"} : Underway(calls', kind, e.id) = Underway(calls, kind, e.id)
  BY SettingsFrame
<1>3. handles'[e.id].pinned = handles[e.id].pinned /\ handles'[e.id].order = handles[e.id].order
  BY <1>0, SettingsOrigin
<1> QED
  BY <1>1, <1>2, <1>3 DEF EntryAgrees

\* Requests that save about the same agent are the same request.
LEMMA UnderwayAlone ==
  ASSUME SidebarTypes, AloneCalls, NEW c \in calls, c.to \in Saving, c.at = "sent",
         NEW kind \in {"pin", "place"}
  PROVE  Underway(calls, kind, c.id) = IF c.to = kind THEN {c} ELSE {}
<1>0. \A d \in calls : CallOk(d, handles)
  BY DEF SidebarTypes
<1>1. \A d \in calls : d.to = kind /\ d.id = c.id => d = c
  BY <1>0, SameFacts DEF Saving
<1> QED
  BY <1>1 DEF Underway

LEMMA KeptBefore ==
  ASSUME SidebarTypes, Calm, TakenUp, OrdersKept, DiskIsCurrent, SidebarNext, ~overtaken', NEW i \in DOMAIN handles, Kept(i)'
  PROVE  Kept(i)
<1>1. i # Len(handles) + 1
  BY LenProperties DEF SidebarTypes, HandlesOk
<1> QED
  BY <1>1, KeptOrigin

LEMMA PinAgrees ==
  ASSUME SidebarTypes, Calm, TakenUp, OrdersKept, DiskIsCurrent, AloneCalls, ListAgrees,
         SidebarNext, NEW i \in 1..MaxSessions, Pin(i), ~overtaken'
  PROVE  ListAgrees'
<1>0. ListOk(list, handles) /\ \A d \in calls : CallOk(d, handles)
  BY DEF SidebarTypes
<1>1. PICK e \in ToSet(list) :
           /\ e.id = i
           /\ ToSet(list') = {f \in ToSet(list) : f.id # i} \cup {[e EXCEPT !.pinned = ~@]}
           /\ Send({[OnAgent("pin", i) EXCEPT !.pinned = ~e.pinned]})
  BY <1>0, PinIs
<1> DEFINE x == [OnAgent("pin", i) EXCEPT !.pinned = ~e.pinned]
           n == [e EXCEPT !.pinned = ~@]
<1>2. calls' = calls \cup {x} /\ \A d \in calls : Same(x, d) => x = d
  BY <1>1 DEF Send
<1>3. x.to = "pin" /\ x.id = i /\ x.at = "sent" /\ x.path = NoPath /\ x.pinned = ~e.pinned
  BY PinCall
<1>4. n.id = i /\ n.order = e.order /\ n.pinned = ~e.pinned
  BY <1>0, <1>1, ListItems DEF EntryType
<1>5. ToSet(list') = {f \in ToSet(list) : f.id # i} \cup {n}
  BY <1>1
<1>6. handles' = handles
  BY DEF Pin, Gesture, backend
<1>k. \A f \in ToSet(list) : Kept(f.id)' => Kept(f.id)
  BY <1>0, ListItems, KeptBefore
<1> HIDE DEF x, n, ToSet
<1>7. \A f \in ToSet(list') : f.id # i /\ Kept(f.id)' => EntryAgrees(f, handles'[f.id], calls')
  <2> SUFFICES ASSUME NEW f \in ToSet(list'), f.id # i, Kept(f.id)' PROVE EntryAgrees(f, handles'[f.id], calls')
    OBVIOUS
  <2>1. f \in ToSet(list) /\ Kept(f.id)
    BY <1>4, <1>5, <1>k
  <2>2. \A kind : Underway(calls', kind, f.id) = Underway(calls, kind, f.id)
    BY <1>2, <1>3 DEF Underway
  <2> QED
    BY <1>6, <2>1, <2>2 DEF ListAgrees, EntryAgrees
<1>8. Kept(n.id)' => EntryAgrees(n, handles'[n.id], calls')
  <2> SUFFICES ASSUME Kept(i)' PROVE EntryAgrees(n, handles[i], calls')
    BY <1>4, <1>6
  <2>1. EntryAgrees(e, handles[i], calls)
    BY <1>1, <1>k DEF ListAgrees
  <2>2. \A d \in calls : d.id = i /\ d.to \in {"pin", "place"} => d = x
    BY <1>0, <1>2, <1>3 DEF CallOk, Same, Saving
  <2>3. x \notin calls
    <3> SUFFICES ASSUME x \in calls PROVE FALSE
      OBVIOUS
    <3>1. x \in Underway(calls, "pin", i)
      BY <1>3 DEF Underway
    <3>2. x.pinned = e.pinned
      BY <1>1, <2>1, <3>1 DEF EntryAgrees
    <3> QED
      BY <1>3, <3>2, <1>0, <1>1, ListItems DEF EntryType
  <2>4. Underway(calls, "pin", i) = {} /\ Underway(calls, "place", i) = {}
    BY <2>2, <2>3 DEF Underway
  <2>5. Underway(calls', "pin", i) = {x} /\ Underway(calls', "place", i) = {}
    BY <1>2, <1>3, <2>4 DEF Underway
  <2>6. e.order = handles[i].order
    BY <1>1, <2>1, <2>4 DEF EntryAgrees
  <2> QED
    BY <1>3, <1>4, <2>5, <2>6 DEF EntryAgrees
<1> QED
  BY <1>4, <1>5, <1>7, <1>8 DEF ListAgrees

LEMMA DragAgrees ==
  ASSUME SidebarTypes, Calm, TakenUp, OrdersKept, DiskIsCurrent, AloneCalls, ListAgrees,
         SidebarNext, NEW i \in 1..MaxSessions, NEW j \in 1..MaxSessions, Drag(i, j), ~overtaken'
  PROVE  ListAgrees'
<1>0. ListOk(list, handles) /\ HandlesOk(handles) /\ \A d \in calls : CallOk(d, handles)
  BY DEF SidebarTypes
<1>1. /\ ListOk(list', handles)
      /\ Send(Placed(list'))
      /\ \A e \in ToSet(list') : /\ e \in ToSet(list) \/ e.order # NoOrder
                                 /\ \E f \in ToSet(list) : f.id = e.id /\ f.pinned = e.pinned
  BY <1>0, DragIs
<1>2. handles' = handles
  BY DEF Drag, Gesture, backend
<1> SUFFICES ASSUME NEW e \in ToSet(list'), Kept(e.id)' PROVE EntryAgrees(e, handles[e.id], calls')
  BY <1>2 DEF ListAgrees
<1>k. Kept(e.id)
  <2>1. e.id \in DOMAIN handles
    BY <1>1, ListItems
  <2> QED
    BY <2>1, KeptBefore
<1> DEFINE x == [OnAgent("place", e.id) EXCEPT !.order = e.order]
<1>3. x \in Placed(list')
  BY DEF Placed, ToSet
<1>4. x.to = "place" /\ x.id = e.id /\ x.at = "sent" /\ x.path = NoPath /\ x.order = e.order
  BY PlacedCall
<1>5. \A c \in Placed(list') : c.to = "place" /\ (c.id = e.id => c = x)
  <2> SUFFICES ASSUME NEW c \in Placed(list') PROVE c.to = "place" /\ (c.id = e.id => c = x)
    OBVIOUS
  <2>1. PICK f \in ToSet(list') : c = [OnAgent("place", f.id) EXCEPT !.order = f.order]
    BY PlacedIs
  <2>2. c.to = "place" /\ c.id = f.id
    BY <2>1, PlacedCall
  <2>3. f.id = e.id => f = e
    BY <1>1, ListItems
  <2> QED
    BY <2>1, <2>2, <2>3
<1> HIDE DEF x, ToSet
<1>6. calls' = calls \cup Placed(list') /\ \A d \in calls : Same(x, d) => x = d
  BY <1>1, <1>3 DEF Send
<1>7. \A d \in calls : d.id = e.id /\ d.to \in {"pin", "place"} => d = x
  BY <1>0, <1>4, <1>6 DEF CallOk, Same, Saving
<1>8. Underway(calls', "place", e.id) = {x} /\ Underway(calls', "pin", e.id) = {} /\ Underway(calls, "pin", e.id) = {}
  BY <1>3, <1>4, <1>5, <1>6, <1>7 DEF Underway
<1>9. PICK f \in ToSet(list) : f.id = e.id /\ f.pinned = e.pinned
  BY <1>1
<1>10. EntryAgrees(f, handles[e.id], calls)
  BY <1>9, <1>k DEF ListAgrees
<1>11. e.pinned = handles[e.id].pinned
  BY <1>8, <1>9, <1>10 DEF EntryAgrees
<1>12. e.order = NoOrder => handles[e.id].order = NoOrder
  <2> SUFFICES ASSUME e.order = NoOrder PROVE handles[e.id].order = NoOrder
    OBVIOUS
  <2>1. e \in ToSet(list)
    BY <1>1
  <2>2. EntryAgrees(e, handles[e.id], calls)
    BY <1>k, <2>1 DEF ListAgrees
  <2>3. CASE Underway(calls, "place", e.id) = {}
    BY <2>2, <2>3 DEF EntryAgrees
  <2>4. CASE x \in Underway(calls, "place", e.id)
    BY <1>4, <2>2, <2>4 DEF EntryAgrees
  <2> QED
    BY <1>7, <2>3, <2>4 DEF Underway
<1> QED
  BY <1>4, <1>8, <1>11, <1>12 DEF EntryAgrees

LEMMA AppliedAgrees ==
  ASSUME SidebarTypes, Calm, TakenUp, OrdersKept, DiskIsCurrent, AloneCalls, ListAgrees,
         SidebarNext, NEW c \in calls, PinSession(c) \/ PlaceSession(c), ~overtaken'
  PROVE  ListAgrees'
<1>0. /\ handles \in Seq(Agent) /\ HandlesOk(handles) /\ ListOk(list, handles)
      /\ \A i \in DOMAIN handles : handles[i] \in Agent
  BY LenProperties, ElementOfSeq DEF SidebarTypes, HandlesOk
<1>1. /\ c.at = "sent" /\ c.to \in {"pin", "place"} /\ c.id \in DOMAIN handles /\ c.pinned \in BOOLEAN
      /\ c.to = "pin" <=> PinSession(c)
  BY DEF SidebarTypes, CallOk, CallType, PinSession, PlaceSession, Arrived, Saving
<1>2. PICK i \in DOMAIN handles' :
           /\ calls' = (calls \ {c}) \cup {[c EXCEPT !.at = "applied", !.id = i]}
           /\ list' = list
  BY AppliedIs DEF browser
<1> DEFINE d == [c EXCEPT !.at = "applied", !.id = i]
<1>3. calls' = (calls \ {c}) \cup {d} /\ d.at = "applied"
  BY <1>2, CallKinds DEF CallType
<1> HIDE DEF d
<1>4. \A kind : \A k : Underway(calls', kind, k) = Underway(calls, kind, k) \ {c}
  BY <1>3 DEF Underway
<1>5. /\ DOMAIN handles' = DOMAIN handles
      /\ \A k \in DOMAIN handles : k # c.id => handles'[k] = handles[k]
      /\ c.to = "pin" => handles'[c.id].pinned = c.pinned /\ handles'[c.id].order = handles[c.id].order
      /\ c.to = "place" => /\ handles'[c.id].pinned = handles[c.id].pinned
                           /\ handles'[c.id].order = IF c.order # NoOrder THEN c.order ELSE handles[c.id].order
  <2>1. CASE PinSession(c)
    <3>1. handles' = [handles EXCEPT ![c.id].pinned = c.pinned] /\ c.to = "pin" /\ handles[c.id] \in Agent
      BY <1>0, <1>1, <2>1 DEF PinSession, Arrived
    <3> QED
      BY <1>1, <3>1 DEF Agent
  <2>2. CASE PlaceSession(c) /\ c.order # NoOrder
    <3>1. handles' = [handles EXCEPT ![c.id].order = c.order] /\ c.to = "place" /\ handles[c.id] \in Agent
      BY <1>0, <1>1, <2>2 DEF PlaceSession, Arrived
    <3> QED
      BY <1>1, <2>2, <3>1 DEF Agent
  <2>3. CASE PlaceSession(c) /\ c.order = NoOrder
    BY <2>3 DEF PlaceSession, Arrived
  <2> QED
    BY <2>1, <2>2, <2>3
<1> SUFFICES ASSUME NEW e \in ToSet(list), Kept(e.id)' PROVE EntryAgrees(e, handles'[e.id], calls')
  BY <1>2 DEF ListAgrees
<1>6. e.id \in DOMAIN handles /\ EntryAgrees(e, handles[e.id], calls)
  <2>1. e.id \in DOMAIN handles
    BY <1>0, ListItems
  <2> QED
    BY <2>1, KeptBefore DEF ListAgrees
<1>7. CASE e.id # c.id
  <2>1. \A kind : Underway(calls', kind, e.id) = Underway(calls, kind, e.id)
    BY <1>4, <1>7 DEF Underway
  <2> QED
    BY <1>5, <1>6, <1>7, <2>1 DEF EntryAgrees
<1>8. CASE e.id = c.id
  <2>1. /\ Underway(calls, "pin", c.id) = IF c.to = "pin" THEN {c} ELSE {}
        /\ Underway(calls, "place", c.id) = IF c.to = "place" THEN {c} ELSE {}
    BY <1>1, UnderwayAlone DEF Saving
  <2>2. Underway(calls', "pin", c.id) = {} /\ Underway(calls', "place", c.id) = {}
    BY <1>4, <2>1
  <2>3. CASE c.to = "pin"
    <3>1. c.pinned = e.pinned /\ e.order = handles[c.id].order
      BY <1>5, <1>6, <1>8, <2>1, <2>3 DEF EntryAgrees
    <3> QED
      BY <1>5, <1>8, <2>2, <2>3, <3>1 DEF EntryAgrees
  <2>4. CASE c.to = "place"
    <3>1. c.order = e.order /\ (c.order = NoOrder => handles[c.id].order = NoOrder) /\ e.pinned = handles[c.id].pinned
      BY <1>5, <1>6, <1>8, <2>1, <2>4 DEF EntryAgrees
    <3> QED
      BY <1>5, <1>8, <2>2, <2>4, <3>1 DEF EntryAgrees
  <2> QED
    BY <1>1, <2>3, <2>4
<1> QED
  BY <1>7, <1>8

LEMMA ListAgreesStep ==
  ASSUME SidebarTypes, Calm, TakenUp, OrdersKept, DiskIsCurrent, AloneCalls, Answered, UntouchedReplies,
         hydrated => ListAgrees, SidebarNext, ~overtaken', hydrated'
  PROVE  ListAgrees'
<1>0. ListOk(list, handles) /\ \A d \in replies : ReplyOk(d, handles)
  BY DEF SidebarTypes
<1>1. CASE \E h \in hydrates : Arrive(h)
  <2> PICK h \in hydrates : Arrive(h)
    BY <1>1
  <2>1. h.at = "answered" /\ ~h.stale /\ list' = Normalize(h.list) /\ calls' = calls /\ handles' = handles /\ disk' = disk
    BY DEF Arrive, backend
  <2>2. calls = {} /\ ToSet(list') = ToSet(h.list)
    BY <2>1, NormalizeList DEF SidebarTypes, HydrateOk, Calm
  <2>3. \A kind : \A i : Underway(calls', kind, i) = {}
    BY <2>1, <2>2 DEF Underway
  <2>4. \A i : Kept(i)' => Kept(i)
    BY <2>1 DEF Kept, Live, SavesPending
  <2>5. \A e \in ToSet(list') : Kept(e.id) => e.pinned = handles[e.id].pinned /\ e.order = handles[e.id].order
    BY <2>1, <2>2 DEF Answered
  <2> QED
    BY <2>1, <2>3, <2>4, <2>5 DEF ListAgrees, EntryAgrees
<1>2. CASE ~\E h \in hydrates : Arrive(h)
  <2>1. ListAgrees /\ ~Reload
    BY <1>2, StaysHydrated
  <2>2. CASE \E i \in 1..MaxSessions : Pin(i)
    BY <2>1, <2>2, PinAgrees
  <2>3. CASE \E i, j \in 1..MaxSessions : Drag(i, j)
    BY <2>1, <2>3, DragAgrees
  <2>4. CASE \E c \in calls : PinSession(c) \/ PlaceSession(c)
    BY <2>1, <2>4, AppliedAgrees
  <2>5. CASE /\ ~\E i \in 1..MaxSessions : Pin(i) \/ \E j \in 1..MaxSessions : Drag(i, j)
             /\ ~\E c \in calls : PinSession(c) \/ PlaceSession(c)
    <3>1. \A e \in ToSet(list) : Kept(e.id)' => EntryAgrees(e, handles'[e.id], calls')
      BY <2>1, <2>5, ListAgreesFrame
    <3>2. CASE ToSet(list') \subseteq ToSet(list)
      BY <3>1, <3>2 DEF ListAgrees
    <3>3. CASE \E c \in replies : Receive(c) /\ CreateReply(c)
      <4> PICK c \in replies : Receive(c) /\ CreateReply(c)
        BY <3>3
      <4> DEFINE n == [id |-> c.id, pinned |-> FALSE, order |-> NoOrder]
      <4>1. c.to = "create" /\ ToSet(list') = {e \in ToSet(list) : e.id # c.id} \cup {n}
        BY <1>0, CreateReplyIs
      <4>2. n.id = c.id /\ n.pinned = FALSE /\ n.order = NoOrder
        OBVIOUS
      <4>3. calls' = calls /\ handles' = handles /\ disk' = disk /\ ~Holds(list, c.id)
        BY DEF Receive, backend, CreateReply, Lists, Holds, ToSet
      <4>4. Kept(c.id) => /\ FreshAgent(handles[c.id])
                          /\ \A d \in calls : d.id = c.id => d.to \notin {"pin", "place"}
        BY <4>1, <4>3 DEF UntouchedReplies
      <4>k. Kept(c.id)' => Kept(c.id)
        BY <4>3 DEF Kept, Live, SavesPending
      <4> HIDE DEF n, ToSet
      <4>5. Kept(n.id)' => EntryAgrees(n, handles'[n.id], calls')
        <5> SUFFICES ASSUME Kept(c.id) PROVE EntryAgrees(n, handles[c.id], calls)
          BY <4>2, <4>3, <4>k
        <5>1. Underway(calls, "pin", c.id) = {} /\ Underway(calls, "place", c.id) = {}
          BY <4>4 DEF Underway
        <5>2. ~handles[c.id].pinned /\ handles[c.id].order = NoOrder
          BY <4>4 DEF FreshAgent
        <5>3. handles[c.id].pinned = FALSE
          <6>1. handles \in Seq(Agent) /\ c.id \in DOMAIN handles
            BY <1>0, <4>1 DEF SidebarTypes, HandlesOk, ReplyOk, CallOk, Saving
          <6>2. handles[c.id] \in Agent
            BY <6>1, LenProperties, ElementOfSeq
          <6> QED
            BY <5>2, <6>2 DEF Agent
        <5> QED
          BY <4>2, <5>1, <5>2, <5>3 DEF EntryAgrees
      <4> QED
        BY <3>1, <4>1, <4>5 DEF ListAgrees
    <3>4. CASE \E c \in replies : Receive(c) /\ ~CreateReply(c)
      <4> PICK c \in replies : Receive(c) /\ ~CreateReply(c)
        BY <3>4
      <4>1. list' = list \/ StopReply(c)
        BY DEF Receive, RegisterReply
      <4>2. ToSet(list') \subseteq ToSet(list)
        BY <1>0, <4>1, StopReplyIs
      <4> QED
        BY <3>2, <4>2
    <3>5. CASE \E i \in 1..MaxSessions : AgentGone(i)
      <4>1. ToSet(list') \subseteq ToSet(list)
        BY <1>0, <3>5, AgentGoneIs
      <4> QED
        BY <3>2, <4>1
    <3> QED
      BY <1>2, <2>1, <2>5, <3>2, <3>3, <3>4, <3>5, ListChange
  <2> QED
    BY <2>2, <2>3, <2>4, <2>5
<1> QED
  BY <1>1, <1>2

\* An agent that is kept is on the list, or about to be put there.
AllListed == \A i : Kept(i) => Holds(list, i) \/ \E c \in calls \cup replies : c.to = "create" /\ c.id = i

LEMMA AllListedStep ==
  ASSUME SidebarTypes, Calm, TakenUp, OrdersKept, DiskIsCurrent, StopsHold, Answered, AllHeard,
         hydrated => AllListed, SidebarNext, ~overtaken', hydrated'
  PROVE  AllListed'
<1> SUFFICES ASSUME NEW i, Kept(i)', ~Holds(list', i)
             PROVE  \E c \in calls' \cup replies' : c.to = "create" /\ c.id = i
  BY DEF AllListed
<1>0. /\ HandlesOk(handles) /\ ListOk(list, handles) /\ DOMAIN handles = 1..Len(handles) /\ Len(handles) \in Nat
      /\ \A d \in calls : CallOk(d, handles)
      /\ \A d \in replies : ReplyOk(d, handles)
  BY LenProperties DEF SidebarTypes, HandlesOk
<1>1. ~\E h \in hydrates : Arrive(h)
  <2> SUFFICES ASSUME NEW h \in hydrates, Arrive(h) PROVE FALSE
    OBVIOUS
  <2>1. h.at = "answered" /\ ~h.stale /\ list' = Normalize(h.list) /\ UNCHANGED <<handles, disk, calls>>
    BY DEF Arrive, backend
  <2>2. Kept(i)
    BY <2>1 DEF Kept, Live, SavesPending
  <2>3. Holds(h.list, i)
    BY <2>1, <2>2 DEF Answered
  <2>4. ToSet(list') = ToSet(h.list)
    BY <2>1, NormalizeList DEF SidebarTypes, HydrateOk
  <2> QED
    BY <2>3, <2>4 DEF Holds
<1>2. AllListed /\ ~Reload
  BY <1>1, StaysHydrated
<1>3. CASE i \notin DOMAIN handles
  <2>1. PICK c \in calls : CreateSession(c) /\ i = Len(handles) + 1
    BY <1>3, KeptIs, KeptOrigin
  <2>2. c.to = "create"
    BY <2>1 DEF CreateSession, Arrived
  <2>3. PICK j \in DOMAIN handles' :
             /\ calls' = (calls \ {c}) \cup {[c EXCEPT !.at = "applied", !.id = j]}
             /\ j = Len(handles) + 1
    BY <2>1, <2>2, AppliedIs
  <2> DEFINE d == [c EXCEPT !.at = "applied", !.id = j]
  <2>4. d.to = "create" /\ d.id = i
    BY <2>1, <2>2, <2>3, CallKinds DEF CallType
  <2> QED
    BY <2>3, <2>4
<1>4. CASE i \in DOMAIN handles
  <2>1. Kept(i)
    BY <1>4, KeptBefore
  <2>2. ~Holds(list, i)
    BY <1>1, <1>2, <2>1, HeldStays
  <2>3. PICK c \in calls \cup replies : c.to = "create" /\ c.id = i
    BY <1>2, <2>1, <2>2 DEF AllListed
  <2>4. CASE c \in replies
    <3>1. CASE \E d \in replies : Receive(d)
      <4> PICK d \in replies : Receive(d)
        BY <3>1
      <4>1. replies' = replies \ {d}
        BY DEF Receive
      <4>2. c # d
        <5> SUFFICES ASSUME Receive(c) PROVE FALSE
          OBVIOUS
        <5>1. CreateReply(c)
          BY <2>3 DEF Receive, RegisterReply, StopReply
        <5> DEFINE n == [id |-> c.id, pinned |-> FALSE, order |-> NoOrder]
        <5>2. ToSet(list') = {e \in ToSet(list) : e.id # c.id} \cup {n}
          BY <1>0, <2>4, <5>1, CreateReplyIs
        <5>3. n.id = c.id
          OBVIOUS
        <5> HIDE DEF n
        <5> QED
          BY <2>3, <5>2, <5>3 DEF Holds
      <4> QED
        BY <2>3, <2>4, <4>1, <4>2
    <3> QED
      BY <1>2, <2>3, <2>4, <3>1, RepliesChange DEF Register, SaveAgents
  <2>5. CASE c \in calls
    <3>1. c.at # "sent" /\ c.heard
      BY <1>0, <1>1, <1>4, <2>3, <2>5, StaysHydrated DEF CallOk, AllHeard, Saving
    <3>2. CASE UNCHANGED calls \/ UserSteps
      BY <2>3, <2>5, <3>2, UserCalls DEF Send
    <3>3. CASE \E d \in calls : Register(d) \/ RemoveWorkspace(d) \/ Configure(d) \/ Lost(d)
      BY <2>3, <2>5, <3>1, <3>3 DEF Register, RemoveWorkspace, Configure, Lost, Arrived
    <3>4. CASE \E d \in calls : SaveAgents(d)
      <4> PICK d \in calls : SaveAgents(d)
        BY <3>4
      <4>1. CASE c = d
        <5>1. replies' = replies \cup Reply(c)
          BY <2>3, <4>1 DEF SaveAgents
        <5>2. PICK r : r \in Reply(c)
          BY <3>1 DEF Reply
        <5>3. r.to = c.to /\ r.id = c.id
          BY <1>0, <2>3, <2>5, <3>1, <5>2, ReplyIs
        <5> QED
          BY <2>3, <5>1, <5>2, <5>3
      <4>2. CASE c # d
        BY <2>3, <2>5, <4>2 DEF SaveAgents
      <4> QED
        BY <4>1, <4>2
    <3>5. CASE \E d \in calls : CreateSession(d) \/ StopSession(d) \/ PinSession(d) \/ PlaceSession(d)
      <4> PICK d \in calls : CreateSession(d) \/ StopSession(d) \/ PinSession(d) \/ PlaceSession(d)
        BY <3>5
      <4>1. d.at = "sent" /\ calls \ {d} \subseteq calls'
        BY AppliedIs
      <4> QED
        BY <2>3, <2>5, <3>1, <4>1
    <3>6. CASE \E d \in calls : Collect(d)
      <4> PICK d \in calls : Collect(d)
        BY <3>6
      <4> DEFINE x == [d EXCEPT !.at = "collected", !.snap = Snapshot(d)]
      <4>1. calls' = (calls \ {d}) \cup {x}
        BY DEF Collect
      <4>2. x.to = d.to /\ x.id = d.id
        BY CallKinds DEF CallType
      <4> HIDE DEF x
      <4> QED
        BY <2>3, <2>5, <4>1, <4>2
    <3> QED
      BY <1>2, <3>2, <3>3, <3>4, <3>5, <3>6, CallsChange
  <2> QED
    BY <2>3, <2>4, <2>5
<1> QED
  BY <1>3, <1>4

\* What the roots S and the workspaces T say of p while the requests cs are under way.
PendingAgrees(p, S, T, cs) ==
  /\ (\A c \in cs : c.path # p) => RootAgrees(p, S, T)
  /\ \A c \in cs : c.path = p =>
       /\ c.to = "register" => \E e \in S : /\ e.path = p
                                            /\ IF \E f \in T : f.path = p THEN \E f \in T : f.path = p /\ f.pinned = e.pinned
                                               ELSE ~e.pinned
       /\ c.to = "remove" => \A e \in S : e.path # p
       /\ c.to = "pinroot" => \E e \in S : e.path = p /\ e.pinned = c.pinned
RootsAgree == \A p \in Paths : PendingAgrees(p, ToSet(roots), ToSet(registry), calls)

LEMMA PendingFrame ==
  ASSUME NEW p, NEW S, NEW T, NEW cs, NEW S2, NEW T2, NEW cs2, PendingAgrees(p, S, T, cs),
         \A e : e.path = p => (e \in S <=> e \in S2),
         \A f : f.path = p => (f \in T <=> f \in T2),
         \A c : c.path = p => (c \in cs <=> c \in cs2)
  PROVE  PendingAgrees(p, S2, T2, cs2)
<1>1. /\ (\A c \in cs2 : c.path # p) => \A c \in cs : c.path # p
      /\ RootAgrees(p, S, T) => RootAgrees(p, S2, T2)
  BY DEF RootAgrees
<1>2. ASSUME NEW c \in cs2, c.path = p, c.to = "register"
      PROVE  \E e \in S2 : /\ e.path = p
                           /\ IF \E f \in T2 : f.path = p THEN \E f \in T2 : f.path = p /\ f.pinned = e.pinned
                              ELSE ~e.pinned
  <2>1. PICK e \in S : /\ e.path = p
                       /\ IF \E f \in T : f.path = p THEN \E f \in T : f.path = p /\ f.pinned = e.pinned
                          ELSE ~e.pinned
    BY <1>2 DEF PendingAgrees
  <2> QED
    BY <2>1
<1>3. ASSUME NEW c \in cs2, c.path = p
      PROVE  /\ c.to = "remove" => \A e \in S2 : e.path # p
             /\ c.to = "pinroot" => \E e \in S2 : e.path = p /\ e.pinned = c.pinned
  BY <1>3 DEF PendingAgrees
<1> QED
  BY <1>1, <1>2, <1>3 DEF PendingAgrees

LEMMA RootRequests ==
  ASSUME NEW to, NEW p, NEW b
  PROVE  /\ OnRoot(to, p).to = to /\ OnRoot(to, p).path = p /\ OnRoot(to, p).id = 0
         /\ LET c == [OnRoot(to, p) EXCEPT !.pinned = b]
            IN  c.to = to /\ c.path = p /\ c.id = 0 /\ c.pinned = b
BY DEF OnRoot, Call

\* A gesture that is not overtaken is the only request about its workspace.
LEMMA OnlyRequest ==
  ASSUME SidebarTypes, NEW x, x.path \in Paths, x.id = 0, Send({x}), ~overtaken'
  PROVE  /\ \A c \in calls' : c.path = x.path <=> c = x
         /\ \A c : c # x => (c \in calls <=> c \in calls')
<1>1. calls' = calls \cup {x} /\ \A d \in calls : Same(x, d) => x = d
  BY DEF Send
<1>2. \A d \in calls : d.path \in Paths => d.id = 0
  BY SidebarAssumption DEF SidebarTypes, CallOk, CallType
<1> QED
  BY <1>1, <1>2 DEF Same

LEMMA AddRootAgrees ==
  ASSUME SidebarTypes, RootsAgree, NEW p \in Paths, AddRoot(p), ~overtaken', NEW q \in Paths
  PROVE  PendingAgrees(q, ToSet(roots'), ToSet(registry'), calls')
<1> DEFINE x == OnRoot("register", p)
           n == [path |-> p, pinned |-> FALSE, known |-> FALSE]
           S == ToSet(roots)
           T == ToSet(registry)
<1>1. x.to = "register" /\ x.path = p /\ x.id = 0
  BY RootRequests
<1>2. Send({x}) /\ registry' = registry
  BY DEF AddRoot, Gesture, backend
<1>3. ToSet(roots') = S \cup (IF HasRoot(p) THEN {} ELSE {n})
  BY AddRootIs DEF SidebarTypes
<1>4. HasRoot(p) <=> \E e \in S : e.path = p
  BY DEF HasRoot, ToSet
<1>5. n.path = p /\ n.pinned = FALSE
  OBVIOUS
<1>6. PendingAgrees(q, S, T, calls) /\ PendingAgrees(p, S, T, calls)
  BY DEF RootsAgree
<1> HIDE DEF x, n, S
<1>7. /\ \A c \in calls' : c.path = p <=> c = x
      /\ \A c : c # x => (c \in calls <=> c \in calls')
  BY <1>1, <1>2, OnlyRequest
<1>8. CASE q # p
  BY <1>1, <1>2, <1>3, <1>5, <1>6, <1>7, <1>8, PendingFrame
<1>9. CASE q = p
  <2> SUFFICES \E e \in ToSet(roots') : /\ e.path = p
                                        /\ IF \E f \in T : f.path = p THEN \E f \in T : f.path = p /\ f.pinned = e.pinned
                                           ELSE ~e.pinned
    <3>1. x \in calls'
      BY <1>2 DEF Send
    <3> HIDE DEF T
    <3> QED
      BY <1>1, <1>2, <1>7, <1>9, <3>1 DEF PendingAgrees, T
  <2> HIDE DEF T
  <2>1. CASE x \in calls
    BY <1>1, <1>3, <1>4, <1>6, <2>1 DEF PendingAgrees
  <2>2. CASE x \notin calls
    <3>1. \A c \in calls : c.path # p
      BY <1>7, <2>2
    <3>2. RootAgrees(p, S, T)
      BY <1>6, <3>1 DEF PendingAgrees
    <3> QED
      BY <1>3, <1>4, <1>5, <3>2 DEF RootAgrees
  <2> QED
    BY <2>1, <2>2
<1> QED
  BY <1>8, <1>9

LEMMA RemoveRootAgrees ==
  ASSUME SidebarTypes, RootsAgree, NEW p \in Paths, RemoveRoot(p), ~overtaken', NEW q \in Paths
  PROVE  PendingAgrees(q, ToSet(roots'), ToSet(registry'), calls')
<1> DEFINE x == OnRoot("remove", p)
           S == ToSet(roots)
           T == ToSet(registry)
<1>1. x.to = "remove" /\ x.path = p /\ x.id = 0
  BY RootRequests
<1>2. Send({x}) /\ registry' = registry
  BY DEF RemoveRoot, Gesture, backend
<1>3. ToSet(roots') = {e \in S : e.path # p}
  BY RemoveRootIs DEF SidebarTypes
<1>4. PendingAgrees(q, S, T, calls)
  BY DEF RootsAgree
<1>5. x \in calls'
  BY <1>2 DEF Send
<1> HIDE DEF x, S, T
<1>6. /\ \A c \in calls' : c.path = p <=> c = x
      /\ \A c : c # x => (c \in calls <=> c \in calls')
  BY <1>1, <1>2, OnlyRequest
<1>7. CASE q # p
  BY <1>1, <1>2, <1>3, <1>4, <1>6, <1>7, PendingFrame DEF T
<1>8. CASE q = p
  BY <1>1, <1>3, <1>5, <1>6, <1>8 DEF PendingAgrees
<1> QED
  BY <1>7, <1>8

LEMMA PinRootAgrees ==
  ASSUME SidebarTypes, RootsAgree, NEW p \in Paths, PinRoot(p), ~overtaken', NEW q \in Paths
  PROVE  PendingAgrees(q, ToSet(roots'), ToSet(registry'), calls')
<1>1. PICK e \in ToSet(roots) :
              /\ e.path = p
              /\ ToSet(roots') = {f \in ToSet(roots) : f.path # p} \cup {[e EXCEPT !.pinned = ~@]}
              /\ Send({[OnRoot("pinroot", p) EXCEPT !.pinned = ~e.pinned]})
  BY PinRootIs DEF SidebarTypes
<1> DEFINE x == [OnRoot("pinroot", p) EXCEPT !.pinned = ~e.pinned]
           n == [e EXCEPT !.pinned = ~@]
           S == ToSet(roots)
           T == ToSet(registry)
<1>2. x.to = "pinroot" /\ x.path = p /\ x.id = 0 /\ x.pinned = ~e.pinned
  BY RootRequests
<1>3. n.path = p /\ n.pinned = ~e.pinned
  <2>1. e \in Root
    BY PathItems DEF SidebarTypes, RootsOk
  <2> QED
    BY <1>1, <2>1 DEF Root
<1>4. Send({x}) /\ registry' = registry /\ ToSet(roots') = {f \in S : f.path # p} \cup {n}
  BY <1>1 DEF PinRoot, Gesture, backend
<1>5. PendingAgrees(q, S, T, calls)
  BY DEF RootsAgree
<1>6. x \in calls'
  BY <1>4 DEF Send
<1> HIDE DEF x, n, S, T
<1>7. /\ \A c \in calls' : c.path = p <=> c = x
      /\ \A c : c # x => (c \in calls <=> c \in calls')
  BY <1>2, <1>4, OnlyRequest
<1>8. CASE q # p
  BY <1>2, <1>3, <1>4, <1>5, <1>7, <1>8, PendingFrame DEF T
<1>9. CASE q = p
  <2>1. n \in ToSet(roots') /\ n.path = p /\ n.pinned = x.pinned
    BY <1>2, <1>3, <1>4
  <2> QED
    BY <1>2, <1>6, <1>7, <1>9, <2>1 DEF PendingAgrees
<1> QED
  BY <1>8, <1>9

\* A request about a workspace that is handled was the only one about it.
LEMMA HandledRequest ==
  ASSUME SidebarTypes, AloneCalls, NEW c \in calls, c.to \in OfRoots, calls' = calls \ {c}
  PROVE  /\ c.path \in Paths
         /\ \A d \in calls : d.path = c.path <=> d = c
         /\ \A d \in calls' : d.path # c.path
         /\ \A d : d.path # c.path => (d \in calls <=> d \in calls')
<1>0. \A d \in calls : CallOk(d, handles)
  BY DEF SidebarTypes
<1>1. c.path \in Paths /\ c.path # NoPath
  BY <1>0, SidebarAssumption DEF CallOk
<1>2. \A d \in calls : d.path = c.path => d.to \in OfRoots
  BY <1>0, <1>1 DEF CallOk, CallType
<1>3. \A d \in calls : d.path = c.path <=> d = c
  BY <1>0, <1>2, SameFacts
<1> QED
  BY <1>1, <1>3

LEMMA RegisterAgrees ==
  ASSUME SidebarTypes, AloneCalls, RootsAgree, NEW c \in calls, Register(c), NEW q \in Paths
  PROVE  PendingAgrees(q, ToSet(roots), ToSet(registry'), calls')
<1> DEFINE S == ToSet(roots)
           T == ToSet(registry)
           n == [path |-> c.path, pinned |-> FALSE]
<1>0. c.to = "register" /\ c.to \in OfRoots /\ calls' = calls \ {c}
  BY DEF Register, Arrived, OfRoots
<1>1. /\ c.path \in Paths
      /\ \A d \in calls : d.path = c.path <=> d = c
      /\ \A d \in calls' : d.path # c.path
      /\ \A d : d.path # c.path => (d \in calls <=> d \in calls')
  BY <1>0, HandledRequest
<1>2. ToSet(registry') = T \cup (IF \E e \in T : e.path = c.path THEN {} ELSE {n})
  BY <1>1, EnrolledIs DEF Register, SidebarTypes
<1>3. n.path = c.path /\ n.pinned = FALSE
  OBVIOUS
<1>4. PendingAgrees(q, S, T, calls)
  BY DEF RootsAgree
<1> HIDE DEF S, T, n
<1>5. CASE q # c.path
  BY <1>1, <1>2, <1>3, <1>4, <1>5, PendingFrame DEF S
<1>6. CASE q = c.path
  <2>1. PICK e \in S : /\ e.path = q
                       /\ IF \E f \in T : f.path = q THEN \E f \in T : f.path = q /\ f.pinned = e.pinned
                          ELSE ~e.pinned
    BY <1>0, <1>4, <1>6 DEF PendingAgrees
  <2>2. e.pinned \in BOOLEAN
    <3>1. e \in Root
      BY <2>1, PathItems DEF SidebarTypes, RootsOk, S
    <3> QED
      BY <3>1 DEF Root
  <2>3. \E f \in ToSet(registry') : f.path = q /\ f.pinned = e.pinned
    BY <1>2, <1>3, <1>6, <2>1, <2>2
  <2>4. RootAgrees(q, S, ToSet(registry'))
    BY <2>1, <2>3 DEF RootAgrees
  <2> QED
    BY <1>1, <1>6, <2>4 DEF PendingAgrees, S
<1> QED
  BY <1>5, <1>6

LEMMA RemoveWorkspaceAgrees ==
  ASSUME SidebarTypes, AloneCalls, RootsAgree, NEW c \in calls, RemoveWorkspace(c), NEW q \in Paths
  PROVE  PendingAgrees(q, ToSet(roots), ToSet(registry'), calls')
<1> DEFINE S == ToSet(roots)
           T == ToSet(registry)
<1>0. c.to = "remove" /\ c.to \in OfRoots /\ calls' = calls \ {c}
  BY DEF RemoveWorkspace, Arrived, OfRoots
<1>1. /\ c.path \in Paths
      /\ \A d \in calls : d.path = c.path <=> d = c
      /\ \A d \in calls' : d.path # c.path
      /\ \A d : d.path # c.path => (d \in calls <=> d \in calls')
  BY <1>0, HandledRequest
<1>2. ToSet(registry') = {e \in T : e.path # c.path}
  BY ApartItems DEF RemoveWorkspace, SidebarTypes, RegistryOk
<1>3. PendingAgrees(q, S, T, calls)
  BY DEF RootsAgree
<1> HIDE DEF S, T
<1>4. CASE q # c.path
  BY <1>1, <1>2, <1>3, <1>4, PendingFrame DEF S
<1>5. CASE q = c.path
  <2>1. \A e \in S : e.path # q
    BY <1>0, <1>3, <1>5 DEF PendingAgrees
  <2>2. RootAgrees(q, S, ToSet(registry'))
    BY <1>2, <1>5, <2>1 DEF RootAgrees
  <2> QED
    BY <1>1, <1>5, <2>2 DEF PendingAgrees, S
<1> QED
  BY <1>4, <1>5

LEMMA ConfigureAgrees ==
  ASSUME SidebarTypes, AloneCalls, RootsAgree, NEW c \in calls, Configure(c), ~overtaken', NEW q \in Paths
  PROVE  PendingAgrees(q, ToSet(roots), ToSet(registry'), calls')
<1> DEFINE S == ToSet(roots)
           T == ToSet(registry)
           set(e) == IF e.path = c.path THEN [e EXCEPT !.pinned = c.pinned] ELSE e
<1>0. c.to = "pinroot" /\ c.to \in OfRoots /\ calls' = calls \ {c} /\ Registered(c.path) /\ c.pinned \in BOOLEAN
  BY DEF Configure, Arrived, OfRoots, SidebarTypes, CallOk, CallType
<1>1. /\ c.path \in Paths
      /\ \A d \in calls : d.path = c.path <=> d = c
      /\ \A d \in calls' : d.path # c.path
      /\ \A d : d.path # c.path => (d \in calls <=> d \in calls')
  BY <1>0, HandledRequest
<1>2. ToSet(registry') = {set(e) : e \in T}
  BY <1>0, ConfigureIs DEF SidebarTypes
<1>3. \A e \in T : set(e).path = e.path /\ (e.path = c.path => set(e).pinned = c.pinned) /\ (e.path # c.path => set(e) = e)
  <2>1. \A e \in T : e \in Workspace
    BY PathItems DEF SidebarTypes, RegistryOk
  <2> QED
    BY <2>1 DEF Workspace
<1>4. PendingAgrees(q, S, T, calls)
  BY DEF RootsAgree
<1>5. PICK w \in T : w.path = c.path
  BY <1>0 DEF Registered, ToSet
<1> HIDE DEF S, T, set
<1>6. CASE q # c.path
  <2>1. \A f : f.path = q => (f \in T <=> f \in ToSet(registry'))
    BY <1>2, <1>3, <1>6
  <2> QED
    BY <1>1, <1>4, <1>6, <2>1, PendingFrame DEF S
<1>7. CASE q = c.path
  <2>1. PICK e \in S : e.path = q /\ e.pinned = c.pinned
    BY <1>0, <1>4, <1>7 DEF PendingAgrees
  <2>2. set(w) \in ToSet(registry') /\ set(w).path = q /\ set(w).pinned = c.pinned
    BY <1>2, <1>3, <1>5, <1>7
  <2>3. RootAgrees(q, S, ToSet(registry'))
    BY <2>1, <2>2 DEF RootAgrees
  <2> QED
    BY <1>1, <1>7, <2>3 DEF PendingAgrees, S
<1> QED
  BY <1>6, <1>7

\* The steps that neither change a workspace nor ask for a change of one.
LEMMA AgentRequests ==
  ASSUME SidebarTypes, UserSteps, ~\E p \in Paths : AddRoot(p) \/ RemoveRoot(p) \/ PinRoot(p)
  PROVE  \A c : c.path # NoPath => (c \in calls <=> c \in calls')
<1>0. HandlesOk(handles) /\ ListOk(list, handles)
  BY DEF SidebarTypes
<1>1. \A to, i : OnAgent(to, i).path = NoPath
  BY DEF OnAgent, Call
<1>2. CASE StartAgent
  BY <1>2 DEF StartAgent, Send, Call
<1>3. CASE \E i \in 1..MaxSessions : StopAgent(i) \/ AgentGone(i)
  BY <1>1, <1>3 DEF StopAgent, AgentGone, Send
<1>4. CASE \E i \in 1..MaxSessions : Pin(i)
  <2> PICK i \in 1..MaxSessions : Pin(i)
    BY <1>4
  <2> DEFINE x(b) == [OnAgent("pin", i) EXCEPT !.pinned = b]
  <2>1. PICK e \in ToSet(list) : Send({x(~e.pinned)})
    BY <1>0, PinIs
  <2>2. x(~e.pinned).path = NoPath
    BY PinCall
  <2>3. calls' = calls \cup {x(~e.pinned)}
    BY <2>1 DEF Send
  <2> HIDE DEF x
  <2> QED
    BY <2>2, <2>3
<1>5. CASE \E i, j \in 1..MaxSessions : Drag(i, j)
  <2> PICK i \in 1..MaxSessions, j \in 1..MaxSessions : Drag(i, j)
    BY <1>5
  <2>1. Send(Placed(list'))
    BY <1>0, DragIs
  <2>2. ASSUME NEW c \in Placed(list') PROVE c.path = NoPath
    <3>1. PICK e \in ToSet(list') : c = [OnAgent("place", e.id) EXCEPT !.order = e.order]
      BY PlacedIs
    <3> QED
      BY <3>1, PlacedCall
  <2> QED
    BY <2>1, <2>2 DEF Send
<1> QED
  BY <1>2, <1>3, <1>4, <1>5 DEF UserSteps

LEMMA RootsAgreeStep ==
  ASSUME SidebarTypes, AloneCalls, Calm, Answered,
         hydrated => RootsAgree, SidebarNext, ~overtaken', hydrated'
  PROVE  RootsAgree'
<1> SUFFICES ASSUME NEW q \in Paths PROVE PendingAgrees(q, ToSet(roots'), ToSet(registry'), calls')
  BY DEF RootsAgree
<1>0. q # NoPath /\ \A d \in calls : CallOk(d, handles)
  BY SidebarAssumption DEF SidebarTypes
<1>1. CASE \E h \in hydrates : Arrive(h)
  <2> PICK h \in hydrates : Arrive(h)
    BY <1>1
  <2>1. h.at = "answered" /\ ~h.stale /\ roots' = Normalize(h.roots) /\ calls' = calls /\ registry' = registry
    BY DEF Arrive, backend, SetRoots
  <2>2. calls = {} /\ ToSet(roots') = ToSet(h.roots)
    <3>1. h.roots \in Seq(Root)
      BY <2>1 DEF SidebarTypes, HydrateOk
    <3> QED
      BY <2>1, <3>1, NormalizeItems DEF Calm
  <2>3. RootAgrees(q, ToSet(h.roots), ToSet(registry))
    BY <2>1 DEF Answered
  <2> QED
    BY <2>1, <2>2, <2>3 DEF PendingAgrees
<1>2. CASE ~\E h \in hydrates : Arrive(h)
  <2>1. RootsAgree /\ ~Reload
    BY <1>2, StaysHydrated
  <2>2. PendingAgrees(q, ToSet(roots), ToSet(registry), calls)
    BY <2>1 DEF RootsAgree
  <2>3. CASE \E p \in Paths : AddRoot(p) \/ RemoveRoot(p) \/ PinRoot(p)
    BY <2>1, <2>3, AddRootAgrees, RemoveRootAgrees, PinRootAgrees
  <2>4. CASE ~\E p \in Paths : AddRoot(p) \/ RemoveRoot(p) \/ PinRoot(p)
    <3>1. ToSet(roots') = ToSet(roots)
      <4>1. CASE \E p, r \in Paths : DragRoot(p, r)
        BY <4>1, DragRootIs DEF SidebarTypes
      <4>2. CASE UNCHANGED <<roots, stored>>
        BY <4>2
      <4> QED
        BY <1>2, <2>1, <2>4, <4>1, <4>2, RootsChange
    <3>2. ASSUME registry' = registry, \A c : c.path = q => (c \in calls <=> c \in calls')
          PROVE  PendingAgrees(q, ToSet(roots'), ToSet(registry'), calls')
      BY <2>2, <3>1, <3>2, PendingFrame
    <3>3. CASE \E c \in calls : Register(c)
      <4>1. PendingAgrees(q, ToSet(roots), ToSet(registry'), calls')
        BY <2>1, <3>3, RegisterAgrees
      <4> QED
        BY <3>1, <4>1
    <3>4. CASE \E c \in calls : RemoveWorkspace(c)
      <4>1. PendingAgrees(q, ToSet(roots), ToSet(registry'), calls')
        BY <2>1, <3>4, RemoveWorkspaceAgrees
      <4> QED
        BY <3>1, <4>1
    <3>5. CASE \E c \in calls : Configure(c)
      <4>1. PendingAgrees(q, ToSet(roots), ToSet(registry'), calls')
        BY <2>1, <3>5, ConfigureAgrees
      <4> QED
        BY <3>1, <4>1
    <3>6. CASE \E c \in calls : Lost(c)
      BY <3>6 DEF Lost
    <3>7. CASE \E c \in calls : SaveAgents(c)
      <4> PICK c \in calls : SaveAgents(c)
        BY <3>7
      <4>1. registry' = registry
        BY DEF SaveAgents, Renewed, Registered, Enrolled
      <4>2. calls' = calls \ {c} /\ c.at = "collected"
        BY DEF SaveAgents
      <4>3. c.path = NoPath
        BY <1>0, <4>2, CallKinds DEF CallOk
      <4> QED
        BY <1>0, <3>2, <4>1, <4>2, <4>3
    <3>8. CASE registry' = registry /\ ~\E c \in calls : Lost(c) \/ SaveAgents(c) \/ Register(c) \/ RemoveWorkspace(c) \/ Configure(c)
      <4>1. CASE UNCHANGED calls
        BY <3>2, <3>8, <4>1
      <4>2. CASE UserSteps
        BY <1>0, <2>4, <3>2, <3>8, <4>2, AgentRequests
      <4>3. CASE \E c \in calls : CreateSession(c) \/ StopSession(c) \/ PinSession(c) \/ PlaceSession(c)
        <5> PICK c \in calls : CreateSession(c) \/ StopSession(c) \/ PinSession(c) \/ PlaceSession(c)
          BY <4>3
        <5>1. PICK i \in DOMAIN handles' : calls' = (calls \ {c}) \cup {[c EXCEPT !.at = "applied", !.id = i]}
          BY AppliedIs
        <5>2. c.path = NoPath
          BY <1>0, AppliedIs DEF CallOk
        <5> DEFINE d == [c EXCEPT !.at = "applied", !.id = i]
        <5>3. d.path = c.path
          BY CallKinds DEF CallType
        <5> HIDE DEF d
        <5>4. calls' = (calls \ {c}) \cup {d}
          BY <5>1 DEF d
        <5> QED
          BY <1>0, <3>2, <3>8, <5>2, <5>3, <5>4
      <4>4. CASE \E c \in calls : Collect(c)
        <5> PICK c \in calls : Collect(c)
          BY <4>4
        <5> DEFINE d == [c EXCEPT !.at = "collected", !.snap = Snapshot(c)]
        <5>1. calls' = (calls \ {c}) \cup {d} /\ c.at = "applied"
          BY DEF Collect
        <5>2. c.path = NoPath
          BY <1>0, <5>1, CallKinds DEF CallOk
        <5>3. d.path = c.path
          BY CallKinds DEF CallType
        <5> HIDE DEF d
        <5> QED
          BY <1>0, <3>2, <3>8, <5>1, <5>2, <5>3
      <4> QED
        BY <2>1, <3>8, <4>1, <4>2, <4>3, <4>4, CallsChange
    <3> QED
      BY <3>3, <3>4, <3>5, <3>6, <3>7, <3>8, RegistryChange
  <2> QED
    BY <2>3, <2>4
<1> QED
  BY <1>1, <1>2

\* Roots and workspaces that agree on every path.
LEMMA RootsShown ==
  ASSUME NEW r, RootsOk(r), NEW g, RegistryOk(g), \A p \in Paths : RootAgrees(p, ToSet(r), ToSet(g))
  PROVE  {[path |-> r[k].path, pinned |-> r[k].pinned] : k \in DOMAIN r} \in {ToSet(g), ToSet(Enrolled(g, Home))}
<1> DEFINE w(e) == [path |-> e.path, pinned |-> e.pinned]
           S == ToSet(r)
           T == ToSet(g)
           h == [path |-> Home, pinned |-> FALSE]
           R == {w(e) : e \in S}
<1>1. {[path |-> r[k].path, pinned |-> r[k].pinned] : k \in DOMAIN r} = R
  BY DEF ToSet
<1>2. /\ \A e \in S : e.path \in Paths /\ e.pinned \in BOOLEAN
      /\ \A e, f \in S : e.path = f.path => e = f
  <2>1. \A e \in S : e \in Root
    BY PathItems DEF RootsOk
  <2>2. \A e, f \in S : e.path = f.path => e = f
    BY PathItems DEF RootsOk
  <2> QED
    BY <2>1, <2>2 DEF Root
<1>3. /\ \A f \in T : f.path \in Paths /\ f.pinned \in BOOLEAN /\ f = w(f)
      /\ \A e, f \in T : e.path = f.path => e = f
  <2>1. \A e \in T : e \in Workspace
    BY PathItems DEF RegistryOk
  <2>2. \A e, f \in T : e.path = f.path => e = f
    BY PathItems DEF RegistryOk
  <2> QED
    BY <2>1, <2>2 DEF Workspace
<1>4. \A e, f : e.path = f.path /\ e.pinned = f.pinned => w(e) = w(f)
  OBVIOUS
<1>5. h.path = Home /\ h.pinned = FALSE /\ w(h) = h
  OBVIOUS
<1>6. ToSet(Enrolled(g, Home)) = T \cup (IF \E e \in T : e.path = Home THEN {} ELSE {h})
  BY EnrolledIs, SidebarAssumption
<1>7. \A p \in Paths : RootAgrees(p, S, T)
  OBVIOUS
<1> HIDE DEF w, S, T, h
<1>8. T \subseteq R
  <2> SUFFICES ASSUME NEW f \in T PROVE \E e \in S : f = w(e)
    OBVIOUS
  <2>1. PICK e \in S, f2 \in T : e.path = f.path /\ f2.path = f.path /\ e.pinned = f2.pinned
    BY <1>3, <1>7 DEF RootAgrees
  <2>2. f2 = f
    BY <1>3, <2>1
  <2> QED
    BY <1>3, <1>4, <2>1, <2>2
<1>9. ASSUME NEW e \in S
      PROVE  w(e) \in T \/ (w(e) = h /\ \A f \in T : f.path # Home)
  <2>1. RootAgrees(e.path, S, T)
    BY <1>2, <1>7
  <2>2. CASE \E e2 \in S, f \in T : e2.path = e.path /\ f.path = e.path /\ e2.pinned = f.pinned
    <3>1. PICK e2 \in S, f \in T : e2.path = e.path /\ f.path = e.path /\ e2.pinned = f.pinned
      BY <2>2
    <3>2. e2 = e
      BY <1>2, <3>1
    <3>3. w(e) = w(f)
      BY <1>4, <3>1, <3>2
    <3> QED
      BY <1>3, <3>1, <3>3
  <2>3. CASE e.path = Home /\ (\E e2 \in S : e2.path = e.path /\ ~e2.pinned) /\ (\A f \in T : f.path # e.path)
    <3>1. ~e.pinned /\ e.pinned = h.pinned /\ e.path = h.path
      BY <1>2, <1>5, <2>3
    <3> QED
      BY <1>4, <1>5, <2>3, <3>1
  <2> QED
    BY <2>1, <2>2, <2>3 DEF RootAgrees
<1>10. CASE R \subseteq T
  BY <1>1, <1>8, <1>10 DEF T
<1>11. CASE ~(R \subseteq T)
  <2>1. /\ \A f \in T : f.path # Home
        /\ h \in R
    <3>1. PICK e \in S : w(e) \notin T
      BY <1>11
    <3> QED
      BY <1>9, <3>1
  <2>2. R = T \cup {h}
    <3>1. \A e \in S : w(e) \in T \cup {h}
      BY <1>9
    <3> QED
      BY <1>8, <2>1, <3>1
  <2> QED
    BY <1>1, <1>6, <2>1, <2>2
<1> QED
  BY <1>10, <1>11

\* What the browser and the daemon agree on as long as nothing was lost or overtaken.
Agreement ==
  ~overtaken =>
    /\ AloneCalls /\ StopsHold
    /\ DiskIsCurrent /\ OrdersKept
    /\ Calm /\ TakenUp /\ Answered /\ AllHeard
    /\ UntouchedCalls /\ UntouchedReplies
    /\ hydrated => ListAgrees /\ AllListed /\ RootsAgree

LEMMA AgreementInit ==
  ASSUME SidebarInit
  PROVE  Agreement
<1>1. calls = {} /\ replies = {} /\ hydrated = FALSE /\ \A h \in hydrates : h.at = "asked"
  BY DEF SidebarInit, Asked
<1>2. PICK n \in DOMAIN Gestures :
        /\ handles = [i \in 1..n |-> [live |-> TRUE, pinned |-> FALSE, order |-> NoOrder]]
        /\ disk = [i \in 1..n |-> [pinned |-> FALSE, order |-> NoOrder]]
  BY DEF SidebarInit
<1>3. Matches(disk, handles) /\ Ordered(disk, handles)
  BY <1>2 DEF Matches, Ordered
<1>4. AloneCalls /\ StopsHold /\ UntouchedCalls /\ UntouchedReplies
  BY <1>1 DEF AloneCalls, StopsHold, UntouchedCalls, UntouchedReplies
<1>5. Calm /\ TakenUp /\ AllHeard /\ Answered
  BY <1>1 DEF Calm, TakenUp, AllHeard, Answered
<1> QED
  BY <1>1, <1>3, <1>4, <1>5 DEF Agreement, DiskIsCurrent, OrdersKept

LEMMA AgreementStep ==
  ASSUME SidebarTypes, Agreement, SidebarNext
  PROVE  Agreement'
<1> SUFFICES ASSUME ~overtaken'
             PROVE  /\ AloneCalls' /\ StopsHold'
                    /\ DiskIsCurrent' /\ OrdersKept'
                    /\ Calm' /\ TakenUp' /\ Answered' /\ AllHeard'
                    /\ UntouchedCalls' /\ UntouchedReplies'
                    /\ hydrated' => ListAgrees' /\ AllListed' /\ RootsAgree'
  BY DEF Agreement
<1>1. ~overtaken
  BY OvertakenStays
<1>2. /\ AloneCalls /\ StopsHold
      /\ DiskIsCurrent /\ OrdersKept
      /\ Calm /\ TakenUp /\ Answered /\ AllHeard
      /\ UntouchedCalls /\ UntouchedReplies
      /\ hydrated => ListAgrees /\ AllListed /\ RootsAgree
  BY <1>1 DEF Agreement
<1>3. AloneCalls' /\ StopsHold'
  BY <1>2, AloneCallsStep, StopsHoldStep
<1>4. DiskIsCurrent' /\ OrdersKept'
  BY <1>2, DiskIsCurrentStep, OrdersKeptStep
<1>5. Calm' /\ TakenUp' /\ Answered' /\ AllHeard'
  BY <1>2, CalmStep, UpToDateStep, AnsweredStep, AllHeardStep
<1>6. UntouchedCalls' /\ UntouchedReplies'
  BY <1>2, UntouchedCallsStep, UntouchedRepliesStep
<1>7. hydrated' => ListAgrees' /\ AllListed' /\ RootsAgree'
  BY <1>2, ListAgreesStep, AllListedStep, RootsAgreeStep
<1> QED
  BY <1>3, <1>4, <1>5, <1>6, <1>7

LEMMA AgreementSame ==
  ASSUME SidebarTypes, Agreement
  PROVE  QuietMeansSame
<1> DEFINE now == Picked(list, {k \in DOMAIN list : list[k].id \in Live})
           then == [k \in DOMAIN now |-> Bootstrapped(now[k].id)]
<1> SUFFICES ASSUME Settled, hydrated, ~overtaken
             PROVE  /\ {[path |-> roots[k].path, pinned |-> roots[k].pinned] : k \in DOMAIN roots} \in {ToSet(registry), ToSet(Enrolled(registry, Home))}
                    /\ Known(Home) => Live \subseteq ToSet(Ids(list))
                    /\ Display(now) = Display(then)
  BY DEF QuietMeansSame
<1>1. calls = {} /\ replies = {}
  BY DEF Settled
<1>2. DiskIsCurrent /\ ListAgrees /\ AllListed /\ RootsAgree
  BY <1>1 DEF Agreement
<1>3. /\ RootsOk(roots) /\ RegistryOk(registry) /\ ListOk(list, handles) /\ SavedOk(disk, handles)
  BY DEF SidebarTypes
<1>4. {[path |-> roots[k].path, pinned |-> roots[k].pinned] : k \in DOMAIN roots} \in {ToSet(registry), ToSet(Enrolled(registry, Home))}
  <2>1. \A p \in Paths : RootAgrees(p, ToSet(roots), ToSet(registry))
    BY <1>1, <1>2 DEF RootsAgree, PendingAgrees
  <2> QED
    BY <1>3, <2>1, RootsShown
<1>5. Live \subseteq ToSet(Ids(list))
  <2>1. \A i \in Live : \E k \in DOMAIN list : list[k].id = i
    BY <1>1, <1>2 DEF AllListed, Kept, Holds, ToSet
  <2> QED
    BY <2>1 DEF Ids, ToSet
<1>6. now \in Seq(EntryType) /\ ToSet(now) = {list[k] : k \in {m \in DOMAIN list : list[m].id \in Live}}
  BY <1>3, PickedItems DEF ListOk
<1>7. Matches(disk, handles)
  BY <1>1, <1>2 DEF DiskIsCurrent, SavesPending
<1> HIDE DEF now
<1>8. ASSUME NEW k \in DOMAIN now PROVE Bootstrapped(now[k].id) = now[k]
  <2>1. now[k] \in ToSet(now) /\ now[k] \in EntryType
    BY <1>6, ElementOfSeq, LenProperties DEF ToSet
  <2>2. now[k] \in ToSet(list) /\ now[k].id \in Live
    BY <1>6, <2>1 DEF ToSet
  <2>3. now[k].pinned = handles[now[k].id].pinned /\ now[k].order = handles[now[k].id].order
    BY <1>1, <1>2, <2>2 DEF ListAgrees, EntryAgrees, Underway, Kept
  <2>4. Bootstrapped(now[k].id) = [id |-> now[k].id, pinned |-> handles[now[k].id].pinned, order |-> handles[now[k].id].order]
    BY <1>7, BootstrappedAgrees
  <2> QED
    BY <2>1, <2>3, <2>4 DEF EntryType
<1>9. now = [k \in DOMAIN now |-> now[k]]
  BY <1>6
<1>10. then = now
  BY <1>8, <1>9
<1> HIDE DEF then
<1> QED
  BY <1>4, <1>5, <1>10

(* When nothing is on its way, nothing was lost or overtaken, and the page *)
(* has had a bootstrap since it was loaded, the sidebar shows what it      *)
(* would show after a reload, however the gestures, their requests, exits, *)
(* saves and bootstraps were interleaved, and whichever of the bootstraps  *)
(* failed (app-store.ts:585, WorkspaceSidebar.tsx:288, rest/agent.rs:107,  *)
(* bootstrap.rs:119, useDaemon.ts:59).                                     *)
THEOREM QuietSame == SidebarSpec => []QuietMeansSame
<1>1. SidebarInit => Agreement
  BY AgreementInit
<1>2. SidebarTypes /\ Agreement /\ [SidebarNext]_sidebarVars => Agreement'
  <2> SUFFICES ASSUME SidebarTypes, Agreement, [SidebarNext]_sidebarVars PROVE Agreement'
    OBVIOUS
  <2>1. CASE SidebarNext
    BY <2>1, AgreementStep
  <2>2. CASE UNCHANGED sidebarVars
    BY <2>2 DEF sidebarVars, browser, backend, Agreement, AloneCalls, StopsHold, DiskIsCurrent, OrdersKept, SavesPending,
                Calm, TakenUp, Answered, AllHeard, Live, Kept, UntouchedCalls, UntouchedReplies, ListAgrees, AllListed, RootsAgree
  <2> QED
    BY <2>1, <2>2
<1>3. SidebarTypes /\ Agreement => QuietMeansSame
  BY AgreementSame
<1> QED
  BY <1>1, <1>2, <1>3, SidebarTypeCorrect, PTL DEF SidebarSpec
=============================================================================

----------------------------- MODULE SidebarStore ----------------------------
(***************************************************************************)
(* The workspaces and agents that the sidebars show (app-store.ts and the  *)
(* components that use it) against what the daemon keeps of them.  A       *)
(* gesture changes the store at once and sends its requests, which nobody  *)
(* awaits: they are handled in any order, each of them in several steps,   *)
(* and may fail.  A bootstrap, asked for at every connection of the event  *)
(* socket, replaces what the store holds, and makes the daemon take up     *)
(* again the agents of workspace.json that it does not run; when it fails, *)
(* it is not asked for again.                                              *)
(*                                                                         *)
(* All agents run in one workspace, Home.  Names and icons are changed the *)
(* way pins are, and are left out.                                         *)
(***************************************************************************)
EXTENDS Naturals, FiniteSets, SequencesExt

CONSTANTS Paths,        \* the directories that may be workspaces
          Home,         \* the one that agents are started in
          MaxSessions,  \* bound: agents ever started
          Gestures      \* bound: if n agents run at first, Gestures[n] gestures, exits and connections follow

NoPath == "none"

ASSUME SidebarAssumption ==
  /\ Home \in Paths /\ NoPath \notin Paths
  /\ MaxSessions \in Nat
  /\ Gestures \in Seq(Nat) /\ Len(Gestures) <= MaxSessions

VARIABLES roots,     \* workspaceRoots: [path, pinned, known], known when it has its id
          stored,    \* the roots in localStorage
          sel,       \* workspacePath, whether workspaceId is set, and whether its root had no id
          list,      \* sessionsByWorkspacePath of Home: [id, pinned, order]
          registry,  \* the daemon's workspaces: [path, pinned]
          handles,   \* the daemon's agents: id -> [live, pinned, order]
          disk,      \* the agents in workspace.json: id -> [pinned, order]
          calls,     \* requests on their way or being handled
          replies,   \* answers on their way
          hydrates,  \* the bootstraps on their way: [n, at, heard, stale, saved, roots, list]
          hydrated,  \* whether one has arrived since the page was loaded
          gestures,  \* how many gestures, exits and connections may follow
          overtaken  \* some change was lost, refused, or overtaken by an older one, or Home has got another id

browser == <<roots, stored, sel, list>>
backend == <<registry, handles, disk>>
sidebarVars == <<browser, backend, calls, replies, hydrates, hydrated, gestures, overtaken>>

NoOrder == MaxSessions  \* sortOrder null: sorts after every order

NoRoot == [path |-> NoPath, known |-> FALSE, blind |-> FALSE]

\* A bootstrap that was just asked for; what it is called after goes down with each.
Asked(n) == [n |-> n, at |-> "asked", heard |-> TRUE, stale |-> FALSE, saved |-> <<>>, roots |-> <<>>, list |-> <<>>]

SidebarInit ==
  /\ roots = <<>> /\ stored = <<>> /\ list = <<>>
  /\ sel = NoRoot
  /\ registry = <<[path |-> Home, pinned |-> FALSE]>>
  /\ \E n \in DOMAIN Gestures :
       /\ handles = [i \in 1..n |-> [live |-> TRUE, pinned |-> FALSE, order |-> NoOrder]]
       /\ disk = [i \in 1..n |-> [pinned |-> FALSE, order |-> NoOrder]]
       /\ gestures = Gestures[n]
  /\ calls = {} /\ replies = {}
  /\ hydrates = {Asked(gestures)} /\ hydrated = FALSE
  /\ overtaken = FALSE

-----------------------------------------------------------------------------
(* Lists.                                                                  *)

\* The elements of the finite set T in the order r, a set of pairs.
Ranked(T, r) ==
  [n \in 1..Cardinality(T) |-> CHOOSE x \in T : Cardinality({y \in T : <<y, x>> \in r}) = n - 1]

\* What a filter leaves of s: the items at the places in T, in their order.
Picked(s, T) ==
  LET at == Ranked(T, {p \in T \X T : p[1] < p[2]})
  IN  [n \in DOMAIN at |-> s[at[n]]]

\* normalizeWorkspaceRoots and normalizeWorkspaceSessions: the pinned ones first.
Normalize(s) ==
  Picked(s, {k \in DOMAIN s : s[k].pinned}) \o Picked(s, {k \in DOMAIN s : ~s[k].pinned})

\* The order that the sidebar shows, whatever the order of the list.
Before(s, i, j) ==
  \/ s[i].pinned /\ ~s[j].pinned
  \/ s[i].pinned = s[j].pinned /\ s[i].order < s[j].order
  \/ /\ s[i].pinned = s[j].pinned /\ s[i].order = s[j].order
     /\ IF s[i].order = NoOrder THEN s[i].id < s[j].id ELSE i < j

Display(s) ==
  LET at == Ranked(DOMAIN s, {p \in (DOMAIN s) \X (DOMAIN s) : Before(s, p[1], p[2])})
  IN  [n \in DOMAIN at |-> s[at[n]].id]

Ids(s) == [k \in DOMAIN s |-> s[k].id]
Where(s, i) == CHOOSE k \in DOMAIN s : s[k].id = i
Lists(i) == \E k \in DOMAIN list : list[k].id = i
Without(s, i) == Picked(s, {k \in DOMAIN s : s[k].id # i})

Place(p) == CHOOSE k \in DOMAIN roots : roots[k].path = p
HasRoot(p) == \E k \in DOMAIN roots : roots[k].path = p
Known(p) == \E k \in DOMAIN roots : roots[k].path = p /\ roots[k].known
Apart(s, p) == Picked(s, {k \in DOMAIN s : s[k].path # p})

\* Mutant of Moved: the two change places.
MovedSwap(s, i, j) == ReplaceAt(ReplaceAt(s, i, s[j]), j, s[i])

\* Take what is at place i out and put it in at place j.
Moved(s, i, j) == InsertAt(RemoveAt(s, i), j, s[i])

\* reorderWorkspaceSession: every session of the list gets its place as its order.
Reordered(i, j) ==
  LET next == Moved(list, Where(list, i), Where(list, j))
  IN  [k \in DOMAIN next |-> [next[k] EXCEPT !.order = k - 1]]

-----------------------------------------------------------------------------
(* Requests.                                                               *)

Call(to) == [to |-> to, path |-> NoPath, id |-> 0, pinned |-> FALSE, order |-> NoOrder, at |-> "sent", snap |-> <<>>, heard |-> TRUE]
OnRoot(to, p) == [Call(to) EXCEPT !.path = p]
OnAgent(to, i) == [Call(to) EXCEPT !.id = i]

Saving == {"create", "stop", "pin", "place"}

\* Two requests that are under way at once and about the same thing, or the removal of
\* a workspace and the saving of its agents, which brings it back.
Same(c, d) ==
  \/ c.path = d.path /\ c.id = d.id
  \/ c.to = "remove" /\ d.to \in Saving
  \/ c.to \in Saving /\ d.to = "remove"

\* A change that the bootstraps on their way may not know of.
Missed == {[h EXCEPT !.stale = @ \/ h.at # "asked"] : h \in hydrates}

Send(new) ==
  /\ calls' = calls \cup new
  /\ overtaken' = (overtaken \/ \E c \in new, d \in calls : Same(c, d) /\ c # d)
  /\ hydrates' = Missed

Gesture ==
  /\ gestures > 0
  /\ gestures' = gestures - 1
  /\ UNCHANGED <<backend, replies, hydrated>>

\* Every change of the roots is written to localStorage.
SetRoots(new) == roots' = new /\ stored' = new

-----------------------------------------------------------------------------
(* What the user does with workspaces.                                     *)

\* A folder is chosen: addWorkspaceRoot, setWorkspacePath, registerWorkspace.
AddRoot(p) ==
  /\ Gesture
  /\ IF HasRoot(p) THEN UNCHANGED <<roots, stored>>
     ELSE SetRoots(Normalize(Append(roots, [path |-> p, pinned |-> FALSE, known |-> FALSE])))
  /\ sel' = [path |-> p, known |-> FALSE, blind |-> FALSE]
  /\ Send({OnRoot("register", p)})
  /\ UNCHANGED list

\* activateWorkspace
Select(p) ==
  /\ Gesture
  /\ HasRoot(p) /\ sel.path # p
  /\ sel' = [path |-> p, known |-> Known(p), blind |-> ~Known(p)]
  /\ UNCHANGED <<roots, stored, list, calls, hydrates, overtaken>>

RemoveRoot(p) ==
  /\ Gesture
  /\ HasRoot(p)
  /\ SetRoots(Apart(roots, p))
  /\ sel' = IF sel.path = p THEN NoRoot ELSE sel
  /\ Send({OnRoot("remove", p)})
  /\ UNCHANGED list

\* setWorkspacePinned: to the end of the pinned ones, or to the top of the others.
PinRoot(p) ==
  /\ Gesture
  /\ HasRoot(p)
  /\ LET root == roots[Place(p)]
         rest == Apart(roots, p)
         firstUnpinned == Cardinality({k \in DOMAIN rest : rest[k].pinned}) + 1
     IN  /\ SetRoots(Normalize(InsertAt(rest, firstUnpinned, [root EXCEPT !.pinned = ~@])))
         /\ Send({[OnRoot("pinroot", p) EXCEPT !.pinned = ~root.pinned]})
  /\ UNCHANGED <<sel, list>>

\* reorderWorkspaceRoots: in the browser only.
DragRoot(p, q) ==
  /\ Gesture
  /\ p # q /\ HasRoot(p) /\ HasRoot(q)
  /\ roots[Place(p)].pinned = roots[Place(q)].pinned
  /\ SetRoots(Normalize(Moved(roots, Place(p), Place(q))))
  /\ UNCHANGED <<sel, list, calls, hydrates, overtaken>>

-----------------------------------------------------------------------------
(* What the user does with agents.                                         *)

\* The sidebar of a workspace shows its agents only under its id.
Visible == sel.path = Home /\ sel.known

StartAgent ==
  /\ Gesture
  /\ sel.path = Home
  /\ Cardinality(DOMAIN handles) < MaxSessions
  /\ ~\E c \in calls \cup replies : c.to = "create"
  /\ Send({Call("create")})
  /\ UNCHANGED browser

StopAgent(i) ==
  /\ Gesture
  /\ Visible /\ Lists(i)
  /\ Send({OnAgent("stop", i)})
  /\ UNCHANGED browser

\* updateSessionSettings and its request.
Pin(i) ==
  /\ Gesture
  /\ Visible /\ Lists(i)
  /\ LET k == Where(list, i) IN
       /\ list' = Normalize([list EXCEPT ![k].pinned = ~@])
       /\ Send({[OnAgent("pin", i) EXCEPT !.pinned = ~list[k].pinned]})
  /\ UNCHANGED <<roots, stored, sel>>

Placed(s) == {[OnAgent("place", s[k].id) EXCEPT !.order = s[k].order] : k \in DOMAIN s}

\* Mutant of Drag: only the agent that was dragged is sent.
DragSendsOne(i, j) ==
  /\ Gesture
  /\ Visible /\ i # j /\ Lists(i) /\ Lists(j)
  /\ list' = IF Known(Home) THEN Reordered(i, j) ELSE list
  /\ Send({c \in Placed(list') : c.id = i})
  /\ UNCHANGED <<roots, stored, sel>>

\* An agent is dropped on another one: reorderWorkspaceSession, which needs the id
\* of the root, then one request for every agent of the list.
Drag(i, j) ==
  /\ Gesture
  /\ Visible /\ i # j /\ Lists(i) /\ Lists(j)
  /\ list' = IF Known(Home) THEN Reordered(i, j) ELSE list
  /\ Send(Placed(list'))
  /\ UNCHANGED <<roots, stored, sel>>

\* The terminal of an agent says that its process is gone: removeSessionById, stopAgentSession.
AgentGone(i) ==
  /\ Visible /\ Lists(i)
  /\ i \in DOMAIN handles /\ ~handles[i].live
  /\ list' = Without(list, i)
  /\ Send({OnAgent("stop", i)})
  /\ UNCHANGED <<roots, stored, sel, backend, replies, hydrated, gestures>>

-----------------------------------------------------------------------------
(* The daemon.  A request about an agent changes its handle, collects the  *)
(* agents that run, and replaces those in workspace.json by them.          *)

Registered(p) == \E k \in DOMAIN registry : registry[k].path = p
Enrolled(s, p) == IF \E k \in DOMAIN s : s[k].path = p THEN s ELSE Append(s, [path |-> p, pinned |-> FALSE])
NewId == Cardinality(DOMAIN handles) + 1

\* The agents stay with the id that Home had when they were started: once Home is saved
\* under another one, a bootstrap lists it twice, and no claim is made.
Renewed(p) == p = Home /\ ~Registered(p)

\* The answer, as long as the page that asked is there.
Reply(c) == IF c.heard THEN {[c EXCEPT !.snap = <<>>]} ELSE {}

Arrived(c, kinds) == c \in calls /\ c.at = "sent" /\ c.to \in kinds

\* The request is handled up to the collecting of the agents.
Applied(c, i) ==
  /\ calls' = (calls \ {c}) \cup {[c EXCEPT !.at = "applied", !.id = i]}
  /\ hydrates' = Missed
  /\ UNCHANGED <<browser, registry, disk, replies, hydrated, gestures, overtaken>>

Register(c) ==
  /\ Arrived(c, {"register"})
  /\ registry' = Enrolled(registry, c.path)
  /\ overtaken' = (overtaken \/ Renewed(c.path))
  /\ calls' = calls \ {c}
  /\ replies' = replies \cup Reply(c)
  /\ hydrates' = Missed
  /\ UNCHANGED <<browser, handles, disk, hydrated, gestures>>

\* The directory of the workspace goes; its agents run on.
RemoveWorkspace(c) ==
  /\ Arrived(c, {"remove"})
  /\ registry' = Apart(registry, c.path)
  /\ disk' = IF c.path = Home THEN <<>> ELSE disk
  /\ calls' = calls \ {c}
  /\ hydrates' = Missed
  /\ UNCHANGED <<browser, handles, replies, hydrated, gestures, overtaken>>

\* NOT_FOUND for a workspace that is not saved: the browser shows the change all the same.
Configure(c) ==
  /\ Arrived(c, {"pinroot"})
  /\ registry' = [k \in DOMAIN registry |->
       IF registry[k].path = c.path THEN [registry[k] EXCEPT !.pinned = c.pinned] ELSE registry[k]]
  /\ overtaken' = (overtaken \/ ~Registered(c.path))
  /\ calls' = calls \ {c}
  /\ hydrates' = Missed
  /\ UNCHANGED <<browser, handles, disk, replies, hydrated, gestures>>

CreateSession(c) ==
  /\ Arrived(c, {"create"})
  /\ handles' = Append(handles, [live |-> TRUE, pinned |-> FALSE, order |-> NoOrder])
  /\ Applied(c, NewId)

StopSession(c) ==
  /\ Arrived(c, {"stop"})
  /\ handles' = [handles EXCEPT ![c.id].live = FALSE]
  /\ Applied(c, c.id)

PinSession(c) ==
  /\ Arrived(c, {"pin"})
  /\ handles' = [handles EXCEPT ![c.id].pinned = c.pinned]
  /\ Applied(c, c.id)

\* sort_order null reads as no sort_order at all.
PlaceSession(c) ==
  /\ Arrived(c, {"place"})
  /\ handles' = IF c.order # NoOrder THEN [handles EXCEPT ![c.id].order = c.order] ELSE handles
  /\ Applied(c, c.id)

\* A request is lost; the browser shows the change all the same.
Lost(c) ==
  /\ c \in calls /\ c.at = "sent"
  /\ calls' = calls \ {c}
  /\ overtaken' = TRUE
  /\ UNCHANGED <<browser, backend, replies, hydrates, hydrated, gestures>>

Live == {i \in DOMAIN handles : handles[i].live}

\* running_sessions_for_workspace and the fallback to the order on the disk.
Snapshot(c) ==
  [i \in Live |->
    [pinned |-> handles[i].pinned,
     order |-> IF handles[i].order = NoOrder /\ i \in DOMAIN disk /\ ~(c.to = "place" /\ c.id = i)
               THEN disk[i].order ELSE handles[i].order]]

Collect(c) ==
  /\ c \in calls /\ c.at = "applied"
  /\ calls' = (calls \ {c}) \cup {[c EXCEPT !.at = "collected", !.snap = Snapshot(c)]}
  /\ UNCHANGED <<browser, backend, replies, hydrates, hydrated, gestures, overtaken>>

\* Nothing orders the saves: an older collection may be written over a newer one, for
\* good unless another request has yet to collect.
SaveAgents(c) ==
  /\ c \in calls /\ c.at = "collected"
  /\ registry' = Enrolled(registry, Home)
  /\ disk' = c.snap
  /\ calls' = calls \ {c}
  /\ replies' = IF c.to \in {"create", "stop"} THEN replies \cup Reply(c) ELSE replies
  /\ LET old == c.snap # Snapshot(c)
         later == \E d \in calls \ {c} : d.to \in Saving /\ d.at \in {"sent", "applied"}
     IN  overtaken' = (overtaken \/ (old /\ ~later) \/ Renewed(Home))
  /\ hydrates' = Missed
  /\ UNCHANGED <<browser, handles, hydrated, gestures>>

\* The process of an agent exits, and it stays in workspace.json.
Exit(i) ==
  /\ i \in Live
  /\ gestures > 0 /\ gestures' = gestures - 1
  /\ handles' = [handles EXCEPT ![i].live = FALSE]
  /\ hydrates' = {[h EXCEPT !.stale = @ \/ h.at = "revived"] : h \in hydrates}
  /\ UNCHANGED <<browser, registry, disk, calls, replies, hydrated, overtaken>>

-----------------------------------------------------------------------------
(* Answers.                                                                *)

\* Mutant of RegisterReply: only for the workspace that is still selected.
RegisterReplyIgnored(c) ==
  /\ c.to = "register"
  /\ UNCHANGED <<sel, list, overtaken>>

\* setWorkspace, whatever is selected, or has been removed, by now; the root still lacks its id.
RegisterReply(c) ==
  /\ c.to = "register"
  /\ sel' = [path |-> c.path, known |-> TRUE, blind |-> FALSE]
  /\ overtaken' = (overtaken \/ ~HasRoot(c.path))
  /\ UNCHANGED list

\* upsertWorkspaceSession with the settings of a new agent, then setWorkspace.
CreateReply(c) ==
  /\ c.to = "create"
  /\ list' = Normalize(Append(Without(list, c.id), [id |-> c.id, pinned |-> FALSE, order |-> NoOrder]))
  /\ sel' = [path |-> Home, known |-> TRUE, blind |-> FALSE]
  /\ overtaken' = (overtaken \/ Lists(c.id) \/ ~HasRoot(Home))

StopReply(c) ==
  /\ c.to = "stop"
  /\ list' = Without(list, c.id)
  /\ UNCHANGED <<sel, overtaken>>

Receive(c) ==
  /\ c \in replies
  /\ RegisterReply(c) \/ CreateReply(c) \/ StopReply(c)
  /\ replies' = replies \ {c}
  /\ hydrates' = Missed
  /\ UNCHANGED <<roots, stored, backend, calls, hydrated, gestures>>

-----------------------------------------------------------------------------
(* The bootstrap.                                                          *)

Reconnect ==
  /\ gestures > 0 /\ gestures' = gestures - 1
  /\ hydrates' = hydrates \cup {Asked(gestures')}
  /\ UNCHANGED <<browser, backend, calls, replies, hydrated, overtaken>>

\* The workspaces and their agents are read from the disk.
Load(h) ==
  /\ h \in hydrates /\ h.at = "asked"
  /\ hydrates' = (hydrates \ {h}) \cup {[h EXCEPT !.at = "loaded", !.saved = disk, !.roots = registry, !.stale = calls # {}]}
  /\ UNCHANGED <<browser, backend, calls, replies, hydrated, gestures, overtaken>>

\* ensure_persisted_handles: an agent that was read and does not run is a restored one,
\* with the settings that were read.
Revive(h) ==
  /\ h \in hydrates /\ h.at = "loaded"
  /\ LET revived == DOMAIN h.saved \ Live
     IN  /\ handles' = [i \in DOMAIN handles |->
              IF i \in revived THEN [live |-> TRUE, pinned |-> h.saved[i].pinned, order |-> h.saved[i].order] ELSE handles[i]]
         /\ overtaken' = (overtaken \/ (h.stale /\ revived # {}))
  /\ hydrates' = (hydrates \ {h}) \cup {[h EXCEPT !.at = "revived", !.saved = <<>>]}
  /\ UNCHANGED <<browser, registry, disk, calls, replies, hydrated, gestures>>

\* What is on the disk goes before what the handle says.
Bootstrapped(i) ==
  [id |-> i,
   pinned |-> IF i \in DOMAIN disk THEN disk[i].pinned ELSE handles[i].pinned,
   order |-> IF i \in DOMAIN disk /\ disk[i].order # NoOrder THEN disk[i].order ELSE handles[i].order]

\* A workspace that was removed comes back, unpinned, as long as it has running agents.
Listed(s) == IF Live = {} THEN s ELSE Enrolled(s, Home)

\* list_sessions and the rest.  The agents come in the order of a hash map.
Answer(h) ==
  /\ h \in hydrates /\ h.at = "revived" /\ h.heard
  /\ \E s \in SetToSeqs(Live) :
       LET shown == Listed(h.roots)
       IN  hydrates' = (hydrates \ {h}) \cup {[h EXCEPT !.at = "answered",
              !.roots = [k \in DOMAIN shown |-> [path |-> shown[k].path, pinned |-> shown[k].pinned, known |-> TRUE]],
              !.list = [k \in DOMAIN s |-> Bootstrapped(s[k])]]}
  /\ UNCHANGED <<browser, backend, calls, replies, hydrated, gestures, overtaken>>

\* mergeBackendWorkspaces and hydrateWorkspaceSessions; what is selected stays as it is.
Arrive(h) ==
  /\ h \in hydrates /\ h.at = "answered" /\ h.heard
  /\ SetRoots(Normalize(h.roots))
  /\ list' = Normalize(h.list)
  /\ hydrated' = TRUE
  /\ overtaken' = (overtaken \/ h.stale)
  /\ hydrates' = hydrates \ {h}
  /\ UNCHANGED <<sel, backend, calls, replies, gestures>>

\* The request or its answer is lost, and nothing is hydrated.  The daemon may go on with it.
HydrationFails(h) ==
  /\ h \in hydrates
  /\ \/ hydrates' = hydrates \ {h}
     \/ h.heard /\ h.at # "answered" /\ hydrates' = (hydrates \ {h}) \cup {[h EXCEPT !.heard = FALSE]}
  /\ UNCHANGED <<browser, backend, calls, replies, hydrated, gestures, overtaken>>

\* The page is loaded again: loadWorkspaceRoots, and a new connection.  Nobody hears the
\* answers to what the old one asked.
Reload ==
  /\ gestures > 0 /\ gestures' = gestures - 1
  /\ roots' = Normalize(stored)
  /\ sel' = NoRoot /\ list' = <<>>
  /\ calls' = {[c EXCEPT !.heard = FALSE] : c \in calls}
  /\ replies' = {}
  /\ hydrates' = {[h EXCEPT !.heard = FALSE] : h \in hydrates} \cup {Asked(gestures')}
  /\ hydrated' = FALSE
  /\ UNCHANGED <<stored, backend, overtaken>>

SidebarNext ==
  \/ \E p \in Paths : AddRoot(p) \/ Select(p) \/ RemoveRoot(p) \/ PinRoot(p) \/ \E q \in Paths : DragRoot(p, q)
  \/ StartAgent
  \/ \E i \in 1..MaxSessions : StopAgent(i) \/ Pin(i) \/ AgentGone(i) \/ Exit(i) \/ \E j \in 1..MaxSessions : Drag(i, j)
  \/ \E c \in calls : Register(c) \/ RemoveWorkspace(c) \/ Configure(c) \/ Lost(c)
       \/ CreateSession(c) \/ StopSession(c) \/ PinSession(c) \/ PlaceSession(c)
       \/ Collect(c) \/ SaveAgents(c)
  \/ \E c \in replies : Receive(c)
  \/ \E h \in hydrates : Load(h) \/ Revive(h) \/ Answer(h) \/ Arrive(h) \/ HydrationFails(h)
  \/ Reconnect \/ Reload

SidebarSpec == SidebarInit /\ [][SidebarNext]_sidebarVars

-----------------------------------------------------------------------------
Settled == calls = {} /\ replies = {} /\ hydrates = {}

(* When nothing is on its way, no change was lost or overtaken, and the    *)
(* page has had a bootstrap since it was loaded (until then it has the     *)
(* workspaces of localStorage and no agents, and a bootstrap that fails is *)
(* not asked for again), the sidebar shows what it would show after a      *)
(* reload: the workspaces of the daemon with their pins, but for a removed *)
(* Home, which agents that run on bring back, and every running agent of   *)
(* Home at its place (once Home has its id: a workspace that was added     *)
(* shows none before).  Each gesture is shown at once and saved by         *)
(* requests that nobody awaits; a drag sends one for every agent; and a    *)
(* bootstrap reads the disk before it asks the agents.  (app-store.ts:585, *)
(* WorkspaceSidebar.tsx:288, rest/agent.rs:107, bootstrap.rs:119,          *)
(* useDaemon.ts:59)                                                        *)
QuietMeansSame ==
  (Settled /\ hydrated /\ ~overtaken) =>
    /\ {[path |-> roots[k].path, pinned |-> roots[k].pinned] : k \in DOMAIN roots} \in {ToSet(registry), ToSet(Enrolled(registry, Home))}
    /\ Known(Home) => Live \subseteq ToSet(Ids(list))
    /\ LET now == Picked(list, {k \in DOMAIN list : list[k].id \in Live})
           then == [k \in DOMAIN now |-> Bootstrapped(now[k].id)]
       IN  Display(now) = Display(then)

\* The items of s but i.
Others(s, i) == Picked(s, {k \in DOMAIN s : s[k] # i})

(* A gesture moves what it is about and nothing else: pinning or dragging  *)
(* a workspace leaves the order of the others alone, and so does dragging  *)
(* an agent, as long as the list is in the order that is shown.  (After a  *)
(* bootstrap it need not be: the drag then works on places that nobody     *)
(* sees.)  (app-store.ts:371-402, 422-446, 585-622)                        *)
GestureMovesOne ==
  [][/\ \A p \in Paths : (PinRoot(p) \/ \E q \in Paths : DragRoot(p, q)) => Apart(roots', p) = Apart(roots, p)
     /\ \A i, j \in 1..MaxSessions :
          (Drag(i, j) /\ Display(list) = Ids(list)) => Others(Display(list'), i) = Others(Display(list), i)]_sidebarVars

(* When nothing is on its way, and nothing was lost or overtaken, the      *)
(* agents of Home are shown when it is selected and has its id, unless the *)
(* user switched to it while its root had none: a root gets its id from a  *)
(* bootstrap only, and no bootstrap repairs the selection.                 *)
(* (NewWorkspaceView.tsx:12, useDaemon.ts:23, AppSidebar.tsx:101)          *)
SelectedIsServed ==
  (Settled /\ ~overtaken /\ sel.path = Home /\ Known(Home) /\ ~sel.blind) => Visible
=============================================================================

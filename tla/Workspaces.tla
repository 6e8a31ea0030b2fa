------------------------------ MODULE Workspaces ------------------------------
(***************************************************************************)
(* What the workspace files promise, without files: every workspace is one *)
(* record that each request changes in one step, and a session is saved    *)
(* with its workspace.  WorkspaceStore implements this with one directory  *)
(* per workspace as long as requests do not overlap.                       *)
(***************************************************************************)
EXTENDS Naturals

CONSTANTS
    Paths,       \* workspace paths as clients spell them
    Sessions,    \* session ids
    Names,       \* settings of a workspace: its name, pin and icon
    Labels,      \* settings of a session: its name, pin, icon and order
    FirstName,   \* the settings of a workspace nobody has changed
    FirstLabel,  \* the settings of a new session
    None

VARIABLES
    store,       \* what is saved of each workspace
    handles,     \* AgentManager::handles
    taken        \* the snapshot a handler is about to save

vars == <<store, handles, taken>>

(* What is saved of the sessions of a workspace, and their handles. *)
Saved == [Sessions -> Labels \cup {None}]
NoSessions == [s \in Sessions |-> None]
Workspace == [name : Names, agents : Saved]
Handle == [path : Paths, label : Labels, active : BOOLEAN]

IsActive(h, s) == h[s] # None /\ h[s].active

(* running_sessions_for_workspace. *)
Snapshot(h, p) ==
    [s \in Sessions |-> IF IsActive(h, s) /\ h[s].path = p THEN h[s].label ELSE None]

Init ==
    /\ store = [p \in Paths |-> None]
    /\ handles = [s \in Sessions |-> None]
    /\ taken = None

Register(p) ==
    /\ store[p] = None
    /\ store' = [store EXCEPT ![p] = [name |-> FirstName, agents |-> NoSessions]]
    /\ UNCHANGED <<handles, taken>>

Configure(p, n) ==
    /\ store[p] # None
    /\ store' = [store EXCEPT ![p].name = n]
    /\ UNCHANGED <<handles, taken>>

Remove(p) ==
    /\ store' = [store EXCEPT ![p] = None]
    /\ UNCHANGED <<handles, taken>>

(* Sessions start, end and are renamed whatever is being saved. *)
Start(s, p) ==
    /\ handles[s] = None
    /\ handles' = [handles EXCEPT ![s] = [path |-> p, label |-> FirstLabel, active |-> TRUE]]
    /\ UNCHANGED <<store, taken>>

End(s) ==
    /\ handles[s] # None
    /\ handles' = [handles EXCEPT ![s].active = FALSE]
    /\ UNCHANGED <<store, taken>>

Relabel(s, l) ==
    /\ handles[s] # None
    /\ handles' = [handles EXCEPT ![s].label = l]
    /\ UNCHANGED <<store, taken>>

Take(p) ==
    /\ taken = None
    /\ taken' = [path |-> p, agents |-> Snapshot(handles, p)]
    /\ UNCHANGED <<store, handles>>

(* Saving the sessions of a workspace that was removed brings it back. *)
Save ==
    /\ taken # None
    /\ store' = [store EXCEPT ![taken.path] =
                    [name |-> IF @ = None THEN FirstName ELSE @.name,
                     agents |-> taken.agents]]
    /\ taken' = None
    /\ UNCHANGED handles

(* A save that fails leaves everything as it was. *)
Drop ==
    /\ taken # None
    /\ taken' = None
    /\ UNCHANGED <<store, handles>>

(* The handle that what is saved of a session stands for. *)
SavedHandle(s) ==
    LET In(p) == store[p] # None /\ store[p].agents[s] # None
    IN  IF \E p \in Paths : In(p)
          THEN LET p == CHOOSE p \in Paths : In(p)
               IN  [path |-> p, label |-> store[p].agents[s], active |-> TRUE]
          ELSE None

(* A bootstrap brings a saved session back that is not active. *)
Revive(s) ==
    /\ SavedHandle(s) # None
    /\ ~IsActive(handles, s)
    /\ handles' = [handles EXCEPT ![s] = SavedHandle(s)]
    /\ UNCHANGED <<store, taken>>

Restart ==
    /\ handles' = [s \in Sessions |-> SavedHandle(s)]
    /\ taken' = None
    /\ UNCHANGED store

Next ==
    \/ \E p \in Paths : Register(p) \/ Remove(p) \/ Take(p)
    \/ \E p \in Paths, n \in Names : Configure(p, n)
    \/ \E s \in Sessions, p \in Paths : Start(s, p)
    \/ \E s \in Sessions : End(s) \/ Revive(s)
    \/ \E s \in Sessions, l \in Labels : Relabel(s, l)
    \/ Save \/ Drop \/ Restart

Spec == Init /\ [][Next]_vars
=============================================================================

---------------------------- MODULE WorkspaceStore ----------------------------
(***************************************************************************)
(* The saved workspaces: one directory per workspace id with a             *)
(* workspace.json in it (lw-api/src/rest/workspace.rs), the registry of    *)
(* ids and root directories (lw-fs/src/security.rs), and the handlers of   *)
(* workspaces and sessions that read, change and write both.               *)
(*                                                                         *)
(* A file is replaced in one step (write_json_atomic renames it into       *)
(* place), and that is all there is: no lock spans a handler, which reads  *)
(* the directories one by one, decides, and writes.  Each read, each write *)
(* and each access to the registry or to the handles is an action.         *)
(*                                                                         *)
(* The paths are absolute and name directories that stay.  A session's     *)
(* conversation, process and resumability are left to AgentSession; here a *)
(* session is active or not.  Attachments are left out.                    *)
(***************************************************************************)
EXTENDS Naturals, Sequences, SequencesExt

CONSTANTS
    Requests,    \* handlers that run at the same time
    Offered,     \* what they may be asked
    Ids,         \* the workspace ids Uuid::new_v4 can return (a bound)
    Paths, Sessions, Names, Labels, FirstName, FirstLabel, None,
    Canonical    \* the canonical spelling of a path

ASSUME PathsAssumption ==
    /\ Canonical \in [Paths -> Paths]
    /\ \A p \in Paths : Canonical[Canonical[p]] = Canonical[p]
ASSUME FirstAssumption == FirstName \in Names /\ FirstLabel \in Labels

Saved == [Sessions -> Labels \cup {None}]
NoSessions == [s \in Sessions |-> None]
Persistence == [path : Paths, name : Names, agents : Saved]
Handle == [path : Paths, label : Labels, active : BOOLEAN]
Found == [path : Paths, label : Labels]
WorkspaceEntry == [id : Ids, path : Paths, name : Names]

ASSUME NoneAssumption ==
    /\ None \notin UNION {Paths, Labels, Ids, Sessions, Names}
    /\ None \notin UNION {Persistence, Handle, Found}
    /\ None \notin UNION {[name : Names, agents : Saved], [path : Paths, agents : Saved]}

Kinds == {"register", "configure", "remove", "create", "stop", "label", "bootstrap"}
ASSUME OfferedAssumption == Offered \subseteq Kinds

VARIABLES
    disk,        \* the workspace.json of each id
    registry,    \* WorkspaceRegistry::workspaces
    handles,     \* AgentManager::handles
    made,        \* every id generated so far
    req,         \* what each handler is doing
    promised     \* paths a client was told are saved, and no removal undid

vars == <<disk, registry, handles, made, req, promised>>

Steps == {"idle", "find", "enroll", "start", "stop", "label", "collect", "list",
          "read", "each", "write", "insert"}

(* A handler between requests. *)
Idle == [at |-> "idle", kind |-> "register", path |-> None, session |-> None, id |-> None,
         value |-> None, unread |-> {}, entries |-> <<>>, found |-> NoSessions, undone |-> FALSE]

Init ==
    /\ disk = [i \in Ids |-> None]
    /\ registry = [i \in Ids |-> None]
    /\ handles = [s \in Sessions |-> None]
    /\ made = {}
    /\ req = [r \in Requests |-> Idle]
    /\ promised = {}

(***************************************************************************)
(* The steps of a handler.                                                 *)
(***************************************************************************)
At(r, step) == req[r].at = step
Becomes(r, new) == req' = [req EXCEPT ![r] = new]
Goto(r, step) == Becomes(r, [req[r] EXCEPT !.at = step])

(* The response; from a removal of the path on, the client knows better.   *)
Finish(r, ok) ==
    /\ Becomes(r, Idle)
    /\ promised' = IF ok /\ ~req[r].undone /\ req[r].kind \notin {"remove", "bootstrap"}
                     THEN promised \cup {req[r].path} ELSE promised

IsActive(s) == handles[s] # None /\ handles[s].active
Files(p) == {i \in Ids : disk[i] # None /\ disk[i].path = p}

(* The sessions of a file, and those of a snapshot as a file has them. *)
FoundIn(i) ==
    [s \in Sessions |-> IF disk[i] = None \/ disk[i].agents[s] = None THEN None
                        ELSE [path |-> disk[i].path, label |-> disk[i].agents[s]]]
Entries(found) == [s \in Sessions |-> IF found[s] = None THEN None ELSE found[s].label]

Begin(r, kind, step, p, s, v) ==
    /\ At(r, "idle")
    /\ kind \in Offered
    /\ Becomes(r, [Idle EXCEPT !.at = step, !.kind = kind, !.path = p,
                               !.session = s, !.value = v,
                               !.undone = \E q \in Requests : req[q].kind = "remove" /\ req[q].path = p])
    /\ UNCHANGED <<disk, registry, handles, made, promised>>

BeginRegister(r) == \E p \in Paths : Begin(r, "register", "list", p, None, None)
BeginConfigure(r) == \E p \in Paths, n \in Names : Begin(r, "configure", "list", p, None, n)
BeginBootstrap(r) == Begin(r, "bootstrap", "list", None, None, None)
BeginCreate(r) ==
    \E p \in Paths, s \in Sessions :
        /\ \A q \in Requests : req[q].session # s /\ req[q].found[s] = None  \* a new id
        /\ handles[s] = None
        /\ \A i \in Ids : FoundIn(i)[s] = None
        /\ Begin(r, "create", "find", p, s, None)
BeginStop(r) ==
    \E s \in Sessions : handles[s] # None /\ Begin(r, "stop", "stop", handles[s].path, s, None)
BeginLabel(r) ==
    \E s \in Sessions, l \in Labels :
        handles[s] # None /\ Begin(r, "label", "label", handles[s].path, s, l)

BeginRemove(r) ==
    /\ At(r, "idle")
    /\ "remove" \in Offered
    /\ \E p \in Paths :
          /\ req' = [q \in Requests |->
                       IF q = r THEN [Idle EXCEPT !.at = "list", !.kind = "remove", !.path = p]
                       ELSE [req[q] EXCEPT !.undone = @ \/ req[q].path = p]]
          /\ promised' = promised \ {p}
    /\ UNCHANGED <<disk, registry, handles, made>>

(***************************************************************************)
(* load_workspaces: list the directories, then read one file after the     *)
(* other; a file that went away is skipped, and so is a second file of a   *)
(* path.                                                                   *)
(***************************************************************************)
List(r) ==
    /\ At(r, "list")
    /\ Becomes(r, [req[r] EXCEPT !.at = "read", !.entries = <<>>,
                                 !.unread = {i \in Ids : disk[i] # None}])
    /\ UNCHANGED <<disk, registry, handles, made, promised>>

(* Mutant: a link is taken for the directory it leads to. *)
EntryOfTarget(r, p) == {e \in ToSet(req[r].entries) : Canonical[e.path] = Canonical[p]}

EntryOf(r, p) == {e \in ToSet(req[r].entries) : e.path = p}

Read(r) ==
    /\ At(r, "read")
    /\ \E i \in req[r].unread :
          LET new == IF disk[i] = None \/ EntryOf(r, disk[i].path) # {} THEN <<>>
                     ELSE <<[id |-> i, path |-> disk[i].path, name |-> disk[i].name]>>
          IN  Becomes(r, [req[r] EXCEPT !.unread = @ \ {i}, !.entries = @ \o new])
    /\ UNCHANGED <<disk, registry, handles, made, promised>>

Loaded(r, kinds) == At(r, "read") /\ req[r].unread = {} /\ req[r].kind \in kinds
Mine(r) == EntryOf(r, req[r].path)

(***************************************************************************)
(* WorkspaceRegistry.  Canonicalizing a path may take too long, and then   *)
(* the path is kept as it is.                                              *)
(***************************************************************************)
Enter(i, p) == \E root \in {p, Canonical[p]} : registry' = [registry EXCEPT ![i] = root]

(* Mutant: any registered workspace will do. *)
FindByPathAny(p) == {i \in Ids : registry[i] # None}

FindByPath(p) == {i \in Ids : registry[i] = p}

(***************************************************************************)
(* register                                                                *)
(***************************************************************************)
RegisterKnown(r) ==
    /\ Loaded(r, {"register"})
    /\ \E e \in Mine(r) : Enter(e.id, e.path)
    /\ Finish(r, TRUE)
    /\ UNCHANGED <<disk, handles, made>>

RegisterNew(r) ==
    /\ Loaded(r, {"register"})
    /\ Mine(r) = {}
    /\ \E i \in Ids \ made :
          /\ made' = made \cup {i}
          /\ Enter(i, req[r].path)
          /\ Becomes(r, [req[r] EXCEPT !.at = "each",
                           !.entries = Append(@, [id |-> i, path |-> req[r].path, name |-> FirstName])])
    /\ UNCHANGED <<disk, handles, promised>>

(***************************************************************************)
(* update_workspace_settings                                               *)
(***************************************************************************)
Configure(r) ==
    /\ Loaded(r, {"configure"})
    /\ Mine(r) # {}
    /\ Becomes(r, [req[r] EXCEPT !.at = "each",
                     !.entries = [k \in DOMAIN @ |-> IF @[k].path = req[r].path
                                                       THEN [@[k] EXCEPT !.name = req[r].value]
                                                       ELSE @[k]]])
    /\ UNCHANGED <<disk, registry, handles, made, promised>>

NotFound(r) ==
    /\ Loaded(r, {"configure", "remove"})
    /\ Mine(r) = {}
    /\ Finish(r, FALSE)
    /\ UNCHANGED <<disk, registry, handles, made>>

(***************************************************************************)
(* remove_workspace.  The registry keeps the id, and its sessions go on.   *)
(***************************************************************************)
RemoveDir(r) ==
    /\ Loaded(r, {"remove"})
    /\ \E e \in Mine(r) : disk' \in {[disk EXCEPT ![e.id] = None], disk}
    /\ Finish(r, TRUE)
    /\ UNCHANGED <<registry, handles, made>>

(***************************************************************************)
(* save_workspaces: every file is read for its sessions and written, and   *)
(* the first write that fails ends the request.                            *)
(***************************************************************************)
(* Mutant: the sessions in the file are not kept. *)
ReadAgentsNot(r) ==
    /\ At(r, "each")
    /\ Becomes(r, [req[r] EXCEPT !.at = "write", !.found = NoSessions])
    /\ UNCHANGED <<disk, registry, handles, made, promised>>

ReadAgents(r) ==
    /\ At(r, "each")
    /\ Becomes(r, [req[r] EXCEPT !.at = "write", !.found = FoundIn(Head(req[r].entries).id)])
    /\ UNCHANGED <<disk, registry, handles, made, promised>>

(* Mutant: the loop goes on after the last entry. *)
WriteEntryPastEnd(r) ==
    /\ At(r, "write")
    /\ LET e == Head(req[r].entries)
       IN  disk' = [disk EXCEPT ![e.id] = [path |-> e.path, name |-> e.name,
                                           agents |-> Entries(req[r].found)]]
    /\ Becomes(r, [req[r] EXCEPT !.at = "each", !.entries = Tail(@), !.found = NoSessions])
    /\ UNCHANGED <<registry, handles, made, promised>>

WriteEntry(r) ==
    /\ At(r, "write")
    /\ LET e == Head(req[r].entries)
       IN  disk' = [disk EXCEPT ![e.id] = [path |-> e.path, name |-> e.name,
                                           agents |-> Entries(req[r].found)]]
    /\ \/ /\ Len(req[r].entries) > 1
          /\ Becomes(r, [req[r] EXCEPT !.at = "each", !.entries = Tail(@), !.found = NoSessions])
          /\ UNCHANGED promised
       \/ /\ Len(req[r].entries) = 1
          /\ Finish(r, TRUE)
    /\ UNCHANGED <<registry, handles, made>>

(* Mutant: the error is swallowed and the request answered. *)
WriteFailsQuietly(r) ==
    /\ At(r, "write")
    /\ Finish(r, TRUE)
    /\ UNCHANGED <<disk, registry, handles, made>>

WriteFails(r) ==
    /\ At(r, "write")
    /\ Finish(r, FALSE)
    /\ UNCHANGED <<disk, registry, handles, made>>

(***************************************************************************)
(* create_session: an id of the path, or a new one, is entered in the      *)
(* registry, and the session is started.                                   *)
(***************************************************************************)
Find(r) ==
    /\ At(r, "find")
    /\ LET known == FindByPath(req[r].path)
       IN  \E i \in IF known = {} THEN Ids \ made ELSE known :
              /\ made' = made \cup {i}
              /\ Becomes(r, [req[r] EXCEPT !.at = "enroll", !.id = i])
    /\ UNCHANGED <<disk, registry, handles, promised>>

Enroll(r) ==
    /\ At(r, "enroll")
    /\ Enter(req[r].id, req[r].path)
    /\ Goto(r, "start")
    /\ UNCHANGED <<disk, handles, made, promised>>

Start(r) ==
    /\ At(r, "start")
    /\ handles' = [handles EXCEPT ![req[r].session] =
                     [path |-> req[r].path, label |-> FirstLabel, active |-> TRUE]]
    /\ Goto(r, "collect")
    /\ UNCHANGED <<disk, registry, made, promised>>

StartFails(r) ==
    /\ At(r, "start")
    /\ Finish(r, FALSE)
    /\ UNCHANGED <<disk, registry, handles, made>>

(***************************************************************************)
(* stop_session, rename_session and update_session_settings.               *)
(***************************************************************************)
Stop(r) ==
    /\ At(r, "stop")
    /\ handles' = [handles EXCEPT ![req[r].session].active = FALSE]
    /\ Goto(r, "collect")
    /\ UNCHANGED <<disk, registry, made, promised>>

Label(r) ==
    /\ At(r, "label")
    /\ handles' = [handles EXCEPT ![req[r].session].label = req[r].value]
    /\ Goto(r, "collect")
    /\ UNCHANGED <<disk, registry, made, promised>>

(***************************************************************************)
(* persist_workspace_agents_snapshot collects the active sessions of the   *)
(* workspace; save_workspace_agents loads the workspaces to find the file  *)
(* of the path, or makes a new id, and writes.                             *)
(***************************************************************************)
Collect(r) ==
    /\ At(r, "collect")
    /\ LET p == req[r].path
       IN  Becomes(r, [req[r] EXCEPT !.at = "list", !.found =
                         [s \in Sessions |-> IF IsActive(s) /\ handles[s].path = p
                                               THEN [path |-> p, label |-> handles[s].label] ELSE None]])
    /\ UNCHANGED <<disk, registry, handles, made, promised>>

Saves == {"create", "stop", "label"}

SaveAgents(r) ==
    /\ Loaded(r, Saves)
    /\ \/ \E e \in Mine(r) :
             /\ disk' = [disk EXCEPT ![e.id] = [path |-> e.path, name |-> e.name,
                                                agents |-> Entries(req[r].found)]]
             /\ UNCHANGED made
       \/ /\ Mine(r) = {}
          /\ \E i \in Ids \ made :
                /\ made' = made \cup {i}
                /\ disk' = [disk EXCEPT ![i] = [path |-> req[r].path, name |-> FirstName,
                                                agents |-> Entries(req[r].found)]]
    /\ Finish(r, TRUE)
    /\ UNCHANGED <<registry, handles>>

SaveFails(r) ==
    /\ Loaded(r, Saves)
    /\ Finish(r, FALSE)
    /\ UNCHANGED <<disk, registry, handles, made>>

(***************************************************************************)
(* bootstrap: the saved sessions of every workspace that was loaded, each  *)
(* found by a scan of its own, and then ensure_persisted_handles, which    *)
(* looks at a handle and replaces it under two locks.                      *)
(***************************************************************************)
Scan(r) ==
    /\ Loaded(r, {"bootstrap"})
    /\ req[r].entries # <<>>
    /\ LET p == Head(req[r].entries).path
           Merge(found) == [s \in Sessions |-> IF found[s] = None THEN req[r].found[s] ELSE found[s]]
       IN  \E found \in IF Files(p) = {} THEN {NoSessions} ELSE {FoundIn(i) : i \in Files(p)} :
              Becomes(r, [req[r] EXCEPT !.entries = Tail(@), !.found = Merge(found)])
    /\ UNCHANGED <<disk, registry, handles, made, promised>>

Check(r) ==
    /\ Loaded(r, {"bootstrap"})
    /\ req[r].entries = <<>>
    /\ \E s \in Sessions :
          /\ req[r].found[s] # None
          /\ IF IsActive(s)
               THEN Becomes(r, [req[r] EXCEPT !.found[s] = None])
               ELSE Becomes(r, [req[r] EXCEPT !.at = "insert", !.session = s])
    /\ UNCHANGED <<disk, registry, handles, made, promised>>

Insert(r) ==
    /\ At(r, "insert")
    /\ LET s == req[r].session
       IN  /\ handles' = [handles EXCEPT ![s] =
                            [path |-> req[r].found[s].path, label |-> req[r].found[s].label,
                             active |-> TRUE]]
           /\ Becomes(r, [req[r] EXCEPT !.at = "read", !.session = None, !.found[s] = None])
    /\ UNCHANGED <<disk, registry, made, promised>>

Bootstrapped(r) ==
    /\ Loaded(r, {"bootstrap"})
    /\ req[r].entries = <<>> /\ req[r].found = NoSessions
    /\ Finish(r, TRUE)
    /\ UNCHANGED <<disk, registry, handles, made>>

(***************************************************************************)
(* A process ends on its own: its session is no longer active.             *)
(***************************************************************************)
Exit ==
    /\ \E s \in Sessions : IsActive(s) /\ handles' = [handles EXCEPT ![s].active = FALSE]
    /\ UNCHANGED <<disk, registry, made, req, promised>>

(***************************************************************************)
(* The daemon dies between any two steps and is started: AppState::new     *)
(* loads the workspaces and their sessions, and writes back what it read.  *)
(***************************************************************************)
Restart ==
    /\ \E first \in [Paths -> Ids \cup {None}] :
          /\ \A p \in Paths : first[p] \in IF Files(p) = {} THEN {None} ELSE Files(p)
          /\ registry' = [i \in Ids |-> IF i \in Range(first) THEN Canonical[disk[i].path] ELSE None]
          /\ handles' = [s \in Sessions |->
                LET in == {p \in Paths : first[p] # None /\ disk[first[p]].agents[s] # None}
                IN  IF in = {} THEN None
                    ELSE LET p == CHOOSE q \in in : TRUE
                         IN  [path |-> p, label |-> disk[first[p]].agents[s], active |-> TRUE]]
    /\ req' = [r \in Requests |-> Idle]
    /\ UNCHANGED <<disk, made, promised>>

Handles(r) ==
    \/ BeginRegister(r) \/ BeginConfigure(r) \/ BeginRemove(r) \/ BeginCreate(r)
    \/ BeginStop(r) \/ BeginLabel(r) \/ BeginBootstrap(r)
    \/ List(r) \/ Read(r)
    \/ RegisterKnown(r) \/ RegisterNew(r) \/ Configure(r) \/ NotFound(r) \/ RemoveDir(r)
    \/ ReadAgents(r) \/ WriteEntry(r) \/ WriteFails(r)
    \/ Find(r) \/ Enroll(r) \/ Start(r) \/ StartFails(r) \/ Stop(r) \/ Label(r)
    \/ Collect(r) \/ SaveAgents(r) \/ SaveFails(r)
    \/ Scan(r) \/ Check(r) \/ Insert(r) \/ Bootstrapped(r)

Next == Exit \/ Restart \/ \E r \in Requests : Handles(r)

Spec == Init /\ [][Next]_vars
-----------------------------------------------------------------------------
(***************************************************************************)
(* Every variable has its type, and a handler that writes has an entry to  *)
(* write.                                                                  *)
(***************************************************************************)
RequestType ==
    [at : Steps, kind : Kinds, path : Paths \cup {None}, session : Sessions \cup {None},
     id : Ids \cup {None}, value : Names \cup Labels \cup {None}, unread : SUBSET Ids,
     entries : Seq(WorkspaceEntry), found : [Sessions -> Found \cup {None}], undone : BOOLEAN]

TypeOK ==
    /\ disk \in [Ids -> Persistence \cup {None}]
    /\ registry \in [Ids -> Paths \cup {None}]
    /\ handles \in [Sessions -> Handle \cup {None}]
    /\ made \subseteq Ids
    /\ req \in [Requests -> RequestType]
    /\ promised \subseteq Paths
    /\ \A r \in Requests : At(r, "each") \/ At(r, "write") => req[r].entries # <<>>

(***************************************************************************)
(* A workspace that a client was told is registered, or a session's        *)
(* workspace that was saved, stays saved unless a removal of that path     *)
(* overlapped or came after: no other handler, failing write, second file  *)
(* of the path or restart loses it (register, save_workspaces,             *)
(* save_workspace_agents, remove_workspace).                               *)
(***************************************************************************)
RegistrationSurvives == \A p \in promised : Files(p) # {}

(***************************************************************************)
(* An id that is both registered and saved means one workspace: files are  *)
(* never served from the directory of another one (register,               *)
(* create_session, save_workspace_agents make their ids independently).    *)
(***************************************************************************)
RegistryAgreesWithDisk ==
    \A i \in Ids : registry[i] # None /\ disk[i] # None =>
        registry[i] \in {disk[i].path, Canonical[disk[i].path]}

(***************************************************************************)
(* A session is only saved in files of the workspace it was started in,    *)
(* however stale the lists are that handlers write back; a restart would   *)
(* else resume it in another directory.                                    *)
(***************************************************************************)
SessionsStayHome ==
    \A s \in Sessions : \A i, j \in Ids :
        /\ FoundIn(i)[s] # None /\ FoundIn(j)[s] # None => disk[i].path = disk[j].path
        /\ FoundIn(i)[s] # None /\ handles[s] # None => disk[i].path = handles[s].path

(* The record that the files of a path, and a save under way, stand for. *)
TheFile(p) == CHOOSE i \in Files(p) : TRUE
StoreOf(p) == IF Files(p) = {} THEN None
              ELSE [name |-> disk[TheFile(p)].name, agents |-> disk[TheFile(p)].agents]
Saving == {r \in Requests : req[r].at \in {"list", "read"} /\ req[r].kind \in Saves}
TakenBy == IF Saving = {} THEN None
           ELSE LET r == CHOOSE q \in Saving : TRUE
                IN  [path |-> req[r].path, agents |-> Entries(req[r].found)]

Abstract == INSTANCE Workspaces WITH store <- [p \in Paths |-> StoreOf(p)], taken <- TakenBy

(***************************************************************************)
(* As long as requests do not overlap, the files are one record per        *)
(* workspace that every request changes in one step: also when writes fail *)
(* half-way, processes exit meanwhile and the daemon is restarted anywhere *)
(* (save_workspaces, save_workspace_agents).                               *)
(***************************************************************************)
ImplementsWorkspaces == Abstract!Spec
=============================================================================

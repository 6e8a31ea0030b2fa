------------------------- MODULE WorkspaceStoreProofs -------------------------
(***************************************************************************)
(* The safety properties of WorkspaceStore for any number of handlers,     *)
(* paths, sessions and ids.  Nothing but what the handlers remember        *)
(* orders them, so the invariant is about what is remembered: an id has    *)
(* one path for life (OnePath), in files and in lists however stale, and a *)
(* session one home (OneHome), in files, handles and copies of them; and a *)
(* request that overlaps a removal of its path knows so (Warned).          *)
(***************************************************************************)
EXTENDS WorkspaceStore, SequenceTheorems, TLAPS

\* The path that a list of a handler, and that anything, has for an id.
Has(s, i, p) == \E k \in DOMAIN s : s[k].id = i /\ s[k].path = p

Filed(i, p) ==
    \/ disk[i] # None /\ disk[i].path = p
    \/ \E r \in Requests : Has(req[r].entries, i, p)

OnePath == \A i \in Ids : \A p, q \in Paths : Filed(i, p) /\ Filed(i, q) => p = q

\* A directory as it is spelled in a file, or as the registry keeps it.
Spells(x, p) == x \in {p, Canonical[p]}

Enrolled ==
    \A i \in Ids : \A p \in Paths : Filed(i, p) =>
        /\ registry[i] # None => Spells(registry[i], p)
        /\ \A r \in Requests : At(r, "enroll") /\ req[r].id = i => Spells(req[r].path, p)

\* Ids that are in use were generated.
Generated ==
    /\ \A i \in Ids : \A p \in Paths : Filed(i, p) => i \in made
    /\ \A i \in Ids : registry[i] # None => i \in made
    /\ \A r \in Requests : At(r, "enroll") => req[r].id \in made

Creating(q) == q.at \in {"find", "enroll", "start"}

\* The path of a session as a file, its handle, a copy of either, or the
\* request that is to start it has it.
Lives(s, p) ==
    \/ \E i \in Ids : disk[i] # None /\ disk[i].agents[s] # None /\ disk[i].path = p
    \/ handles[s] # None /\ handles[s].path = p
    \/ \E r \in Requests :
          \/ req[r].found[s] # None /\ req[r].found[s].path = p
          \/ Creating(req[r]) /\ req[r].session = s /\ req[r].path = p

OneHome == \A s \in Sessions : \A p, q \in Paths : Lives(s, p) /\ Lives(s, q) => p = q

\* What a handler works on, wherever it is.
Shape(q) ==
    /\ q.at = "idle" => q = Idle
    /\ q.at # "idle" /\ q.kind # "bootstrap" => q.path \in Paths
    /\ Creating(q) => q.kind = "create" /\ q.session \in Sessions
    /\ q.at = "enroll" => q.id \in Ids
    /\ q.at \in {"stop", "label"} => q.session \in Sessions /\ q.kind = q.at
    /\ q.at = "label" => q.value \in Labels
    /\ q.at = "collect" => q.kind \in Saves
    /\ q.at = "insert" => q.kind = "bootstrap" /\ q.session \in Sessions /\ q.found[q.session] # None
    /\ q.at \in {"each", "write"} => q.kind \in {"register", "configure"} /\ q.entries # <<>>
    /\ q.kind = "configure" => q.value \in Names

\* A snapshot is of the workspace that it is saved with, and what is read of a
\* file of the entry that is written.
Goes(q) ==
    /\ q.at \in {"list", "read"} /\ q.kind \in Saves =>
          \A s \in Sessions : q.found[s] # None => q.found[s].path = q.path
    /\ q.at = "write" =>
          \A s \in Sessions : q.found[s] # None => q.found[s].path = Head(q.entries).path

Own(q) == \E i \in Ids : Has(q.entries, i, q.path)

\* Unless the path was removed meanwhile, the file that was found is still
\* there, and the last one to write is not forgotten.
Kept(q) ==
    /\ q.at = "read" /\ q.kind \in {"register", "configure"} /\ ~q.undone /\ Own(q) => Files(q.path) # {}
    /\ q.at \in {"each", "write"} /\ ~q.undone => Own(q) \/ Files(q.path) # {}

Fits(q) == Shape(q) /\ Goes(q) /\ Kept(q)

Present == \A r \in Requests : req[r].at \in {"stop", "label"} => handles[req[r].session] # None

\* A removal takes back what was promised, and warns everybody else.
Warned ==
    \A q \in Requests : req[q].kind = "remove" =>
        /\ req[q].path \notin promised
        /\ \A r \in Requests : req[r].path = req[q].path /\ req[r].kind # "remove" => req[r].undone

IInv ==
    /\ TypeOK
    /\ \A r \in Requests : Fits(req[r])
    /\ OnePath /\ Enrolled /\ Generated
    /\ OneHome /\ Present
    /\ Warned /\ RegistrationSurvives
-----------------------------------------------------------------------------
(***************************************************************************)
(* Lists of entries.                                                       *)
(***************************************************************************)
LEMMA HeadAndTail ==
  ASSUME NEW s \in Seq(WorkspaceEntry), s # <<>>
  PROVE  /\ Head(s) \in WorkspaceEntry /\ Tail(s) \in Seq(WorkspaceEntry)
         /\ Has(s, Head(s).id, Head(s).path)
         /\ \A i, p : Has(s, i, p) <=> (Head(s).id = i /\ Head(s).path = p) \/ Has(Tail(s), i, p)
<1>1. /\ Head(s) \in WorkspaceEntry /\ Tail(s) \in Seq(WorkspaceEntry)
      /\ Len(Tail(s)) = Len(s) - 1 /\ \A k \in 1 .. Len(Tail(s)) : Tail(s)[k] = s[k + 1]
  BY HeadTailProperties
<1>2. /\ Len(s) \in Nat \ {0} /\ DOMAIN s = 1 .. Len(s) /\ DOMAIN Tail(s) = 1 .. (Len(s) - 1)
      /\ Head(s) = s[1]
  BY <1>1, EmptySeq, LenProperties
<1>3. ASSUME NEW i, NEW p, Has(s, i, p)
      PROVE  (Head(s).id = i /\ Head(s).path = p) \/ Has(Tail(s), i, p)
  <2>1. PICK k \in 1 .. Len(s) : s[k].id = i /\ s[k].path = p
    BY <1>2, <1>3 DEF Has
  <2>2. CASE k = 1
    BY <1>2, <2>1, <2>2
  <2>3. CASE k # 1
    <3>1. k - 1 \in 1 .. (Len(s) - 1) /\ Tail(s)[k - 1] = s[k]
      BY <1>1, <1>2, <2>3
    <3> QED
      BY <1>2, <2>1, <3>1 DEF Has
  <2> QED
    BY <2>2, <2>3
<1>4. ASSUME NEW i, NEW p, Has(Tail(s), i, p)
      PROVE  Has(s, i, p)
  <2>1. PICK k \in 1 .. (Len(s) - 1) : Tail(s)[k].id = i /\ Tail(s)[k].path = p
    BY <1>2, <1>4 DEF Has
  <2>2. k + 1 \in 1 .. Len(s) /\ Tail(s)[k] = s[k + 1]
    BY <1>1, <1>2
  <2> QED
    BY <1>2, <2>1, <2>2 DEF Has
<1>5. Has(s, Head(s).id, Head(s).path)
  BY <1>2 DEF Has
<1>6. ASSUME NEW i, NEW p
      PROVE  Has(s, i, p) <=> (Head(s).id = i /\ Head(s).path = p) \/ Has(Tail(s), i, p)
  BY <1>3, <1>4, <1>5
<1> QED
  BY <1>1, <1>5, <1>6

LEMMA OneMoreEntry ==
  ASSUME NEW s \in Seq(WorkspaceEntry), NEW e \in WorkspaceEntry
  PROVE  /\ Append(s, e) = s \o <<e>> /\ Append(s, e) \in Seq(WorkspaceEntry) /\ Append(s, e) # <<>>
         /\ \A i, p : Has(Append(s, e), i, p) <=> Has(s, i, p) \/ (e.id = i /\ e.path = p)
<1>1. /\ Append(s, e) \in Seq(WorkspaceEntry) /\ Len(Append(s, e)) = Len(s) + 1
      /\ \A k \in 1 .. (Len(s) + 1) : Append(s, e)[k] = IF k = Len(s) + 1 THEN e ELSE s[k]
      /\ Append(s, e) = s \o <<e>>
  BY AppendProperties, AppendIsConcat
<1>2. Len(s) \in Nat /\ DOMAIN s = 1 .. Len(s) /\ DOMAIN Append(s, e) = 1 .. (Len(s) + 1)
  BY <1>1, LenProperties
<1>3. ASSUME NEW i, NEW p, Has(Append(s, e), i, p)
      PROVE  Has(s, i, p) \/ (e.id = i /\ e.path = p)
  BY <1>1, <1>2, <1>3 DEF Has
<1>4. ASSUME NEW i, NEW p, Has(s, i, p)
      PROVE  Has(Append(s, e), i, p)
  <2>1. PICK k \in 1 .. Len(s) : s[k].id = i /\ s[k].path = p
    BY <1>2, <1>4 DEF Has
  <2>2. k \in 1 .. (Len(s) + 1) /\ k # Len(s) + 1
    BY <1>2, <2>1
  <2> QED
    BY <1>1, <1>2, <2>1, <2>2 DEF Has
<1>5. Has(Append(s, e), e.id, e.path)
  <2>1. Len(s) + 1 \in DOMAIN Append(s, e) /\ Append(s, e)[Len(s) + 1] = e
    BY <1>1, <1>2
  <2> QED
    BY <2>1 DEF Has
<1>6. Append(s, e) # <<>>
  BY <1>1, <1>2, EmptySeq
<1> QED
  BY <1>1, <1>3, <1>4, <1>5, <1>6

LEMMA NoEntries == ~ \E i, p : Has(<<>>, i, p)
  BY DEF Has
-----------------------------------------------------------------------------
(***************************************************************************)
(* What keeps each part of the invariant.                                  *)
(***************************************************************************)
\* Nobody but r, if anybody, makes a step.
Only(r) ==
    /\ req' \in [Requests -> RequestType]
    /\ \A q \in Requests : q # r => req'[q] = req[q]

\* A path keeps a file, or all who would count on it are warned.
FilesStay ==
    \A p \in Paths : Files(p) # {} =>
        \/ Files(p)' # {}
        \/ \A q \in Requests : req[q].path = p /\ req[q].kind # "remove" => req[q].undone

LEMMA OthersFit ==
  ASSUME IInv, NEW r \in Requests, Only(r), Fits(req[r])', FilesStay
  PROVE  \A q \in Requests : Fits(req[q])'
<1> SUFFICES ASSUME NEW q \in Requests, q # r PROVE Fits(req[q])'
  OBVIOUS
<1>1. req'[q] = req[q] /\ req[q] \in RequestType /\ Fits(req[q])
  BY DEF IInv, TypeOK, Only
<1>2. Shape(req[q])' /\ Goes(req[q])'
  BY <1>1 DEF Fits, Shape, Goes, Creating, Idle
<1>3. Kept(req[q])'
  <2>1. req[q].kind \in {"register", "configure"} /\ req[q].at # "idle" => req[q].path \in Paths
    BY <1>1 DEF Fits, Shape
  <2>2. req[q].at \in {"each", "write"} => req[q].kind \in {"register", "configure"}
    BY <1>1 DEF Fits, Shape
  <2> QED
    BY <1>1, <2>1, <2>2 DEF Fits, Kept, Own, FilesStay
<1> QED
  BY <1>2, <1>3 DEF Fits

\* No id gets another path; at most a new one gets the path r works on.
Lists(r) ==
    \A i \in Ids : \A p \in Paths :
        Filed(i, p)' => Filed(i, p) \/ (i \in made' \ made /\ p = req[r].path)

LEMMA PathsStay ==
  ASSUME IInv, NEW r \in Requests, Only(r), Lists(r), made \subseteq made',
         \A i \in Ids : registry'[i] # registry[i] =>
            i \in made' /\ \A p \in Paths : Filed(i, p)' => Spells(registry'[i], p),
         At(r, "enroll")' => /\ req'[r].id \in made'
                             /\ \A p \in Paths : Filed(req[r].id, p)' => Spells(req'[r].path, p)
  PROVE  (OnePath /\ Enrolled /\ Generated)'
<1>1. OnePath'
  <2> SUFFICES ASSUME NEW i \in Ids, NEW p \in Paths, NEW q \in Paths, Filed(i, p)', Filed(i, q)'
               PROVE  p = q
    BY DEF OnePath
  <2>1. CASE i \in made
    BY <2>1 DEF IInv, OnePath, Lists
  <2>2. CASE i \notin made
    BY <2>2 DEF IInv, Generated, Lists
  <2> QED
    BY <2>1, <2>2
<1>2. \A q \in Requests : q # r /\ At(q, "enroll")' => At(q, "enroll") /\ req'[q] = req[q]
  BY DEF Only, At
<1>3. Enrolled'
  <2> SUFFICES ASSUME NEW i \in Ids, NEW p \in Paths, Filed(i, p)'
               PROVE  /\ registry'[i] # None => Spells(registry'[i], p)
                      /\ \A q \in Requests : At(q, "enroll")' /\ req'[q].id = i => Spells(req'[q].path, p)
    BY DEF Enrolled, Spells
  <2>1. Filed(i, p) \/ i \notin made
    BY DEF Lists
  <2>2. registry'[i] # None => Spells(registry'[i], p)
    BY <2>1 DEF IInv, Enrolled, Generated
  <2>3. ASSUME NEW q \in Requests, At(q, "enroll")', req'[q].id = i
        PROVE  Spells(req'[q].path, p)
    BY <1>2, <2>1, <2>3 DEF IInv, Enrolled, Generated
  <2> QED
    BY <2>2, <2>3
<1>4. Generated'
  <2>1. \A i \in Ids : \A p \in Paths : Filed(i, p)' => i \in made'
    BY DEF IInv, Generated, Lists
  <2>2. \A i \in Ids : registry'[i] # None => i \in made'
    BY DEF IInv, Generated
  <2>3. \A q \in Requests : At(q, "enroll")' => req'[q].id \in made'
    BY <1>2 DEF IInv, Generated
  <2> QED
    BY <2>1, <2>2, <2>3 DEF Generated
<1> QED
  BY <1>1, <1>3, <1>4

\* No session gets another home.
Homes == \A s \in Sessions : \A p \in Paths : Lives(s, p)' => Lives(s, p)

LEMMA HomesStay == ASSUME IInv, Homes PROVE OneHome'
  BY DEF IInv, OneHome, Homes

\* The copies that the requests have of sessions, and the one to be started.
Copied(s, p) ==
    \E r \in Requests :
        \/ req[r].found[s] # None /\ req[r].found[s].path = p
        \/ Creating(req[r]) /\ req[r].session = s /\ req[r].path = p

LEMMA CopiesAreHome ==
  ASSUME NEW r \in Requests, Only(r),
         \A s \in Sessions : req'[r].found[s] # None => Lives(s, req'[r].found[s].path),
         Creating(req[r])' => Lives(req'[r].session, req'[r].path)
  PROVE  \A s \in Sessions : \A p \in Paths : Copied(s, p)' => Lives(s, p)
<1> SUFFICES ASSUME NEW s \in Sessions, NEW p \in Paths, Copied(s, p)' PROVE Lives(s, p)
  OBVIOUS
<1>1. PICK q \in Requests : \/ req'[q].found[s] # None /\ req'[q].found[s].path = p
                            \/ Creating(req[q])' /\ req'[q].session = s /\ req'[q].path = p
  BY DEF Copied
<1>2. CASE q = r
  BY <1>1, <1>2
<1>3. CASE q # r
  BY <1>1, <1>3 DEF Only, Lives, Creating
<1> QED
  BY <1>2, <1>3

\* A handler that goes on with the same request.
Same(r) == req'[r].kind = req[r].kind /\ req'[r].path = req[r].path /\ req'[r].undone = req[r].undone

LEMMA SameIsWarned ==
  ASSUME IInv, NEW r \in Requests, Only(r), Same(r), promised' = promised
  PROVE  Warned'
<1>1. \A q \in Requests : /\ req'[q].kind = req[q].kind /\ req'[q].path = req[q].path
                          /\ req'[q].undone = req[q].undone
  BY DEF Only, Same
<1> QED
  BY <1>1 DEF IInv, Warned

\* What every step of one handler has to show.
Typed ==
    /\ disk' \in [Ids -> Persistence \cup {None}]
    /\ registry' \in [Ids -> Paths \cup {None}]
    /\ handles' \in [Sessions -> Handle \cup {None}]
    /\ made \subseteq made' /\ made' \subseteq Ids
    /\ promised' \subseteq Paths

LEMMA StepKeeps ==
  ASSUME IInv, NEW r \in Requests, Only(r), Typed, FilesStay, Lists(r),
         Fits(req[r])', OneHome', Warned', RegistrationSurvives',
         \A i \in Ids : registry'[i] # registry[i] =>
            i \in made' /\ \A p \in Paths : Filed(i, p)' => Spells(registry'[i], p),
         At(r, "enroll")' => /\ req'[r].id \in made'
                             /\ \A p \in Paths : Filed(req[r].id, p)' => Spells(req'[r].path, p),
         \A s \in Sessions : handles[s] # None => handles'[s] # None,
         req'[r].at \in {"stop", "label"} => handles'[req'[r].session] # None
  PROVE  IInv'
<1>1. (\A q \in Requests : Fits(req[q]))'
  BY OthersFit
<1>2. TypeOK'
  BY <1>1 DEF IInv, TypeOK, Typed, Only, At, Fits, Shape
<1>3. (OnePath /\ Enrolled /\ Generated)'
  BY PathsStay DEF Typed
<1>4. Present'
  <2> SUFFICES ASSUME NEW q \in Requests, q # r, req'[q].at \in {"stop", "label"}
               PROVE  handles'[req'[q].session] # None
    BY DEF Present
  <2>1. req'[q] = req[q] /\ req[q].session \in Sessions /\ handles[req[q].session] # None
    BY DEF IInv, Present, Only, Fits, Shape
  <2> QED
    BY <2>1
<1> QED
  BY <1>1, <1>2, <1>3, <1>4 DEF IInv

LEMMA Becoming ==
  ASSUME IInv, NEW r \in Requests, NEW new \in RequestType, Becomes(r, new)
  PROVE  Only(r) /\ req'[r] = new
  BY DEF Becomes, Only, IInv, TypeOK

\* A step that changes nothing but what one handler remembers.
LEMMA MoveKeeps ==
  ASSUME IInv, NEW r \in Requests, Only(r), UNCHANGED <<disk, registry, handles, promised>>,
         made \subseteq made', made' \subseteq Ids,
         Fits(req[r])', OneHome', Warned',
         \A i \in Ids : \A p \in Paths : Has(req'[r].entries, i, p) =>
            Filed(i, p) \/ (i \in made' \ made /\ p = req[r].path),
         At(r, "enroll")' => /\ req'[r].id \in made'
                             /\ \A p \in Paths : Filed(req[r].id, p)' => Spells(req'[r].path, p),
         req'[r].at \in {"stop", "label"} => handles[req'[r].session] # None
  PROVE  IInv'
<1>1. FilesStay /\ RegistrationSurvives' /\ Typed
  BY DEF IInv, FilesStay, Files, RegistrationSurvives, Typed, TypeOK
<1>2. Lists(r)
  <2> SUFFICES ASSUME NEW i \in Ids, NEW p \in Paths, NEW q \in Requests, Has(req'[q].entries, i, p)
               PROVE  Filed(i, p) \/ (i \in made' \ made /\ p = req[r].path)
    BY DEF Lists, Filed
  <2> QED
    BY DEF Only, Filed
<1> QED
  BY <1>1, <1>2, StepKeeps

\* The response, after whatever the last step did.
LEMMA FinishKeeps ==
  ASSUME IInv, NEW r \in Requests, NEW ok \in BOOLEAN, Finish(r, ok),
         ok /\ ~req[r].undone /\ req[r].kind \notin {"remove", "bootstrap"} =>
            \A p \in Paths : p = req[r].path => Files(p)' # {},
         ok => req[r].at # "idle",
         \A p \in promised : Files(p)' # {}
  PROVE  /\ Only(r) /\ Fits(req[r])' /\ promised' \subseteq Paths
         /\ Warned' /\ RegistrationSurvives' /\ req'[r] = Idle
<1>1. req[r] \in RequestType /\ Fits(req[r]) /\ promised \subseteq Paths
  BY DEF IInv, TypeOK
<1>2. Idle \in RequestType
  BY DEF Idle, RequestType, Steps, Kinds, NoSessions
<1>3. Only(r) /\ req'[r] = Idle
  BY <1>2 DEF Only, Finish, Becomes, IInv, TypeOK
<1>4. Fits(req[r])'
  BY <1>3 DEF Fits, Shape, Goes, Kept, Idle, Creating
<1>5. promised' \subseteq promised \cup {req[r].path} /\ promised' \subseteq Paths
  BY <1>1 DEF Finish, Fits, Shape
<1>6. promised' # promised => ok /\ ~req[r].undone /\ req[r].kind \notin {"remove", "bootstrap"}
  BY DEF Finish
<1>7. RegistrationSurvives'
  <2> SUFFICES ASSUME NEW p \in promised' PROVE Files(p)' # {}
    BY DEF RegistrationSurvives
  <2>1. CASE p \in promised
    BY <2>1
  <2>2. CASE p \notin promised
    BY <1>5, <1>6, <2>2
  <2> QED
    BY <2>1, <2>2
<1>8. Warned'
  <2> SUFFICES ASSUME NEW q \in Requests, req'[q].kind = "remove"
               PROVE  /\ req'[q].path \notin promised'
                      /\ \A x \in Requests : req'[x].path = req'[q].path /\ req'[x].kind # "remove" => req'[x].undone
    BY DEF Warned
  <2>1. q # r /\ req'[q] = req[q]
    BY <1>3 DEF Only, Idle
  <2>2. req[q].path \in Paths
    BY <2>1 DEF IInv, Fits, Shape, Idle
  <2>3. req[q].path \notin promised'
    BY <1>5, <1>6, <2>1 DEF IInv, Warned
  <2>4. \A x \in Requests : req'[x].path = req'[q].path => x # r /\ req'[x] = req[x]
    BY <1>3, <2>1, <2>2, NoneAssumption DEF Only, Idle
  <2> QED
    BY <2>1, <2>3, <2>4 DEF IInv, Warned
<1> QED
  BY <1>3, <1>4, <1>5, <1>7, <1>8

\* A step that ends a request and moves no file.
LEMMA QuitKeeps ==
  ASSUME IInv, NEW r \in Requests, NEW ok \in BOOLEAN, Finish(r, ok),
         UNCHANGED <<disk, handles, made>>, registry' \in [Ids -> Paths \cup {None}],
         ok /\ ~req[r].undone /\ req[r].kind \notin {"remove", "bootstrap"} => Files(req[r].path) # {},
         ok => req[r].at # "idle",
         \A i \in Ids : registry'[i] # registry[i] =>
            i \in made /\ \A p \in Paths : Filed(i, p) => Spells(registry'[i], p)
  PROVE  IInv'
<1>1. \A p : Files(p)' = Files(p)
  BY DEF Files
<1>2. \A p \in promised : Files(p)' # {}
  BY <1>1 DEF IInv, RegistrationSurvives
<1>3. /\ Only(r) /\ Fits(req[r])' /\ promised' \subseteq Paths
      /\ Warned' /\ RegistrationSurvives' /\ req'[r] = Idle
  BY <1>1, <1>2, FinishKeeps
<1>4. \A i \in Ids : \A p \in Paths : Filed(i, p)' => Filed(i, p)
  BY <1>3 DEF Filed, Only, Idle, Has
<1>5. Lists(r) /\ FilesStay /\ Typed
  BY <1>1, <1>3, <1>4 DEF Lists, FilesStay, Typed, IInv, TypeOK
<1>6. \A s \in Sessions : \A p \in Paths : Copied(s, p)' => Lives(s, p)
  BY <1>3, CopiesAreHome DEF Idle, NoSessions, Creating
<1>7. OneHome'
  BY <1>6, HomesStay DEF Homes, Lives, Copied
<1> QED
  BY <1>3, <1>4, <1>5, <1>7, StepKeeps DEF Idle, At
\* A file of path p that is written with the sessions r has.
Rewritten(r, i, p) ==
    \E n \in Names : disk' = [disk EXCEPT ![i] = [path |-> p, name |-> n, agents |-> Entries(req[r].found)]]

LEMMA RewrittenStays ==
  ASSUME IInv, NEW r \in Requests, NEW i \in Ids, NEW p \in Paths, Rewritten(r, i, p),
         handles' = handles, Only(r), Filed(i, p) \/ (i \in made' \ made /\ p = req[r].path),
         \A s \in Sessions : req[r].found[s] # None => req[r].found[s].path = p,
         req'[r].found = NoSessions, req'[r].at \in {"idle", "each"},
         \A j \in Ids : \A x \in Paths : Has(req'[r].entries, j, x) => Filed(j, x)
  PROVE  /\ disk' \in [Ids -> Persistence \cup {None}]
         /\ i \in Files(p)' /\ \A x \in Paths : Files(x) # {} => Files(x)' # {}
         /\ OneHome' /\ Lists(r)
<1>1. PICK n \in Names :
         disk' = [disk EXCEPT ![i] = [path |-> p, name |-> n, agents |-> Entries(req[r].found)]]
  BY DEF Rewritten
<1>2. req[r].found \in [Sessions -> Found \cup {None}] /\ disk \in [Ids -> Persistence \cup {None}]
  BY DEF IInv, TypeOK, RequestType
<1>3. Entries(req[r].found) \in Saved
  <2>1. \A s \in Sessions : req[r].found[s] # None => req[r].found[s].label \in Labels
    BY <1>2 DEF Found
  <2> QED
    BY <2>1 DEF Entries, Saved
<1>. DEFINE file == [path |-> p, name |-> n, agents |-> Entries(req[r].found)]
<1>4. file \in Persistence /\ file # None /\ file.path = p /\ file.agents = Entries(req[r].found)
  <2>1. file \in Persistence
    BY <1>3 DEF Persistence
  <2> QED
    BY <2>1, NoneAssumption
<1>5. disk' \in [Ids -> Persistence \cup {None}] /\ disk'[i] = file /\ \A j \in Ids : j # i => disk'[j] = disk[j]
  BY <1>1, <1>2, <1>4
<1>. HIDE DEF file
<1>6. disk[i] # None => disk[i].path = p
  <2> SUFFICES ASSUME disk[i] # None PROVE disk[i].path = p
    OBVIOUS
  <2>1. disk[i].path \in Paths /\ Filed(i, disk[i].path)
    BY <1>2 DEF Persistence, Filed
  <2>2. Filed(i, p)
    BY <2>1 DEF IInv, Generated
  <2> QED
    BY <2>1, <2>2 DEF IInv, OnePath
<1>7. i \in Files(p)' /\ \A x \in Paths : Files(x) # {} => Files(x)' # {}
  BY <1>4, <1>5, <1>6 DEF Files
<1>8. ASSUME NEW s \in Sessions, NEW x \in Paths, Lives(s, x)' PROVE Lives(s, x)
  <2>1. Copied(s, x)' => Lives(s, x)
    BY CopiesAreHome DEF NoSessions, Creating
  <2>2. ASSUME NEW j \in Ids, disk'[j] # None, disk'[j].agents[s] # None, disk'[j].path = x
        PROVE  Lives(s, x)
    <3>1. CASE j = i
      <4>1. req[r].found[s] # None /\ req[r].found[s].path = x
        BY <1>4, <1>5, <2>2, <3>1 DEF Entries
      <4> QED
        BY <4>1 DEF Lives
    <3>2. CASE j # i
      BY <1>5, <2>2, <3>2 DEF Lives
    <3> QED
      BY <3>1, <3>2
  <2> QED
    BY <1>8, <2>1, <2>2 DEF Lives, Copied
<1>9. OneHome'
  BY <1>8, HomesStay DEF Homes
<1>10. Lists(r)
  <2> SUFFICES ASSUME NEW j \in Ids, NEW x \in Paths, Filed(j, x)'
               PROVE  Filed(j, x) \/ (j \in made' \ made /\ x = req[r].path)
    BY DEF Lists
  <2>1. CASE disk'[j] # None /\ disk'[j].path = x
    BY <1>4, <1>5, <2>1 DEF Filed
  <2>2. CASE \E q \in Requests : Has(req'[q].entries, j, x)
    BY <2>2 DEF Filed, Only
  <2> QED
    BY <2>1, <2>2 DEF Filed
<1> QED
  BY <1>5, <1>7, <1>9, <1>10

-----------------------------------------------------------------------------
(***************************************************************************)
(* The start of a request, and its way to the files.                       *)
(***************************************************************************)
LEMMA IdleIsTyped == Idle \in RequestType
  BY DEF Idle, RequestType, Steps, Kinds, NoSessions

\* A request as it begins.
Asked(kind, step, p, s, v, late) ==
    [Idle EXCEPT !.at = step, !.kind = kind, !.path = p, !.session = s, !.value = v, !.undone = late]

LEMMA AskedIsTyped ==
  ASSUME NEW kind \in Kinds, NEW step \in Steps, NEW p \in Paths \cup {None},
         NEW s \in Sessions \cup {None}, NEW v \in Names \cup Labels \cup {None}, NEW late \in BOOLEAN
  PROVE  /\ Asked(kind, step, p, s, v, late) \in RequestType
         /\ Asked(kind, step, p, s, v, late).at = step
         /\ Asked(kind, step, p, s, v, late).kind = kind
         /\ Asked(kind, step, p, s, v, late).path = p
         /\ Asked(kind, step, p, s, v, late).session = s
         /\ Asked(kind, step, p, s, v, late).value = v
         /\ Asked(kind, step, p, s, v, late).undone = late
         /\ Asked(kind, step, p, s, v, late).entries = <<>>
         /\ Asked(kind, step, p, s, v, late).found = NoSessions
<1>1. Asked(kind, step, p, s, v, late) \in RequestType
  BY IdleIsTyped DEF Asked, RequestType
<1>2. /\ Asked(kind, step, p, s, v, late).entries = <<>>
      /\ Asked(kind, step, p, s, v, late).found = NoSessions
  BY DEF Asked, Idle
<1> QED
  BY <1>1, <1>2, IdleIsTyped DEF Asked, RequestType

LEMMA BeginKeeps ==
  ASSUME IInv, NEW r \in Requests, NEW kind \in Kinds \ {"remove"},
         NEW step \in {"list", "find", "stop", "label"}, NEW p \in Paths \cup {None},
         NEW s \in Sessions \cup {None}, NEW v \in Names \cup Labels \cup {None},
         Begin(r, kind, step, p, s, v),
         kind # "bootstrap" => p \in Paths,
         step = "find" => kind = "create" /\ s \in Sessions,
         step \in {"stop", "label"} => s \in Sessions /\ kind = step /\ handles[s] # None,
         step = "label" => v \in Labels,
         kind = "configure" => v \in Names,
         step = "find" => OneHome'
  PROVE  IInv'
<1>0. PICK late \in BOOLEAN : late = (\E q \in Requests : req[q].kind = "remove" /\ req[q].path = p)
  OBVIOUS
<1>. DEFINE new == Asked(kind, step, p, s, v, late)
<1>1. /\ new \in RequestType
      /\ new.at = step /\ new.kind = kind /\ new.path = p /\ new.session = s /\ new.value = v
      /\ new.undone = late /\ new.entries = <<>> /\ new.found = NoSessions
  BY AskedIsTyped DEF Steps
<1>2. Only(r) /\ req'[r] = new
  <2>1. Becomes(r, new)
    BY <1>0 DEF Begin, Asked
  <2> QED
    BY <1>1, <2>1, Becoming
<1>. HIDE DEF new
<1>3. Fits(req[r])'
  <2>1. Shape(req[r])'
    BY <1>1, <1>2 DEF Shape, Creating
  <2>2. Goes(req[r])' /\ Kept(req[r])'
    BY <1>1, <1>2 DEF Goes, Kept, NoSessions
  <2> QED
    BY <2>1, <2>2 DEF Fits
<1>4. Warned'
  <2> SUFFICES ASSUME NEW q \in Requests, req'[q].kind = "remove", NEW x \in Requests
               PROVE  /\ req'[q].path \notin promised
                      /\ req'[x].path = req'[q].path /\ req'[x].kind # "remove" => req'[x].undone
    BY DEF Warned, Begin
  <2>1. q # r /\ req'[q] = req[q]
    BY <1>1, <1>2 DEF Only
  <2>2. CASE x = r
    BY <1>0, <1>1, <1>2, <2>1, <2>2 DEF IInv, Warned
  <2>3. CASE x # r
    BY <1>2, <2>1, <2>3 DEF IInv, Warned, Only
  <2> QED
    BY <2>2, <2>3
<1>5. \A i \in Ids : \A x \in Paths : ~ Has(req'[r].entries, i, x)
  BY <1>1, <1>2, NoEntries
<1>6. req'[r].at = step /\ req'[r].session = s
  BY <1>1, <1>2
<1>7. UNCHANGED <<disk, registry, handles, made, promised>> /\ made \subseteq Ids
  BY DEF Begin, IInv, TypeOK
<1>8. OneHome'
  <2>1. CASE step = "find"
    BY <2>1
  <2>2. CASE step # "find"
    <3>1. req'[r].found = NoSessions /\ ~ Creating(req[r])'
      BY <1>1, <1>2, <2>2 DEF Creating
    <3>2. \A y \in Sessions : \A z \in Paths : Copied(y, z)' => Lives(y, z)
      BY <1>2, <3>1, CopiesAreHome DEF NoSessions
    <3> QED
      BY <1>7, <3>2, HomesStay DEF Homes, Lives, Copied
  <2> QED
    BY <2>1, <2>2
<1> QED
  BY <1>2, <1>3, <1>4, <1>5, <1>6, <1>7, <1>8, MoveKeeps DEF At

LEMMA BeginsKeep ==
  ASSUME IInv, NEW r \in Requests,
         \/ BeginRegister(r) \/ BeginConfigure(r) \/ BeginBootstrap(r) \/ BeginStop(r) \/ BeginLabel(r)
  PROVE  IInv'
<1>1. CASE BeginRegister(r)
  BY <1>1, BeginKeeps DEF BeginRegister, Kinds
<1>2. CASE BeginConfigure(r)
  BY <1>2, BeginKeeps DEF BeginConfigure, Kinds
<1>3. CASE BeginBootstrap(r)
  BY <1>3, BeginKeeps DEF BeginBootstrap, Kinds
<1>4. CASE BeginStop(r)
  <2>1. PICK s \in Sessions : handles[s] # None /\ Begin(r, "stop", "stop", handles[s].path, s, None)
    BY <1>4 DEF BeginStop
  <2>2. handles[s].path \in Paths
    BY <2>1 DEF IInv, TypeOK, Handle
  <2> QED
    BY <2>1, <2>2, BeginKeeps DEF Kinds
<1>5. CASE BeginLabel(r)
  <2>1. PICK s \in Sessions, l \in Labels :
           handles[s] # None /\ Begin(r, "label", "label", handles[s].path, s, l)
    BY <1>5 DEF BeginLabel
  <2>2. handles[s].path \in Paths
    BY <2>1 DEF IInv, TypeOK, Handle
  <2> QED
    BY <2>1, <2>2, BeginKeeps DEF Kinds
<1> QED
  BY <1>1, <1>2, <1>3, <1>4, <1>5

\* A session that is created has no home yet.
LEMMA BeginCreateKeeps == ASSUME IInv, NEW r \in Requests, BeginCreate(r) PROVE IInv'
<1>1. PICK p \in Paths, s \in Sessions :
         /\ \A q \in Requests : req[q].session # s /\ req[q].found[s] = None
         /\ handles[s] = None
         /\ \A i \in Ids : FoundIn(i)[s] = None
         /\ Begin(r, "create", "find", p, s, None)
  BY DEF BeginCreate
<1>0. PICK late \in BOOLEAN : late = (\E q \in Requests : req[q].kind = "remove" /\ req[q].path = p)
  OBVIOUS
<1>. DEFINE new == Asked("create", "find", p, s, None, late)
<1>2. /\ new \in RequestType
      /\ new.path = p /\ new.session = s /\ new.found = NoSessions
  BY AskedIsTyped DEF Steps, Kinds
<1>3. Only(r) /\ req'[r] = new /\ UNCHANGED <<disk, handles>>
  <2>1. Becomes(r, new) /\ UNCHANGED <<disk, handles>>
    BY <1>0, <1>1 DEF Begin, Asked
  <2> QED
    BY <1>2, <2>1, Becoming
<1>. HIDE DEF new
<1>4. \A i \in Ids : disk[i] = None \/ disk[i].agents[s] = None
  <2> SUFFICES ASSUME NEW i \in Ids, disk[i] # None, disk[i].agents[s] # None PROVE FALSE
    OBVIOUS
  <2>1. disk[i].path \in Paths /\ disk[i].agents[s] \in Labels
    BY DEF IInv, TypeOK, Persistence, Saved
  <2>2. FoundIn(i)[s] = [path |-> disk[i].path, label |-> disk[i].agents[s]]
    BY DEF FoundIn
  <2>3. FoundIn(i)[s] \in Found
    BY <2>1, <2>2 DEF Found
  <2> QED
    BY <1>1, <2>3, NoneAssumption
<1>5. OneHome'
  <2> SUFFICES ASSUME NEW x \in Sessions, NEW y \in Paths, NEW z \in Paths, Lives(x, y)', Lives(x, z)'
               PROVE  y = z
    BY DEF OneHome
  <2>1. CASE x = s
    <3>1. \A q \in Requests : q # r => req'[q].session # s /\ req'[q].found[s] = None
      BY <1>1, <1>3 DEF Only
    <3>2. \A w \in Paths : Lives(s, w)' => w = p
      BY <1>1, <1>2, <1>3, <1>4, <3>1 DEF Lives, NoSessions
    <3> QED
      BY <2>1, <3>2
  <2>2. CASE x # s
    <3>1. \A w \in Paths : Lives(x, w)' => Lives(x, w)
      BY <1>2, <1>3, <2>2 DEF Lives, Only, NoSessions, Creating
    <3> QED
      BY <3>1 DEF IInv, OneHome
  <2> QED
    BY <2>1, <2>2
<1> QED
  <2>1. Begin(r, "create", "find", p, s, None)
    BY <1>1
  <2> QED
    BY <1>5, <2>1, BeginKeeps DEF Kinds

\* Everybody at work on the path is warned, and nothing is promised of it.
LEMMA BeginRemoveKeeps == ASSUME IInv, NEW r \in Requests, BeginRemove(r) PROVE IInv'
<1>1. PICK p \in Paths :
         /\ req' = [q \in Requests |->
                      IF q = r THEN [Idle EXCEPT !.at = "list", !.kind = "remove", !.path = p]
                      ELSE [req[q] EXCEPT !.undone = @ \/ req[q].path = p]]
         /\ promised' = promised \ {p}
         /\ UNCHANGED <<disk, registry, handles, made>>
  BY DEF BeginRemove
<1>. DEFINE new == [Idle EXCEPT !.at = "list", !.kind = "remove", !.path = p]
<1>2. /\ new \in RequestType
      /\ new.at = "list" /\ new.kind = "remove" /\ new.path = p
      /\ new.entries = <<>> /\ new.found = NoSessions
  <2>1. new.entries = <<>> /\ new.found = NoSessions
    BY DEF Idle
  <2> QED
    BY <2>1, IdleIsTyped DEF RequestType, Steps, Kinds
<1>3. req'[r] = new
  BY <1>1
<1>. HIDE DEF new
<1>4. ASSUME NEW q \in Requests, q # r
      PROVE  /\ req'[q] \in RequestType
             /\ req'[q] = [req[q] EXCEPT !.undone = @ \/ req[q].path = p]
             /\ req'[q].at = req[q].at /\ req'[q].kind = req[q].kind /\ req'[q].path = req[q].path
             /\ req'[q].session = req[q].session /\ req'[q].id = req[q].id
             /\ req'[q].value = req[q].value
             /\ req'[q].entries = req[q].entries /\ req'[q].found = req[q].found
             /\ (req[q].undone => req'[q].undone) /\ (req[q].path = p => req'[q].undone)
  <2>1. req[q] \in RequestType
    BY DEF IInv, TypeOK
  <2>2. req'[q] = [req[q] EXCEPT !.undone = @ \/ req[q].path = p]
    BY <1>1, <1>4
  <2> QED
    BY <2>1, <2>2 DEF RequestType
<1>5. req' \in [Requests -> RequestType]
  <2>1. \A q \in Requests : req'[q] \in RequestType
    BY <1>2, <1>3, <1>4
  <2>2. req' = [q \in Requests |-> req'[q]]
    BY <1>1
  <2> QED
    BY <2>1, <2>2
<1>6. \A q \in Requests : Files(q)' = Files(q)
  BY <1>1 DEF Files
<1>7. ASSUME NEW q \in Requests, q # r PROVE Fits(req[q])'
  <2>1. Fits(req[q]) /\ req[q] \in RequestType
    BY DEF IInv, TypeOK
  <2>2. CASE req[q].at = "idle"
    <3>1. req[q] = Idle /\ ~ (Idle.path = p) /\ ~ Idle.undone
      BY <2>1, <2>2, NoneAssumption DEF Fits, Shape, Idle
    <3>2. req'[q] = [Idle EXCEPT !.undone = FALSE]
      BY <1>4, <1>7, <3>1
    <3>3. req'[q] = Idle
      BY <3>2 DEF Idle
    <3> QED
      BY <3>3 DEF Fits, Shape, Goes, Kept, Creating, Idle
  <2>3. CASE req[q].at # "idle"
    <3>1. Shape(req[q])'
      BY <1>4, <1>7, <2>1, <2>3 DEF Fits, Shape, Creating
    <3>2. Goes(req[q])'
      <4>1. /\ req'[q].at = req[q].at /\ req'[q].kind = req[q].kind /\ req'[q].path = req[q].path
            /\ req'[q].entries = req[q].entries /\ req'[q].found = req[q].found
        BY <1>4, <1>7
      <4>2. Goes(req[q])
        BY <2>1 DEF Fits
      <4> QED
        BY <4>1, <4>2 DEF Goes
    <3>3. Kept(req[q])'
      BY <1>1, <1>4, <1>7, <2>1 DEF Fits, Kept, Own, Files
    <3> QED
      BY <3>1, <3>2, <3>3 DEF Fits
  <2> QED
    BY <2>2, <2>3
<1>8. Fits(req[r])'
  BY <1>2, <1>3 DEF Fits, Shape, Goes, Kept, Creating, Saves
<1>9. TypeOK'
  BY <1>1, <1>2, <1>3, <1>4, <1>5 DEF IInv, TypeOK, At
<1>10. /\ \A i \in Ids, x \in Paths : Filed(i, x)' => Filed(i, x)
       /\ \A q \in Requests : At(q, "enroll")' => q # r /\ At(q, "enroll")
  <2>1. \A i, x : ~ Has(req'[r].entries, i, x)
    BY <1>2, <1>3, NoEntries
  <2> QED
    BY <1>1, <1>2, <1>3, <1>4, <2>1 DEF Filed, At
<1>11. (OnePath /\ Enrolled /\ Generated)'
  <2>1. OnePath'
    BY <1>10 DEF IInv, OnePath
  <2>2. Enrolled'
    BY <1>1, <1>4, <1>10 DEF IInv, Enrolled, Spells
  <2>3. Generated'
    BY <1>1, <1>4, <1>10 DEF IInv, Generated
  <2> QED
    BY <2>1, <2>2, <2>3
<1>12. OneHome'
  <2>1. \A q \in Requests : Creating(req[q])' => Creating(req[q]) /\ q # r
    BY <1>2, <1>3, <1>4 DEF Creating
  <2>2. ASSUME NEW s \in Sessions, NEW x \in Paths, Lives(s, x)' PROVE Lives(s, x)
    <3>1. ASSUME NEW q \in Requests, \/ req'[q].found[s] # None /\ req'[q].found[s].path = x
                                     \/ Creating(req[q])' /\ req'[q].session = s /\ req'[q].path = x
          PROVE  Lives(s, x)
      <4>1. q # r
        BY <1>2, <1>3, <2>1, <3>1 DEF NoSessions
      <4>2. \/ req[q].found[s] # None /\ req[q].found[s].path = x
            \/ Creating(req[q]) /\ req[q].session = s /\ req[q].path = x
        BY <1>4, <2>1, <3>1, <4>1
      <4> QED
        BY <4>2 DEF Lives
    <3> QED
      BY <1>1, <2>2, <3>1 DEF Lives
  <2>3. Homes
    BY <2>2 DEF Homes
  <2> QED
    BY <2>3, HomesStay
<1>13. Present'
  BY <1>1, <1>2, <1>3, <1>4 DEF IInv, Present
<1>14. Warned'
  <2> SUFFICES ASSUME NEW q \in Requests, req'[q].kind = "remove", NEW x \in Requests
               PROVE  /\ req'[q].path \notin promised'
                      /\ req'[x].path = req'[q].path /\ req'[x].kind # "remove" => req'[x].undone
    BY DEF Warned
  <2>1. req'[q].path = p \/ (q # r /\ req[q].kind = "remove")
    BY <1>2, <1>3, <1>4
  <2>2. req'[q].path \notin promised'
    BY <1>1, <1>4, <2>1 DEF IInv, Warned
  <2>3. ASSUME req'[x].path = req'[q].path, req'[x].kind # "remove"
        PROVE  req'[x].undone
    <3>1. x # r /\ req[x].kind # "remove"
      BY <1>2, <1>3, <1>4, <2>3
    <3>2. CASE req'[q].path = p
      BY <1>4, <2>3, <3>1, <3>2
    <3>3. CASE q # r /\ req[q].kind = "remove"
      <4>1. req[x].path = req[q].path
        BY <1>4, <2>3, <3>1, <3>3
      <4>2. req[x].undone
        BY <3>1, <3>3, <4>1 DEF IInv, Warned
      <4> QED
        BY <1>4, <3>1, <4>2
    <3> QED
      BY <2>1, <3>2, <3>3
  <2> QED
    BY <2>2, <2>3
<1>15. RegistrationSurvives'
  BY <1>1 DEF IInv, RegistrationSurvives, Files
<1> QED
  BY <1>7, <1>8, <1>9, <1>11, <1>12, <1>13, <1>14, <1>15 DEF IInv

LEMMA ListKeeps == ASSUME IInv, NEW r \in Requests, List(r) PROVE IInv'
<1>. DEFINE saved == {i \in Ids : disk[i] # None}
            new == [req[r] EXCEPT !.at = "read", !.entries = <<>>, !.unread = saved]
<1>0. saved \in SUBSET Ids /\ Becomes(r, new)
  BY DEF List
<1>. HIDE DEF saved
<1>1. req[r] \in RequestType /\ Fits(req[r]) /\ req[r].at = "list"
  BY DEF IInv, TypeOK, List, At
<1>2. /\ new \in RequestType
      /\ new.at = "read" /\ new.entries = <<>> /\ new.kind = req[r].kind /\ new.path = req[r].path
      /\ new.session = req[r].session /\ new.id = req[r].id /\ new.value = req[r].value
      /\ new.found = req[r].found /\ new.undone = req[r].undone
  <2>1. <<>> \in Seq(WorkspaceEntry)
    BY EmptySeq
  <2> QED
    BY <1>0, <1>1, <2>1 DEF RequestType, Steps
<1>3. Only(r) /\ req'[r] = new
  BY <1>0, <1>2, Becoming
<1>4. UNCHANGED <<disk, registry, handles, made, promised>> /\ made \subseteq Ids
  BY DEF List, IInv, TypeOK
<1>. HIDE DEF new
<1>5. \A i, p : ~ Has(req'[r].entries, i, p)
  BY <1>2, <1>3, NoEntries
<1>6. Fits(req[r])'
  <2>1. Shape(req[r])' /\ Goes(req[r])'
    BY <1>1, <1>2, <1>3 DEF Fits, Shape, Goes, Creating
  <2>2. Kept(req[r])'
    BY <1>2, <1>3, <1>5 DEF Kept, Own
  <2> QED
    BY <2>1, <2>2 DEF Fits
<1>7. Warned'
  BY <1>2, <1>3, <1>4, SameIsWarned DEF Same
<1>8. OneHome'
  <2>1. \A s \in Sessions : \A p \in Paths : Copied(s, p)' => Lives(s, p)
    BY <1>2, <1>3, CopiesAreHome DEF Lives, Creating
  <2> QED
    BY <1>4, <2>1, HomesStay DEF Homes, Lives, Copied
<1> QED
  BY <1>2, <1>3, <1>4, <1>5, <1>6, <1>7, <1>8, MoveKeeps DEF At

LEMMA ReadKeeps == ASSUME IInv, NEW r \in Requests, Read(r) PROVE IInv'
<1>1. req[r] \in RequestType /\ Fits(req[r]) /\ req[r].at = "read"
  BY DEF IInv, TypeOK, Read, At
<1>2. PICK i \in req[r].unread :
         Becomes(r, [req[r] EXCEPT !.unread = @ \ {i}, !.entries = @ \o
            (IF disk[i] = None \/ EntryOf(r, disk[i].path) # {} THEN <<>>
             ELSE <<[id |-> i, path |-> disk[i].path, name |-> disk[i].name]>>)])
  BY DEF Read
<1>3. PICK list \in Seq(WorkspaceEntry) :
         /\ Becomes(r, [req[r] EXCEPT !.unread = @ \ {i}, !.entries = list])
         /\ \A j \in Ids : \A p \in Paths : Has(list, j, p) =>
               Has(req[r].entries, j, p) \/ (disk[j] # None /\ disk[j].path = p)
  <2>1. req[r].entries \in Seq(WorkspaceEntry) /\ i \in Ids
    BY <1>1, <1>2 DEF RequestType
  <2>2. CASE disk[i] = None \/ EntryOf(r, disk[i].path) # {}
    <3>1. req[r].entries \o <<>> = req[r].entries
      BY <2>1, ConcatEmptySeq
    <3> QED
      BY <1>2, <2>1, <2>2, <3>1
  <2>3. CASE ~ (disk[i] = None \/ EntryOf(r, disk[i].path) # {})
    <3>. DEFINE e == [id |-> i, path |-> disk[i].path, name |-> disk[i].name]
    <3>1. e \in WorkspaceEntry /\ e.id = i /\ e.path = disk[i].path
      BY <2>1, <2>3 DEF IInv, TypeOK, Persistence, WorkspaceEntry
    <3>2. Becomes(r, [req[r] EXCEPT !.unread = @ \ {i}, !.entries = @ \o <<e>>])
      BY <1>2, <2>3
    <3>. HIDE DEF e
    <3>3. Append(req[r].entries, e) \in Seq(WorkspaceEntry) /\ req[r].entries \o <<e>> = Append(req[r].entries, e)
      BY <2>1, <3>1, OneMoreEntry
    <3>4. \A j, p : Has(Append(req[r].entries, e), j, p) => Has(req[r].entries, j, p) \/ (e.id = j /\ e.path = p)
      BY <2>1, <3>1, OneMoreEntry
    <3> QED
      BY <2>3, <3>1, <3>2, <3>3, <3>4
  <2> QED
    BY <2>2, <2>3
<1>. DEFINE new == [req[r] EXCEPT !.unread = @ \ {i}, !.entries = list]
<1>4. /\ new \in RequestType
      /\ new.at = "read" /\ new.entries = list /\ new.kind = req[r].kind /\ new.path = req[r].path
      /\ new.session = req[r].session /\ new.id = req[r].id /\ new.value = req[r].value
      /\ new.found = req[r].found /\ new.undone = req[r].undone
  BY <1>1 DEF RequestType
<1>5. Only(r) /\ req'[r] = new
  BY <1>3, <1>4, Becoming
<1>6. UNCHANGED <<disk, registry, handles, made, promised>> /\ made \subseteq Ids
  BY DEF Read, IInv, TypeOK
<1>. HIDE DEF new
<1>7. Fits(req[r])'
  <2>1. Shape(req[r])' /\ Goes(req[r])'
    BY <1>1, <1>4, <1>5 DEF Fits, Shape, Goes, Creating
  <2>2. Kept(req[r])'
    <3> SUFFICES ASSUME req[r].kind \in {"register", "configure"}, ~ req[r].undone,
                        NEW j \in Ids, Has(list, j, req[r].path)
                 PROVE  Files(req[r].path) # {}
      BY <1>4, <1>5, <1>6 DEF Kept, Own, Files
    <3>1. req[r].path \in Paths
      BY <1>1 DEF Fits, Shape
    <3>2. CASE Has(req[r].entries, j, req[r].path)
      BY <1>1, <3>2 DEF Fits, Kept, Own
    <3>3. CASE disk[j] # None /\ disk[j].path = req[r].path
      BY <3>3 DEF Files
    <3> QED
      BY <1>3, <3>1, <3>2, <3>3
  <2> QED
    BY <2>1, <2>2 DEF Fits
<1>8. Warned'
  BY <1>4, <1>5, <1>6, SameIsWarned DEF Same
<1>9. OneHome'
  <2>1. \A s \in Sessions : \A p \in Paths : Copied(s, p)' => Lives(s, p)
    BY <1>4, <1>5, CopiesAreHome DEF Lives, Creating
  <2> QED
    BY <1>6, <2>1, HomesStay DEF Homes, Lives, Copied
<1>10. \A j \in Ids : \A p \in Paths : Has(req'[r].entries, j, p) => Filed(j, p)
  BY <1>3, <1>4, <1>5 DEF Filed
<1> QED
  BY <1>4, <1>5, <1>6, <1>7, <1>8, <1>9, <1>10, MoveKeeps DEF At
-----------------------------------------------------------------------------
(***************************************************************************)
(* register and update_workspace_settings.                                 *)
(***************************************************************************)
LEMMA MineIsFiled ==
  ASSUME IInv, NEW r \in Requests
  PROVE  /\ \A e \in Mine(r) : /\ e \in WorkspaceEntry /\ e.path = req[r].path /\ Filed(e.id, e.path)
                               /\ Own(req[r])
         /\ Mine(r) = {} => ~ Own(req[r])
<1>1. req[r].entries \in Seq(WorkspaceEntry)
  BY DEF IInv, TypeOK, RequestType
<1>2. \A k \in DOMAIN req[r].entries : req[r].entries[k] \in WorkspaceEntry
  BY <1>1
<1>3. ASSUME NEW e \in Mine(r)
      PROVE  e \in WorkspaceEntry /\ e.path = req[r].path /\ Filed(e.id, e.path) /\ Own(req[r])
  <2>1. PICK k \in DOMAIN req[r].entries : e = req[r].entries[k] /\ e.path = req[r].path
    BY DEF Mine, EntryOf, ToSet
  <2>2. e \in WorkspaceEntry /\ Has(req[r].entries, e.id, e.path)
    BY <1>2, <2>1 DEF Has
  <2> QED
    BY <2>1, <2>2 DEF Filed, Own, WorkspaceEntry
<1>4. ASSUME Own(req[r]) PROVE Mine(r) # {}
  BY <1>4 DEF Own, Has, Mine, EntryOf, ToSet
<1> QED
  BY <1>3, <1>4

\* A root that is entered spells the path of the id.
LEMMA EnterSpells ==
  ASSUME IInv, NEW i \in Ids, NEW x \in Paths, Enter(i, x),
         \A p \in Paths : Filed(i, p)' => Spells(x, p)
  PROVE  /\ registry' \in [Ids -> Paths \cup {None}]
         /\ \A j \in Ids : registry'[j] # registry[j] => j = i
         /\ \A p \in Paths : Filed(i, p)' => Spells(registry'[i], p)
<1>1. PICK root \in {x, Canonical[x]} : registry' = [registry EXCEPT ![i] = root]
  BY DEF Enter
<1>2. root \in Paths
  BY <1>1, PathsAssumption
<1>3. registry' \in [Ids -> Paths \cup {None}] /\ registry'[i] = root
      /\ \A j \in Ids : registry'[j] # registry[j] => j = i
  BY <1>1, <1>2 DEF IInv, TypeOK
<1>4. \A p \in Paths : Spells(x, p) => Spells(root, p)
  BY <1>1, PathsAssumption DEF Spells
<1> QED
  BY <1>3, <1>4

LEMMA RegisterKnownKeeps == ASSUME IInv, NEW r \in Requests, RegisterKnown(r) PROVE IInv'
<1>1. PICK e \in Mine(r) : Enter(e.id, e.path)
  BY DEF RegisterKnown
<1>2. e \in WorkspaceEntry /\ e.path = req[r].path /\ Filed(e.id, e.path) /\ Own(req[r])
  BY MineIsFiled
<1>3. e.id \in Ids /\ e.path \in Paths
  BY <1>2 DEF WorkspaceEntry
<1>4. Finish(r, TRUE) /\ UNCHANGED <<disk, handles, made>> /\ req[r].at = "read" /\ req[r].kind = "register"
  BY DEF RegisterKnown, Loaded, At
<1>5. ~ req[r].undone => Files(req[r].path) # {}
  BY <1>2, <1>4 DEF IInv, Fits, Kept
<1>6. \A p \in Paths : Filed(e.id, p) => p = e.path
  BY <1>2, <1>3 DEF IInv, OnePath
<1>7. Only(r) /\ req'[r] = Idle
  BY <1>4, IdleIsTyped, Becoming DEF Finish
<1>8. \A i \in Ids : \A p \in Paths : Filed(i, p)' => Filed(i, p)
  BY <1>4, <1>7 DEF Filed, Only, Idle, Has
<1>9. \A p \in Paths : Filed(e.id, p)' => Spells(e.path, p)
  BY <1>3, <1>6, <1>8 DEF Spells
<1>10. /\ registry' \in [Ids -> Paths \cup {None}]
       /\ \A j \in Ids : registry'[j] # registry[j] => j = e.id
  BY <1>1, <1>3, <1>9, EnterSpells
<1>11. PICK root \in {e.path, Canonical[e.path]} : registry'[e.id] = root
  BY <1>1, <1>3 DEF Enter, IInv, TypeOK
<1>12. \A j \in Ids : registry'[j] # registry[j] =>
          j \in made /\ \A p \in Paths : Filed(j, p) => Spells(registry'[j], p)
  BY <1>2, <1>3, <1>6, <1>10, <1>11 DEF IInv, Generated, Spells
<1> QED
  BY <1>4, <1>5, <1>10, <1>12, QuitKeeps

LEMMA RegisterNewKeeps == ASSUME IInv, NEW r \in Requests, RegisterNew(r) PROVE IInv'
<1>1. PICK i \in Ids \ made :
         /\ made' = made \cup {i}
         /\ Enter(i, req[r].path)
         /\ Becomes(r, [req[r] EXCEPT !.at = "each",
                          !.entries = Append(@, [id |-> i, path |-> req[r].path, name |-> FirstName])])
  BY DEF RegisterNew
<1>2. /\ req[r] \in RequestType /\ Fits(req[r]) /\ req[r].at = "read" /\ req[r].kind = "register"
      /\ UNCHANGED <<disk, handles, promised>> /\ made \subseteq Ids
  BY DEF IInv, TypeOK, RegisterNew, Loaded, At
<1>3. req[r].path \in Paths
  BY <1>2 DEF Fits, Shape
<1>. DEFINE e == [id |-> i, path |-> req[r].path, name |-> FirstName]
            list == Append(req[r].entries, e)
            new == [req[r] EXCEPT !.at = "each", !.entries = list]
<1>4. e \in WorkspaceEntry /\ e.id = i /\ e.path = req[r].path
  BY <1>3, FirstAssumption DEF WorkspaceEntry
<1>5. Becomes(r, new)
  BY <1>1
<1>. HIDE DEF e
<1>6. /\ list \in Seq(WorkspaceEntry) /\ list # <<>>
      /\ \A j, p : Has(list, j, p) <=> Has(req[r].entries, j, p) \/ (e.id = j /\ e.path = p)
  BY <1>2, <1>4, OneMoreEntry DEF RequestType
<1>. HIDE DEF list
<1>7. /\ new \in RequestType
      /\ new.at = "each" /\ new.entries = list /\ new.kind = req[r].kind /\ new.path = req[r].path
      /\ new.session = req[r].session /\ new.id = req[r].id /\ new.value = req[r].value
      /\ new.found = req[r].found /\ new.undone = req[r].undone
  BY <1>2, <1>6 DEF RequestType, Steps
<1>8. Only(r) /\ req'[r] = new
  BY <1>5, <1>7, Becoming
<1>. HIDE DEF new
<1>9. Fits(req[r])'
  <2>1. Shape(req[r])' /\ Goes(req[r])'
    BY <1>2, <1>6, <1>7, <1>8 DEF Fits, Shape, Goes, Creating, Saves
  <2>2. Own(req[r])'
    BY <1>4, <1>6, <1>7, <1>8 DEF Own
  <2>3. Kept(req[r])'
    BY <1>7, <1>8, <2>2 DEF Kept
  <2> QED
    BY <2>1, <2>3 DEF Fits
<1>10. Warned'
  BY <1>2, <1>7, <1>8, SameIsWarned DEF Same
<1>11. OneHome'
  <2>1. \A s \in Sessions : \A p \in Paths : Copied(s, p)' => Lives(s, p)
    BY <1>2, <1>7, <1>8, CopiesAreHome DEF Lives, Creating
  <2> QED
    BY <1>2, <2>1, HomesStay DEF Homes, Lives, Copied
<1>12. Lists(r)
  <2>1. \A j \in Ids : \A p \in Paths : Has(req'[r].entries, j, p) =>
           Filed(j, p) \/ (j \in made' \ made /\ p = req[r].path)
    BY <1>1, <1>4, <1>6, <1>7, <1>8 DEF Filed
  <2> QED
    BY <1>2, <1>8, <2>1 DEF Lists, Filed, Only
<1>13. \A p \in Paths : Filed(i, p)' => Spells(req[r].path, p)
  BY <1>1, <1>12 DEF Lists, IInv, Generated, Spells
<1>14. /\ registry' \in [Ids -> Paths \cup {None}]
       /\ \A j \in Ids : registry'[j] # registry[j] => j = i
       /\ \A p \in Paths : Filed(i, p)' => Spells(registry'[i], p)
  BY <1>1, <1>3, <1>13, EnterSpells
<1>15. FilesStay /\ RegistrationSurvives' /\ Typed
  BY <1>1, <1>2, <1>14 DEF IInv, FilesStay, Files, RegistrationSurvives, Typed, TypeOK
<1> QED
  BY <1>1, <1>2, <1>7, <1>8, <1>9, <1>10, <1>11, <1>12, <1>14, <1>15, StepKeeps DEF At

LEMMA ConfigureKeeps == ASSUME IInv, NEW r \in Requests, Configure(r) PROVE IInv'
<1>. DEFINE old == req[r].entries
            list == [k \in DOMAIN old |-> IF old[k].path = req[r].path
                                            THEN [old[k] EXCEPT !.name = req[r].value] ELSE old[k]]
            new == [req[r] EXCEPT !.at = "each", !.entries = list]
<1>1. /\ req[r] \in RequestType /\ Fits(req[r]) /\ req[r].at = "read" /\ req[r].kind = "configure"
      /\ UNCHANGED <<disk, registry, handles, made, promised>> /\ made \subseteq Ids
      /\ Mine(r) # {} /\ Becomes(r, new)
  BY DEF IInv, TypeOK, Configure, Loaded, At
<1>2. req[r].path \in Paths /\ req[r].value \in Names /\ Own(req[r])
  BY <1>1, MineIsFiled DEF Fits, Shape
<1>3. \A k \in DOMAIN old : list[k] \in WorkspaceEntry /\ list[k].id = old[k].id /\ list[k].path = old[k].path
  <2> SUFFICES ASSUME NEW k \in DOMAIN old
               PROVE  list[k] \in WorkspaceEntry /\ list[k].id = old[k].id /\ list[k].path = old[k].path
    OBVIOUS
  <2>1. old[k] \in WorkspaceEntry
    BY <1>1 DEF RequestType
  <2> QED
    BY <1>2, <2>1 DEF WorkspaceEntry
<1>4. list \in Seq(WorkspaceEntry) /\ DOMAIN list = DOMAIN old
  <2>1. Len(old) \in Nat /\ DOMAIN old = 1 .. Len(old)
    BY <1>1, LenProperties DEF RequestType
  <2> QED
    <3>1. list \in [1 .. Len(old) -> WorkspaceEntry]
      BY <1>3, <2>1
    <3> QED
      BY <2>1, <3>1, SeqDef
<1>. HIDE DEF list
<1>5. \A j, p : Has(list, j, p) <=> Has(old, j, p)
  BY <1>3, <1>4 DEF Has
<1>6. list # <<>>
  BY <1>2, <1>5, NoEntries DEF Own
<1>7. /\ new \in RequestType
      /\ new.at = "each" /\ new.entries = list /\ new.kind = req[r].kind /\ new.path = req[r].path
      /\ new.session = req[r].session /\ new.id = req[r].id /\ new.value = req[r].value
      /\ new.found = req[r].found /\ new.undone = req[r].undone
  BY <1>1, <1>4 DEF RequestType, Steps
<1>8. Only(r) /\ req'[r] = new
  BY <1>1, <1>7, Becoming
<1>. HIDE DEF new
<1>9. Fits(req[r])'
  <2>1. Shape(req[r])' /\ Goes(req[r])'
    BY <1>1, <1>2, <1>6, <1>7, <1>8 DEF Fits, Shape, Goes, Creating, Saves
  <2>2. Own(req[r])'
    BY <1>2, <1>5, <1>7, <1>8 DEF Own
  <2>3. Kept(req[r])'
    BY <1>7, <1>8, <2>2 DEF Kept
  <2> QED
    BY <2>1, <2>3 DEF Fits
<1>10. Warned'
  BY <1>1, <1>7, <1>8, SameIsWarned DEF Same
<1>11. OneHome'
  <2>1. \A s \in Sessions : \A p \in Paths : Copied(s, p)' => Lives(s, p)
    BY <1>7, <1>8, CopiesAreHome DEF Lives, Creating
  <2> QED
    BY <1>1, <2>1, HomesStay DEF Homes, Lives, Copied
<1>12. \A j \in Ids : \A p \in Paths : Has(req'[r].entries, j, p) => Filed(j, p)
  BY <1>5, <1>7, <1>8 DEF Filed
<1> QED
  BY <1>1, <1>7, <1>8, <1>9, <1>10, <1>11, <1>12, MoveKeeps DEF At

\* A step that ends a request without success.
LEMMA FailsKeep ==
  ASSUME IInv, NEW r \in Requests, NotFound(r) \/ WriteFails(r) \/ StartFails(r) \/ SaveFails(r)
  PROVE  IInv'
<1>1. Finish(r, FALSE) /\ UNCHANGED <<disk, registry, handles, made>>
  BY DEF NotFound, WriteFails, StartFails, SaveFails
<1>2. registry' \in [Ids -> Paths \cup {None}]
  BY <1>1 DEF IInv, TypeOK
<1> QED
  BY <1>1, <1>2, QuitKeeps

-----------------------------------------------------------------------------
(***************************************************************************)
(* remove_workspace.                                                       *)
(***************************************************************************)
LEMMA RemoveDirKeeps == ASSUME IInv, NEW r \in Requests, RemoveDir(r) PROVE IInv'
<1>1. PICK e \in Mine(r) : disk' \in {[disk EXCEPT ![e.id] = None], disk}
  BY DEF RemoveDir
<1>2. /\ Finish(r, TRUE) /\ UNCHANGED <<registry, handles, made>>
      /\ req[r].at = "read" /\ req[r].kind = "remove" /\ made \subseteq Ids /\ promised \subseteq Paths
  BY DEF RemoveDir, Loaded, At, IInv, TypeOK
<1>3. e.id \in Ids /\ e.path = req[r].path /\ Filed(e.id, e.path) /\ e.path \in Paths
  BY MineIsFiled DEF WorkspaceEntry
<1>4. /\ disk' \in [Ids -> Persistence \cup {None}]
      /\ \A i \in Ids : disk'[i] = disk[i] \/ (i = e.id /\ disk'[i] = None)
  BY <1>1, <1>3 DEF IInv, TypeOK
<1>5. disk[e.id] # None => disk[e.id].path = req[r].path
  <2>1. disk[e.id] # None => disk[e.id].path \in Paths /\ Filed(e.id, disk[e.id].path)
    BY <1>3 DEF IInv, TypeOK, Persistence, Filed
  <2> QED
    BY <1>3, <2>1 DEF IInv, OnePath
<1>6. \A p \in Paths : Files(p) # {} => Files(p)' # {} \/ p = req[r].path
  BY <1>4, <1>5 DEF Files
<1>7. /\ req[r].path \notin promised
      /\ \A q \in Requests : req[q].path = req[r].path /\ req[q].kind # "remove" => req[q].undone
  BY <1>2 DEF IInv, Warned
<1>8. FilesStay
  BY <1>6, <1>7 DEF FilesStay
<1>9. \A p \in promised : Files(p)' # {}
  BY <1>2, <1>6, <1>7 DEF IInv, RegistrationSurvives
<1>10. /\ Only(r) /\ Fits(req[r])' /\ promised' \subseteq Paths
       /\ Warned' /\ RegistrationSurvives' /\ req'[r] = Idle
  BY <1>2, <1>9, FinishKeeps
<1>11. Lists(r)
  BY <1>4, <1>10 DEF Lists, Filed, Only, Idle, Has
<1>12. Typed
  BY <1>2, <1>4, <1>10 DEF Typed, IInv, TypeOK
<1>13. OneHome'
  <2>1. \A s \in Sessions : \A p \in Paths : Copied(s, p)' => Lives(s, p)
    BY <1>10, CopiesAreHome DEF Idle, NoSessions, Creating
  <2> QED
    BY <1>2, <1>4, <2>1, HomesStay DEF Homes, Lives, Copied
<1> QED
  BY <1>2, <1>8, <1>10, <1>11, <1>12, <1>13, StepKeeps DEF Idle, At
-----------------------------------------------------------------------------
(***************************************************************************)
(* save_workspaces.                                                        *)
(***************************************************************************)
LEMMA ReadAgentsKeeps == ASSUME IInv, NEW r \in Requests, ReadAgents(r) PROVE IInv'
<1>. DEFINE h == Head(req[r].entries)
            found == FoundIn(h.id)
            new == [req[r] EXCEPT !.at = "write", !.found = found]
<1>1. /\ req[r] \in RequestType /\ Fits(req[r]) /\ req[r].at = "each"
      /\ UNCHANGED <<disk, registry, handles, made, promised>> /\ made \subseteq Ids
      /\ Becomes(r, new)
  BY DEF IInv, TypeOK, ReadAgents, At
<1>2. req[r].kind \in {"register", "configure"} /\ req[r].entries # <<>> /\ req[r].entries \in Seq(WorkspaceEntry)
  BY <1>1 DEF Fits, Shape, RequestType
<1>3. h \in WorkspaceEntry /\ Has(req[r].entries, h.id, h.path)
  BY <1>2, HeadAndTail
<1>4. h.id \in Ids /\ h.path \in Paths /\ Filed(h.id, h.path)
  BY <1>3 DEF WorkspaceEntry, Filed
<1>. HIDE DEF h
<1>5. /\ found \in [Sessions -> Found \cup {None}]
      /\ \A s \in Sessions : found[s] # None => Lives(s, found[s].path) /\ found[s].path = h.path
  <2>1. ASSUME NEW s \in Sessions, found[s] # None
        PROVE  found[s] \in Found /\ Lives(s, found[s].path) /\ found[s].path = h.path
    <3>1. /\ disk[h.id] # None /\ disk[h.id].agents[s] # None
          /\ found[s] = [path |-> disk[h.id].path, label |-> disk[h.id].agents[s]]
      BY <2>1 DEF FoundIn
    <3>2. disk[h.id].path \in Paths /\ disk[h.id].agents[s] \in Labels
      BY <1>4, <3>1 DEF IInv, TypeOK, Persistence, Saved
    <3>3. disk[h.id].path = h.path
      BY <1>4, <3>1, <3>2 DEF IInv, OnePath, Filed
    <3> QED
      BY <1>4, <3>1, <3>2, <3>3 DEF Found, Lives
  <2> QED
    BY <2>1 DEF FoundIn
<1>. HIDE DEF found
<1>6. /\ new \in RequestType
      /\ new.at = "write" /\ new.entries = req[r].entries /\ new.kind = req[r].kind /\ new.path = req[r].path
      /\ new.session = req[r].session /\ new.id = req[r].id /\ new.value = req[r].value
      /\ new.found = found /\ new.undone = req[r].undone
  BY <1>1, <1>5 DEF RequestType, Steps
<1>7. Only(r) /\ req'[r] = new
  BY <1>1, <1>6, Becoming
<1>. HIDE DEF new
<1>8. Fits(req[r])'
  <2>1. Shape(req[r])'
    BY <1>1, <1>2, <1>6, <1>7 DEF Fits, Shape, Creating
  <2>2. Goes(req[r])'
    BY <1>5, <1>6, <1>7 DEF Goes, h
  <2>3. Kept(req[r])'
    <3>1. req[r].path \in Paths
      BY <1>1, <1>2 DEF Fits, Shape
    <3>2. ~ req[r].undone => Own(req[r]) \/ Files(req[r].path) # {}
      BY <1>1 DEF Fits, Kept
    <3> QED
      BY <1>1, <1>6, <1>7, <3>2 DEF Kept, Own, Files
  <2> QED
    BY <2>1, <2>2, <2>3 DEF Fits
<1>9. Warned'
  BY <1>1, <1>6, <1>7, SameIsWarned DEF Same
<1>10. OneHome'
  <2>1. \A s \in Sessions : \A p \in Paths : Copied(s, p)' => Lives(s, p)
    BY <1>5, <1>6, <1>7, CopiesAreHome DEF Creating
  <2> QED
    BY <1>1, <2>1, HomesStay DEF Homes, Lives, Copied
<1>11. \A j \in Ids : \A p \in Paths : Has(req'[r].entries, j, p) => Filed(j, p)
  BY <1>6, <1>7 DEF Filed
<1> QED
  BY <1>1, <1>6, <1>7, <1>8, <1>9, <1>10, <1>11, MoveKeeps DEF At

LEMMA WriteEntryKeeps == ASSUME IInv, NEW r \in Requests, WriteEntry(r) PROVE IInv'
<1>. DEFINE new == [req[r] EXCEPT !.at = "each", !.entries = Tail(@), !.found = NoSessions]
<1>0. PICK h \in WorkspaceEntry : h = Head(req[r].entries)
  BY HeadAndTail DEF IInv, Fits, Shape, TypeOK, RequestType, WriteEntry, At
<1>1. /\ req[r] \in RequestType /\ Fits(req[r]) /\ req[r].at = "write"
      /\ UNCHANGED <<registry, handles, made>> /\ made \subseteq Ids /\ promised \subseteq Paths
      /\ disk' = [disk EXCEPT ![h.id] = [path |-> h.path, name |-> h.name,
                                         agents |-> Entries(req[r].found)]]
  BY <1>0 DEF IInv, TypeOK, WriteEntry, At
<1>2. /\ req[r].kind \in {"register", "configure"} /\ req[r].path \in Paths
      /\ req[r].entries # <<>> /\ req[r].entries \in Seq(WorkspaceEntry)
  BY <1>1 DEF Fits, Shape, RequestType
<1>3. /\ h \in WorkspaceEntry /\ Tail(req[r].entries) \in Seq(WorkspaceEntry)
      /\ Has(req[r].entries, h.id, h.path)
      /\ \A i, p : Has(req[r].entries, i, p) <=> (h.id = i /\ h.path = p) \/ Has(Tail(req[r].entries), i, p)
  BY <1>0, <1>2, HeadAndTail
<1>4. h.id \in Ids /\ h.path \in Paths /\ Filed(h.id, h.path)
  BY <1>3 DEF WorkspaceEntry, Filed
<1>5. Rewritten(r, h.id, h.path)
  BY <1>1, <1>3 DEF Rewritten, WorkspaceEntry
<1>6. \A s \in Sessions : req[r].found[s] # None => req[r].found[s].path = h.path
  BY <1>0, <1>1 DEF Fits, Goes
<1>7. ~ req[r].undone => Own(req[r]) \/ Files(req[r].path) # {}
  BY <1>1 DEF Fits, Kept
<1>8. CASE Len(req[r].entries) > 1 /\ Becomes(r, new) /\ UNCHANGED promised
  <2>1. Tail(req[r].entries) # <<>>
    <3>1. Len(req[r].entries) > 1 /\ Len(req[r].entries) \in Nat
      BY <1>2, <1>8, LenProperties
    <3>2. PICK n \in Nat : n > 1 /\ n = Len(req[r].entries)
      BY <3>1
    <3>3. Len(Tail(req[r].entries)) = n - 1
      BY <1>2, <3>2, HeadTailProperties
    <3>4. n - 1 # 0
      BY <3>2
    <3>5. Len(<<>>) = 0
      BY EmptySeq
    <3> QED
      BY <3>3, <3>4, <3>5, Zenon
  <2>2. NoSessions \in [Sessions -> Found \cup {None}]
    BY DEF NoSessions
  <2>3. /\ new \in RequestType
        /\ new.at = "each" /\ new.entries = Tail(req[r].entries) /\ new.kind = req[r].kind
        /\ new.path = req[r].path /\ new.session = req[r].session /\ new.id = req[r].id
        /\ new.value = req[r].value /\ new.found = NoSessions /\ new.undone = req[r].undone
    BY <1>1, <1>3, <2>2 DEF RequestType, Steps
  <2>4. Only(r) /\ req'[r] = new
    BY <1>8, <2>3, Becoming
  <2>. HIDE DEF new
  <2>5. \A j \in Ids : \A p \in Paths : Has(req'[r].entries, j, p) => Filed(j, p)
    BY <1>3, <2>3, <2>4 DEF Filed
  <2>6. /\ disk' \in [Ids -> Persistence \cup {None}]
        /\ h.id \in Files(h.path)' /\ \A x \in Paths : Files(x) # {} => Files(x)' # {}
        /\ OneHome' /\ Lists(r)
    BY <1>1, <1>4, <1>5, <1>6, <2>3, <2>4, <2>5, RewrittenStays
  <2>7. Fits(req[r])'
    <3>1. Shape(req[r])' /\ Goes(req[r])'
      BY <1>1, <1>2, <2>1, <2>3, <2>4 DEF Fits, Shape, Goes, Creating
    <3>2. ASSUME ~ req[r].undone, NEW x \in Paths, x = req[r].path PROVE Own(req[r])' \/ Files(x)' # {}
      <4>1. CASE Files(x) # {}
        BY <2>6, <4>1
      <4>2. CASE Own(req[r])
        <5>1. PICK i \in Ids : Has(req[r].entries, i, req[r].path)
          BY <4>2 DEF Own
        <5>2. CASE h.id = i /\ h.path = req[r].path
          BY <2>6, <3>2, <5>2
        <5>3. CASE Has(Tail(req[r].entries), i, req[r].path)
          BY <2>3, <2>4, <5>3 DEF Own
        <5> QED
          BY <1>3, <5>1, <5>2, <5>3
      <4> QED
        BY <1>7, <3>2, <4>1, <4>2
    <3>3. Kept(req[r])'
      BY <1>2, <2>3, <2>4, <3>2 DEF Kept
    <3> QED
      BY <3>1, <3>3 DEF Fits
  <2>8. Warned'
    BY <1>8, <2>3, <2>4, SameIsWarned DEF Same
  <2>9. RegistrationSurvives' /\ FilesStay /\ Typed
    BY <1>1, <1>8, <2>6 DEF IInv, TypeOK, RegistrationSurvives, FilesStay, Typed
  <2> QED
    BY <1>1, <2>3, <2>4, <2>6, <2>7, <2>8, <2>9, StepKeeps DEF At
<1>9. CASE Len(req[r].entries) = 1 /\ Finish(r, TRUE)
  <2>1. Only(r) /\ req'[r] = Idle
    BY <1>9, IdleIsTyped, Becoming DEF Finish
  <2>2. \A j, p : ~ Has(req'[r].entries, j, p)
    BY <2>1, NoEntries DEF Idle
  <2>3. req'[r].found = NoSessions /\ req'[r].at = "idle"
    BY <2>1 DEF Idle
  <2>4. /\ disk' \in [Ids -> Persistence \cup {None}]
        /\ h.id \in Files(h.path)' /\ \A x \in Paths : Files(x) # {} => Files(x)' # {}
        /\ OneHome' /\ Lists(r)
    BY <1>1, <1>4, <1>5, <1>6, <2>1, <2>2, <2>3, RewrittenStays
  <2>5. \A i, p : ~ Has(Tail(req[r].entries), i, p)
    <3>1. Len(Tail(req[r].entries)) = 0
      BY <1>2, <1>9, HeadTailProperties
    <3>2. Tail(req[r].entries) = <<>>
      BY <1>3, <3>1, EmptySeq
    <3> QED
      BY <3>2, NoEntries
  <2>6. ASSUME ~ req[r].undone, NEW p \in Paths, p = req[r].path PROVE Files(p)' # {}
    <3>1. CASE Files(p) # {}
      BY <2>4, <3>1
    <3>2. CASE Own(req[r])
      BY <1>3, <2>4, <2>5, <2>6, <3>2 DEF Own
    <3> QED
      BY <1>7, <2>6, <3>1, <3>2
  <2>7. \A p \in promised : Files(p)' # {}
    BY <1>1, <2>4 DEF IInv, RegistrationSurvives
  <2>8. /\ Only(r) /\ Fits(req[r])' /\ promised' \subseteq Paths
        /\ Warned' /\ RegistrationSurvives' /\ req'[r] = Idle
    BY <1>1, <1>9, <2>6, <2>7, FinishKeeps
  <2>9. FilesStay /\ Typed
    BY <1>1, <2>4, <2>8 DEF IInv, TypeOK, FilesStay, Typed
  <2> QED
    BY <1>1, <2>3, <2>4, <2>8, <2>9, StepKeeps DEF At
<1> QED
  BY <1>8, <1>9 DEF WriteEntry
-----------------------------------------------------------------------------
(***************************************************************************)
(* create_session.                                                         *)
(***************************************************************************)
LEMMA FindKeeps == ASSUME IInv, NEW r \in Requests, Find(r) PROVE IInv'
<1>1. PICK i \in IF FindByPath(req[r].path) = {} THEN Ids \ made ELSE FindByPath(req[r].path) :
         made' = made \cup {i} /\ Becomes(r, [req[r] EXCEPT !.at = "enroll", !.id = i])
  BY DEF Find
<1>. DEFINE new == [req[r] EXCEPT !.at = "enroll", !.id = i]
<1>2. /\ req[r] \in RequestType /\ Fits(req[r]) /\ req[r].at = "find"
      /\ UNCHANGED <<disk, registry, handles, promised>> /\ made \subseteq Ids
  BY DEF IInv, TypeOK, Find, At
<1>3. i \in Ids /\ (i \notin made \/ registry[i] = req[r].path)
  BY <1>1 DEF FindByPath
<1>4. req[r].path \in Paths /\ req[r].kind = "create" /\ req[r].session \in Sessions
  BY <1>2 DEF Fits, Shape, Creating
<1>5. /\ new \in RequestType
      /\ new.at = "enroll" /\ new.entries = req[r].entries /\ new.kind = req[r].kind
      /\ new.path = req[r].path /\ new.session = req[r].session /\ new.id = i
      /\ new.value = req[r].value /\ new.found = req[r].found /\ new.undone = req[r].undone
  BY <1>2, <1>3 DEF RequestType, Steps
<1>6. Only(r) /\ req'[r] = new
  BY <1>1, <1>5, Becoming
<1>. HIDE DEF new
<1>7. Fits(req[r])'
  BY <1>3, <1>4, <1>5, <1>6 DEF Fits, Shape, Goes, Kept, Creating
<1>8. Warned'
  BY <1>2, <1>5, <1>6, SameIsWarned DEF Same
<1>9. OneHome'
  <2>1. \A s \in Sessions : \A p \in Paths : Copied(s, p)' => Lives(s, p)
    <3>1. Creating(req[r])
      BY <1>2 DEF Creating
    <3>2. Lives(req'[r].session, req'[r].path)
      BY <1>4, <1>5, <1>6, <3>1 DEF Lives
    <3> QED
      BY <1>5, <1>6, <3>2, CopiesAreHome DEF Lives
  <2> QED
    BY <1>2, <2>1, HomesStay DEF Homes, Lives, Copied
<1>10. \A j \in Ids : \A p \in Paths : Has(req'[r].entries, j, p) => Filed(j, p)
  BY <1>5, <1>6 DEF Filed
<1>11. \A j \in Ids : \A p \in Paths : Filed(j, p)' => Filed(j, p)
  BY <1>2, <1>6, <1>10 DEF Filed, Only
<1>12. \A p \in Paths : Filed(i, p)' => Spells(req[r].path, p)
  <2> SUFFICES ASSUME NEW p \in Paths, Filed(i, p) PROVE Spells(req[r].path, p)
    BY <1>3, <1>11
  <2>1. i \in made
    BY <1>3 DEF IInv, Generated
  <2>2. registry[i] = req[r].path /\ registry[i] # None
    BY <1>3, <1>4, <2>1, NoneAssumption
  <2> QED
    BY <1>3, <2>2 DEF IInv, Enrolled
<1> QED
  BY <1>1, <1>2, <1>3, <1>5, <1>6, <1>7, <1>8, <1>9, <1>10, <1>12, MoveKeeps DEF At

LEMMA EnrollKeeps == ASSUME IInv, NEW r \in Requests, Enroll(r) PROVE IInv'
<1>. DEFINE new == [req[r] EXCEPT !.at = "start"]
<1>1. /\ req[r] \in RequestType /\ Fits(req[r]) /\ req[r].at = "enroll"
      /\ UNCHANGED <<disk, handles, made, promised>> /\ made \subseteq Ids
      /\ Enter(req[r].id, req[r].path) /\ Becomes(r, new)
  BY DEF IInv, TypeOK, Enroll, At, Goto
<1>2. /\ req[r].path \in Paths /\ req[r].id \in Ids /\ req[r].session \in Sessions
      /\ req[r].kind = "create"
  BY <1>1 DEF Fits, Shape, Creating
<1>3. /\ new \in RequestType
      /\ new.at = "start" /\ new.entries = req[r].entries /\ new.kind = req[r].kind
      /\ new.path = req[r].path /\ new.session = req[r].session /\ new.id = req[r].id
      /\ new.value = req[r].value /\ new.found = req[r].found /\ new.undone = req[r].undone
  BY <1>1 DEF RequestType, Steps
<1>4. Only(r) /\ req'[r] = new
  BY <1>1, <1>3, Becoming
<1>. HIDE DEF new
<1>5. Fits(req[r])'
  BY <1>2, <1>3, <1>4 DEF Fits, Shape, Goes, Kept, Creating
<1>6. Warned'
  BY <1>1, <1>3, <1>4, SameIsWarned DEF Same
<1>7. OneHome'
  <2>1. Lives(req'[r].session, req'[r].path)
    BY <1>1, <1>2, <1>3, <1>4 DEF Lives, Creating
  <2>2. \A s \in Sessions : \A p \in Paths : Copied(s, p)' => Lives(s, p)
    BY <1>3, <1>4, <2>1, CopiesAreHome DEF Lives
  <2> QED
    BY <1>1, <2>2, HomesStay DEF Homes, Lives, Copied
<1>8. \A j \in Ids : \A p \in Paths : Filed(j, p)' => Filed(j, p)
  BY <1>1, <1>3, <1>4 DEF Filed, Only
<1>9. Lists(r)
  BY <1>8 DEF Lists
<1>10. PICK i \in Ids, x \in Paths : i = req[r].id /\ x = req[r].path
  BY <1>2
<1>11. i \in made /\ \A p \in Paths : Filed(i, p)' => Spells(x, p)
  BY <1>1, <1>8, <1>10 DEF IInv, Enrolled, Generated, At
<1>12. /\ registry' \in [Ids -> Paths \cup {None}]
       /\ \A j \in Ids : registry'[j] # registry[j] => j = i
       /\ \A p \in Paths : Filed(i, p)' => Spells(registry'[i], p)
  BY <1>1, <1>10, <1>11, EnterSpells
<1>13. FilesStay /\ RegistrationSurvives' /\ Typed
  BY <1>1, <1>12 DEF IInv, FilesStay, Files, RegistrationSurvives, Typed, TypeOK
<1>14. \A j \in Ids : registry'[j] # registry[j] =>
          j \in made' /\ \A p \in Paths : Filed(j, p)' => Spells(registry'[j], p)
  BY <1>1, <1>11, <1>12
<1> QED
  BY <1>1, <1>3, <1>4, <1>5, <1>6, <1>7, <1>9, <1>13, <1>14, StepKeeps DEF At

-----------------------------------------------------------------------------
(***************************************************************************)
(* The handles of sessions.                                                *)
(***************************************************************************)
\* A step that gives a session a handle where it lives.
LEMMA HandleKeeps ==
  ASSUME IInv, NEW r \in Requests, NEW s \in Sessions, NEW h \in Handle, Lives(s, h.path),
         handles' = [handles EXCEPT ![s] = h], UNCHANGED <<disk, registry, made, promised>>,
         Only(r), Same(r), Fits(req[r])', ~ Creating(req[r])',
         req'[r].at \notin {"stop", "label"}, req'[r].entries = req[r].entries,
         \A x \in Sessions : req'[r].found[x] \in {req[r].found[x], None}
  PROVE  IInv'
<1>1. /\ handles' \in [Sessions -> Handle \cup {None}]
      /\ handles'[s] = h /\ h # None /\ \A x \in Sessions : x # s => handles'[x] = handles[x]
  BY NoneAssumption DEF IInv, TypeOK
<1>2. Lists(r)
  BY DEF Lists, Filed, Only
<1>3. FilesStay /\ RegistrationSurvives' /\ Typed
  BY <1>1 DEF IInv, FilesStay, Files, RegistrationSurvives, Typed, TypeOK
<1>4. Warned'
  BY SameIsWarned
<1>5. OneHome'
  <2>1. \A x \in Sessions : \A p \in Paths : Copied(x, p)' => Lives(x, p)
    <3>1. \A x \in Sessions : req'[r].found[x] # None => Lives(x, req'[r].found[x].path)
      BY DEF Lives
    <3> QED
      BY <3>1, CopiesAreHome
  <2>2. ASSUME NEW x \in Sessions, NEW p \in Paths, Lives(x, p)' PROVE Lives(x, p)
    <3>1. CASE handles'[x] # None /\ handles'[x].path = p
      BY <1>1, <3>1 DEF Lives
    <3> QED
      BY <2>1, <2>2, <3>1 DEF Lives, Copied
  <2> QED
    BY <2>2, HomesStay DEF Homes
<1>6. ~ At(r, "enroll")'
  BY DEF At, Creating
<1> QED
  BY <1>1, <1>2, <1>3, <1>4, <1>5, <1>6, StepKeeps DEF Same

LEMMA StartKeeps == ASSUME IInv, NEW r \in Requests, Start(r) PROVE IInv'
<1>. DEFINE new == [req[r] EXCEPT !.at = "collect"]
            h == [path |-> req[r].path, label |-> FirstLabel, active |-> TRUE]
<1>1. /\ req[r] \in RequestType /\ Fits(req[r]) /\ req[r].at = "start"
      /\ UNCHANGED <<disk, registry, made, promised>>
      /\ handles' = [handles EXCEPT ![req[r].session] = h] /\ Becomes(r, new)
  BY DEF IInv, TypeOK, Start, At, Goto
<1>2. req[r].path \in Paths /\ req[r].session \in Sessions /\ req[r].kind = "create"
  BY <1>1 DEF Fits, Shape, Creating
<1>3. /\ new \in RequestType
      /\ new.at = "collect" /\ new.entries = req[r].entries /\ new.kind = req[r].kind
      /\ new.path = req[r].path /\ new.session = req[r].session /\ new.id = req[r].id
      /\ new.value = req[r].value /\ new.found = req[r].found /\ new.undone = req[r].undone
  BY <1>1 DEF RequestType, Steps
<1>4. Only(r) /\ req'[r] = new
  BY <1>1, <1>3, Becoming
<1>5. h \in Handle /\ h.path = req[r].path
  BY <1>2, FirstAssumption DEF Handle
<1>. HIDE DEF new, h
<1>6. Lives(req[r].session, h.path)
  BY <1>1, <1>2, <1>5 DEF Lives, Creating
<1>7. Fits(req[r])' /\ ~ Creating(req[r])'
  BY <1>1, <1>2, <1>3, <1>4 DEF Fits, Shape, Goes, Kept, Creating, Saves
<1>8. PICK s \in Sessions, g \in Handle : s = req[r].session /\ g = h
  BY <1>2, <1>5
<1> QED
  BY <1>1, <1>3, <1>4, <1>6, <1>7, <1>8, HandleKeeps DEF Same

LEMMA StopOrLabelKeeps == ASSUME IInv, NEW r \in Requests, Stop(r) \/ Label(r) PROVE IInv'
<1>. DEFINE new == [req[r] EXCEPT !.at = "collect"]
            old == handles[req[r].session]
<1>1. /\ req[r] \in RequestType /\ Fits(req[r]) /\ req[r].at \in {"stop", "label"}
      /\ UNCHANGED <<disk, registry, made, promised>> /\ Becomes(r, new)
  BY DEF IInv, TypeOK, Stop, Label, At, Goto
<1>2. /\ req[r].session \in Sessions /\ req[r].kind = req[r].at /\ req[r].path \in Paths
      /\ req[r].at = "label" => req[r].value \in Labels
  BY <1>1 DEF Fits, Shape
<1>3. old \in Handle
  BY <1>1, <1>2 DEF IInv, TypeOK, Present
<1>4. PICK h \in Handle : handles' = [handles EXCEPT ![req[r].session] = h] /\ h.path = old.path
  <2>1. CASE Stop(r)
    <3>1. [old EXCEPT !.active = FALSE] \in Handle /\ [old EXCEPT !.active = FALSE].path = old.path
      BY <1>3 DEF Handle
    <3>2. handles' = [handles EXCEPT ![req[r].session] = [old EXCEPT !.active = FALSE]]
      BY <2>1 DEF Stop
    <3> QED
      BY <3>1, <3>2
  <2>2. CASE Label(r)
    <3>1. /\ [old EXCEPT !.label = req[r].value] \in Handle
          /\ [old EXCEPT !.label = req[r].value].path = old.path
      BY <1>2, <1>3, <2>2 DEF Handle, Label, At
    <3>2. handles' = [handles EXCEPT ![req[r].session] = [old EXCEPT !.label = req[r].value]]
      BY <2>2 DEF Label
    <3> QED
      BY <3>1, <3>2
  <2> QED
    BY <2>1, <2>2
<1>5. /\ new \in RequestType
      /\ new.at = "collect" /\ new.entries = req[r].entries /\ new.kind = req[r].kind
      /\ new.path = req[r].path /\ new.session = req[r].session /\ new.id = req[r].id
      /\ new.value = req[r].value /\ new.found = req[r].found /\ new.undone = req[r].undone
  BY <1>1 DEF RequestType, Steps
<1>6. Only(r) /\ req'[r] = new
  BY <1>1, <1>5, Becoming
<1>. HIDE DEF new
<1>7. Lives(req[r].session, h.path)
  <2>1. old # None
    BY <1>3, NoneAssumption
  <2> QED
    BY <1>2, <1>4, <2>1 DEF Lives
<1>8. Fits(req[r])' /\ ~ Creating(req[r])'
  BY <1>1, <1>2, <1>5, <1>6 DEF Fits, Shape, Goes, Kept, Creating, Saves
<1>9. PICK s \in Sessions : s = req[r].session
  BY <1>2
<1> QED
  BY <1>1, <1>4, <1>5, <1>6, <1>7, <1>8, <1>9, HandleKeeps DEF Same

LEMMA InsertKeeps == ASSUME IInv, NEW r \in Requests, Insert(r) PROVE IInv'
<1>. DEFINE copy == req[r].found[req[r].session]
            h == [path |-> copy.path, label |-> copy.label, active |-> TRUE]
            new == [req[r] EXCEPT !.at = "read", !.session = None, !.found[req[r].session] = None]
<1>1. /\ req[r] \in RequestType /\ Fits(req[r]) /\ req[r].at = "insert"
      /\ UNCHANGED <<disk, registry, made, promised>>
      /\ handles' = [handles EXCEPT ![req[r].session] = h] /\ Becomes(r, new)
  BY DEF IInv, TypeOK, Insert, At
<1>2. req[r].session \in Sessions /\ req[r].kind = "bootstrap" /\ copy # None
  BY <1>1 DEF Fits, Shape
<1>3. copy \in Found
  BY <1>1, <1>2 DEF RequestType
<1>4. h \in Handle /\ h.path = copy.path
  BY <1>3 DEF Found, Handle
<1>5. Lives(req[r].session, copy.path)
  BY <1>2 DEF Lives
<1>6. /\ new \in RequestType
      /\ new.at = "read" /\ new.entries = req[r].entries /\ new.kind = req[r].kind
      /\ new.path = req[r].path /\ new.undone = req[r].undone
      /\ \A x \in Sessions : new.found[x] \in {req[r].found[x], None}
  BY <1>1, <1>2 DEF RequestType, Steps
<1>7. Only(r) /\ req'[r] = new
  BY <1>1, <1>6, Becoming
<1>. HIDE DEF new, h
<1>8. Fits(req[r])' /\ ~ Creating(req[r])'
  BY <1>1, <1>2, <1>6, <1>7 DEF Fits, Shape, Goes, Kept, Creating, Saves
<1>9. PICK s \in Sessions, g \in Handle : s = req[r].session /\ g = h
  BY <1>2, <1>4
<1> QED
  BY <1>1, <1>4, <1>5, <1>6, <1>7, <1>8, <1>9, HandleKeeps DEF Same
-----------------------------------------------------------------------------
(***************************************************************************)
(* persist_workspace_agents_snapshot and save_workspace_agents.            *)
(***************************************************************************)
LEMMA CollectKeeps == ASSUME IInv, NEW r \in Requests, Collect(r) PROVE IInv'
<1>. DEFINE found == [s \in Sessions |-> IF IsActive(s) /\ handles[s].path = req[r].path
                                           THEN [path |-> req[r].path, label |-> handles[s].label] ELSE None]
            new == [req[r] EXCEPT !.at = "list", !.found = found]
<1>1. /\ req[r] \in RequestType /\ Fits(req[r]) /\ req[r].at = "collect"
      /\ UNCHANGED <<disk, registry, handles, made, promised>> /\ made \subseteq Ids
      /\ Becomes(r, new)
  BY DEF IInv, TypeOK, Collect, At
<1>2. req[r].kind \in {"create", "stop", "label"} /\ req[r].path \in Paths
  BY <1>1 DEF Fits, Shape, Saves
<1>3. /\ found \in [Sessions -> Found \cup {None}]
      /\ \A s \in Sessions : found[s] # None => Lives(s, found[s].path) /\ found[s].path = req[r].path
  <2>1. ASSUME NEW s \in Sessions, found[s] # None
        PROVE  found[s] \in Found /\ Lives(s, found[s].path) /\ found[s].path = req[r].path
    <3>1. /\ handles[s] # None /\ handles[s].path = req[r].path
          /\ found[s] = [path |-> req[r].path, label |-> handles[s].label]
      BY <2>1 DEF IsActive
    <3>2. handles[s].label \in Labels
      BY <3>1 DEF IInv, TypeOK, Handle
    <3> QED
      BY <1>2, <3>1, <3>2 DEF Found, Lives
  <2> QED
    BY <2>1
<1>. HIDE DEF found
<1>4. /\ new \in RequestType
      /\ new.at = "list" /\ new.entries = req[r].entries /\ new.kind = req[r].kind
      /\ new.path = req[r].path /\ new.session = req[r].session /\ new.id = req[r].id
      /\ new.value = req[r].value /\ new.found = found /\ new.undone = req[r].undone
  BY <1>1, <1>3 DEF RequestType, Steps
<1>5. Only(r) /\ req'[r] = new
  BY <1>1, <1>4, Becoming
<1>. HIDE DEF new
<1>6. Fits(req[r])'
  BY <1>1, <1>2, <1>3, <1>4, <1>5 DEF Fits, Shape, Goes, Kept, Creating
<1>7. Warned'
  BY <1>1, <1>4, <1>5, SameIsWarned DEF Same
<1>8. OneHome'
  <2>1. \A s \in Sessions : \A p \in Paths : Copied(s, p)' => Lives(s, p)
    BY <1>3, <1>4, <1>5, CopiesAreHome DEF Creating
  <2> QED
    BY <1>1, <2>1, HomesStay DEF Homes, Lives, Copied
<1>9. \A j \in Ids : \A p \in Paths : Has(req'[r].entries, j, p) => Filed(j, p)
  BY <1>4, <1>5 DEF Filed
<1> QED
  BY <1>1, <1>4, <1>5, <1>6, <1>7, <1>8, <1>9, MoveKeeps DEF At

LEMMA SaveAgentsKeeps == ASSUME IInv, NEW r \in Requests, SaveAgents(r) PROVE IInv'
<1>1. /\ req[r] \in RequestType /\ Fits(req[r]) /\ req[r].at = "read" /\ req[r].kind \in Saves
      /\ UNCHANGED <<registry, handles>> /\ made \subseteq Ids /\ promised \subseteq Paths
      /\ Finish(r, TRUE)
  BY DEF IInv, TypeOK, SaveAgents, Loaded, At
<1>2. PICK p \in Paths : p = req[r].path
  BY <1>1 DEF Fits, Shape, Saves
<1>3. PICK i \in Ids :
         /\ Rewritten(r, i, p)
         /\ made \subseteq made' /\ made' \subseteq Ids
         /\ Filed(i, p) \/ (i \in made' \ made /\ p = req[r].path)
  <2>1. CASE \E e \in Mine(r) :
                /\ disk' = [disk EXCEPT ![e.id] = [path |-> e.path, name |-> e.name,
                                                   agents |-> Entries(req[r].found)]]
                /\ UNCHANGED made
    <3>1. PICK e \in Mine(r) :
                /\ disk' = [disk EXCEPT ![e.id] = [path |-> e.path, name |-> e.name,
                                                   agents |-> Entries(req[r].found)]]
                /\ UNCHANGED made
      BY <2>1
    <3>2. e \in WorkspaceEntry /\ e.path = p /\ Filed(e.id, e.path)
      BY <1>2, MineIsFiled
    <3> QED
      BY <1>1, <3>1, <3>2 DEF WorkspaceEntry, Rewritten
  <2>2. CASE \E i \in Ids \ made :
                /\ made' = made \cup {i}
                /\ disk' = [disk EXCEPT ![i] = [path |-> req[r].path, name |-> FirstName,
                                                agents |-> Entries(req[r].found)]]
    BY <1>1, <1>2, <2>2, FirstAssumption DEF Rewritten
  <2> QED
    BY <2>1, <2>2 DEF SaveAgents
<1>4. Only(r) /\ req'[r] = Idle
  BY <1>1, IdleIsTyped, Becoming DEF Finish
<1>5. \A j, x : ~ Has(req'[r].entries, j, x)
  BY <1>4, NoEntries DEF Idle
<1>6. req'[r].found = NoSessions /\ req'[r].at = "idle"
  BY <1>4 DEF Idle
<1>7. \A s \in Sessions : req[r].found[s] # None => req[r].found[s].path = p
  BY <1>1, <1>2 DEF Fits, Goes
<1>8. /\ disk' \in [Ids -> Persistence \cup {None}]
      /\ i \in Files(p)' /\ \A x \in Paths : Files(x) # {} => Files(x)' # {}
      /\ OneHome' /\ Lists(r)
  BY <1>1, <1>3, <1>4, <1>5, <1>6, <1>7, RewrittenStays
<1>9. \A x \in Paths : x = req[r].path => Files(x)' # {}
  BY <1>2, <1>8
<1>10. \A x \in promised : Files(x)' # {}
  BY <1>1, <1>8 DEF IInv, RegistrationSurvives
<1>11. /\ Only(r) /\ Fits(req[r])' /\ promised' \subseteq Paths
       /\ Warned' /\ RegistrationSurvives' /\ req'[r] = Idle
  BY <1>1, <1>9, <1>10, FinishKeeps
<1>12. FilesStay /\ Typed
  BY <1>1, <1>3, <1>8, <1>11 DEF IInv, TypeOK, FilesStay, Typed
<1> QED
  BY <1>1, <1>6, <1>8, <1>11, <1>12, StepKeeps DEF At

-----------------------------------------------------------------------------
(***************************************************************************)
(* bootstrap.                                                              *)
(***************************************************************************)
\* A step of bootstrap that only moves it, or gives up what it has found.
LEMMA BootKeeps ==
  ASSUME IInv, NEW r \in Requests, req[r].kind = "bootstrap",
         UNCHANGED <<disk, registry, handles, made, promised>>,
         Only(r), Same(r), req'[r].at \in {"read", "insert"}, Shape(req[r])',
         \A i \in Ids : \A p \in Paths : Has(req'[r].entries, i, p) => Filed(i, p),
         \A s \in Sessions : req'[r].found[s] # None => Lives(s, req'[r].found[s].path)
  PROVE  IInv'
<1>1. Fits(req[r])'
  BY DEF Fits, Goes, Kept, Same, Saves
<1>2. Warned'
  BY SameIsWarned
<1>3. ~ Creating(req[r])'
  BY DEF Creating
<1>4. OneHome'
  <2>1. \A s \in Sessions : \A p \in Paths : Copied(s, p)' => Lives(s, p)
    BY <1>3, CopiesAreHome
  <2> QED
    BY <2>1, HomesStay DEF Homes, Lives, Copied
<1>5. made \subseteq Ids
  BY DEF IInv, TypeOK
<1> QED
  BY <1>1, <1>2, <1>4, <1>5, MoveKeeps DEF At

LEMMA ScanKeeps == ASSUME IInv, NEW r \in Requests, Scan(r) PROVE IInv'
<1>1. /\ req[r] \in RequestType /\ Fits(req[r]) /\ req[r].at = "read" /\ req[r].kind = "bootstrap"
      /\ UNCHANGED <<disk, registry, handles, made, promised>> /\ req[r].entries # <<>>
  BY DEF IInv, TypeOK, Scan, Loaded, At
<1>2. PICK read \in {NoSessions} \cup {FoundIn(i) : i \in Ids} :
         Becomes(r, [req[r] EXCEPT !.entries = Tail(@),
                       !.found = [s \in Sessions |-> IF read[s] = None THEN req[r].found[s] ELSE read[s]]])
  BY DEF Scan, Files
<1>. DEFINE found == [s \in Sessions |-> IF read[s] = None THEN req[r].found[s] ELSE read[s]]
            new == [req[r] EXCEPT !.entries = Tail(@), !.found = found]
<1>3. /\ found \in [Sessions -> Found \cup {None}]
      /\ \A s \in Sessions : found[s] # None => Lives(s, found[s].path)
  <2>1. ASSUME NEW s \in Sessions, read[s] # None
        PROVE  read[s] \in Found /\ Lives(s, read[s].path)
    <3>1. PICK i \in Ids : read = FoundIn(i)
      BY <1>2, <2>1 DEF NoSessions
    <3>2. /\ disk[i] # None /\ disk[i].agents[s] # None
          /\ read[s] = [path |-> disk[i].path, label |-> disk[i].agents[s]]
      BY <2>1, <3>1 DEF FoundIn
    <3>3. disk[i].path \in Paths /\ disk[i].agents[s] \in Labels
      BY <3>2 DEF IInv, TypeOK, Persistence, Saved
    <3> QED
      BY <3>2, <3>3 DEF Found, Lives
  <2>2. ASSUME NEW s \in Sessions, req[r].found[s] # None
        PROVE  req[r].found[s] \in Found /\ Lives(s, req[r].found[s].path)
    BY <1>1, <2>2 DEF RequestType, Lives
  <2> QED
    BY <2>1, <2>2
<1>4. Becomes(r, new)
  BY <1>2
<1>. HIDE DEF found
<1>5. /\ req[r].entries \in Seq(WorkspaceEntry) /\ Tail(req[r].entries) \in Seq(WorkspaceEntry)
      /\ \A i, p : Has(Tail(req[r].entries), i, p) => Has(req[r].entries, i, p)
  <2>1. req[r].entries \in Seq(WorkspaceEntry)
    BY <1>1 DEF RequestType
  <2> QED
    BY <1>1, <2>1, HeadAndTail
<1>6. /\ new \in RequestType
      /\ new.at = "read" /\ new.entries = Tail(req[r].entries) /\ new.kind = req[r].kind
      /\ new.path = req[r].path /\ new.found = found /\ new.undone = req[r].undone
  BY <1>1, <1>3, <1>5 DEF RequestType
<1>7. Only(r) /\ req'[r] = new
  BY <1>4, <1>6, Becoming
<1>. HIDE DEF new
<1>8. Shape(req[r])'
  BY <1>1, <1>6, <1>7 DEF Shape, Creating
<1>9. \A i \in Ids : \A p \in Paths : Has(req'[r].entries, i, p) => Filed(i, p)
  BY <1>5, <1>6, <1>7 DEF Filed
<1> QED
  BY <1>1, <1>3, <1>6, <1>7, <1>8, <1>9, BootKeeps DEF Same

LEMMA CheckKeeps == ASSUME IInv, NEW r \in Requests, Check(r) PROVE IInv'
<1>1. /\ req[r] \in RequestType /\ Fits(req[r]) /\ req[r].at = "read" /\ req[r].kind = "bootstrap"
      /\ UNCHANGED <<disk, registry, handles, made, promised>>
  BY DEF IInv, TypeOK, Check, Loaded, At
<1>2. PICK s \in Sessions :
         /\ req[r].found[s] # None
         /\ \/ Becomes(r, [req[r] EXCEPT !.found[s] = None])
            \/ Becomes(r, [req[r] EXCEPT !.at = "insert", !.session = s])
  BY DEF Check
<1>3. PICK new \in RequestType :
         /\ Becomes(r, new)
         /\ new.at \in {"read", "insert"} /\ new.entries = req[r].entries /\ new.kind = req[r].kind
         /\ new.path = req[r].path /\ new.undone = req[r].undone
         /\ \A x \in Sessions : new.found[x] \in {req[r].found[x], None}
         /\ new.at = "insert" => new.session \in Sessions /\ new.found[new.session] # None
  <2>1. CASE Becomes(r, [req[r] EXCEPT !.found[s] = None])
    BY <1>1, <2>1 DEF RequestType
  <2>2. CASE Becomes(r, [req[r] EXCEPT !.at = "insert", !.session = s])
    <3>. DEFINE new == [req[r] EXCEPT !.at = "insert", !.session = s]
    <3>1. /\ new \in RequestType
          /\ new.at = "insert" /\ new.entries = req[r].entries /\ new.kind = req[r].kind
          /\ new.path = req[r].path /\ new.undone = req[r].undone
          /\ new.found = req[r].found /\ new.session = s
      BY <1>1 DEF RequestType, Steps
    <3>2. Becomes(r, new)
      BY <2>2
    <3>. HIDE DEF new
    <3> QED
      BY <1>2, <3>1, <3>2
  <2> QED
    BY <1>2, <2>1, <2>2
<1>4. Only(r) /\ req'[r] = new
  BY <1>3, Becoming
<1>5. Shape(req[r])'
  BY <1>1, <1>3, <1>4 DEF Shape, Creating
<1>6. \A i \in Ids : \A p \in Paths : Has(req'[r].entries, i, p) => Filed(i, p)
  BY <1>3, <1>4 DEF Filed
<1>7. \A x \in Sessions : req'[r].found[x] # None => Lives(x, req'[r].found[x].path)
  BY <1>3, <1>4 DEF Lives
<1> QED
  BY <1>1, <1>3, <1>4, <1>5, <1>6, <1>7, BootKeeps DEF Same

LEMMA BootstrappedKeeps == ASSUME IInv, NEW r \in Requests, Bootstrapped(r) PROVE IInv'
<1>1. /\ Finish(r, TRUE) /\ UNCHANGED <<disk, registry, handles, made>>
      /\ req[r].at = "read" /\ req[r].kind = "bootstrap"
  BY DEF Bootstrapped, Loaded, At
<1>2. registry' \in [Ids -> Paths \cup {None}]
  BY <1>1 DEF IInv, TypeOK
<1> QED
  BY <1>1, <1>2, QuitKeeps
-----------------------------------------------------------------------------
(***************************************************************************)
(* Processes that end, and the daemon that does.                           *)
(***************************************************************************)
LEMMA ExitKeeps == ASSUME IInv, Exit PROVE IInv'
<1>1. /\ UNCHANGED <<disk, registry, made, req, promised>>
      /\ \A r \in Requests : req'[r] = req[r]
  BY DEF Exit
<1>2. PICK s \in Sessions : handles[s] # None /\ handles' = [handles EXCEPT ![s].active = FALSE]
  BY DEF Exit, IsActive
<1>3. /\ handles' \in [Sessions -> Handle \cup {None}]
      /\ \A x \in Sessions : /\ handles[x] # None <=> handles'[x] # None
                             /\ handles[x] # None => handles'[x].path = handles[x].path
  <2>1. handles[s] \in Handle
    BY <1>2 DEF IInv, TypeOK
  <2>. DEFINE h == [handles[s] EXCEPT !.active = FALSE]
  <2>2. h \in Handle /\ h.path = handles[s].path
    BY <2>1 DEF Handle
  <2>3. h # None
    BY <2>2, NoneAssumption
  <2>4. handles' = [handles EXCEPT ![s] = h]
    BY <1>2
  <2>. HIDE DEF h
  <2> QED
    BY <1>2, <2>2, <2>3, <2>4 DEF IInv, TypeOK
<1>4. TypeOK'
  BY <1>1, <1>3 DEF IInv, TypeOK, At
<1>5. \A r \in Requests : Fits(req[r])'
  BY <1>1 DEF IInv, Fits, Shape, Goes, Kept, Own, Files, Creating
<1>6. OnePath' /\ Enrolled' /\ Generated'
  BY <1>1 DEF IInv, OnePath, Enrolled, Generated, Filed, At
<1>7. OneHome'
  <2>1. Homes
    BY <1>1, <1>3 DEF Homes, Lives, Creating
  <2> QED
    BY <2>1, HomesStay
<1>8. Present'
  BY <1>1, <1>3 DEF IInv, Present, Fits, Shape
<1>9. Warned' /\ RegistrationSurvives'
  BY <1>1 DEF IInv, Warned, RegistrationSurvives, Files
<1> QED
  BY <1>4, <1>5, <1>6, <1>7, <1>8, <1>9 DEF IInv

\* What is loaded is what is saved, and nobody remembers anything else.
LEMMA RestartKeeps == ASSUME IInv, Restart PROVE IInv'
<1>1. PICK first \in [Paths -> Ids \cup {None}] :
         /\ \A p \in Paths : first[p] \in IF Files(p) = {} THEN {None} ELSE Files(p)
         /\ registry' = [i \in Ids |-> IF i \in Range(first) THEN Canonical[disk[i].path] ELSE None]
         /\ handles' = [s \in Sessions |->
               LET in == {p \in Paths : first[p] # None /\ disk[first[p]].agents[s] # None}
               IN  IF in = {} THEN None
                   ELSE LET p == CHOOSE q \in in : TRUE
                        IN  [path |-> p, label |-> disk[first[p]].agents[s], active |-> TRUE]]
  BY DEF Restart
<1>2. /\ UNCHANGED <<disk, made, promised>>
      /\ req' = [r \in Requests |-> Idle] /\ \A r \in Requests : req'[r] = Idle
  BY DEF Restart
<1>3. ASSUME NEW p \in Paths, first[p] # None
      PROVE  /\ first[p] \in Ids /\ disk[first[p]] # None /\ disk[first[p]].path = p
             /\ disk[first[p]] \in Persistence
  BY <1>1, <1>3 DEF Files, IInv, TypeOK
<1>4. ASSUME NEW i \in Ids, registry'[i] # None
      PROVE  disk[i] # None /\ disk[i].path \in Paths /\ registry'[i] = Canonical[disk[i].path]
  <2>1. i \in Range(first) /\ registry'[i] = Canonical[disk[i].path]
    BY <1>1, <1>4
  <2>2. PICK p \in Paths : first[p] = i
    BY <2>1 DEF Range
  <2>3. first[p] # None
    BY <2>2, NoneAssumption
  <2> QED
    BY <1>3, <2>1, <2>2, <2>3
<1>5. registry' \in [Ids -> Paths \cup {None}]
  <2>1. \A i \in Ids : registry'[i] \in Paths \cup {None}
    BY <1>4, PathsAssumption
  <2> QED
    BY <1>1, <2>1
<1>6. ASSUME NEW s \in Sessions, handles'[s] # None
      PROVE  /\ handles'[s] \in Handle
             /\ \E i \in Ids : /\ disk[i] # None /\ disk[i].agents[s] # None
                               /\ disk[i].path = handles'[s].path
  <2>. DEFINE in == {p \in Paths : first[p] # None /\ disk[first[p]].agents[s] # None}
  <2>1. PICK p \in in : handles'[s] = [path |-> p, label |-> disk[first[p]].agents[s], active |-> TRUE]
    <3>1. handles'[s] = IF in = {} THEN None
                        ELSE [path |-> CHOOSE q \in in : TRUE,
                              label |-> disk[first[CHOOSE q \in in : TRUE]].agents[s], active |-> TRUE]
      BY <1>1
    <3>2. in # {}
      BY <1>6, <3>1
    <3>3. (CHOOSE q \in in : TRUE) \in in
      BY <3>2
    <3>. HIDE DEF in
    <3> QED
      BY <3>1, <3>2, <3>3
  <2>2. /\ p \in Paths /\ first[p] \in Ids /\ disk[first[p]] # None /\ disk[first[p]].path = p
        /\ disk[first[p]].agents[s] # None /\ disk[first[p]].agents[s] \in Labels
    BY <1>3 DEF Persistence, Saved
  <2>3. handles'[s] \in Handle /\ handles'[s].path = p
    BY <2>1, <2>2 DEF Handle
  <2> QED
    BY <2>2, <2>3
<1>7. handles' \in [Sessions -> Handle \cup {None}]
  <2>1. \A s \in Sessions : handles'[s] \in Handle \cup {None}
    BY <1>6
  <2> QED
    BY <1>1, <2>1
<1>8. TypeOK'
  BY <1>2, <1>5, <1>7, IdleIsTyped DEF IInv, TypeOK, At, Idle
<1>9. \A r \in Requests : Fits(req[r])'
  BY <1>2 DEF Fits, Shape, Goes, Kept, Idle, Creating
<1>10. \A i \in Ids : \A p \in Paths : Filed(i, p)' => disk[i] # None /\ disk[i].path = p
  BY <1>2 DEF Filed, Has, Idle
<1>11. OnePath' /\ Enrolled' /\ Generated'
  <2>1. OnePath'
    BY <1>10 DEF OnePath
  <2>2. \A r \in Requests : ~ At(r, "enroll")'
    BY <1>2 DEF At, Idle
  <2>3. Enrolled'
    BY <1>4, <1>10, <2>2 DEF Enrolled, Spells
  <2>4. \A i \in Ids : disk[i] # None => i \in made
    BY DEF IInv, Generated, Filed, TypeOK, Persistence
  <2>5. Generated'
    BY <1>2, <1>4, <1>10, <2>2, <2>4 DEF Generated
  <2> QED
    BY <2>1, <2>3, <2>5
<1>12. OneHome'
  <2>1. \A s \in Sessions : \A p \in Paths : ~ Copied(s, p)'
    BY <1>2 DEF Copied, Idle, NoSessions, Creating
  <2>2. Homes
    BY <1>2, <1>6, <2>1 DEF Homes, Lives, Copied
  <2> QED
    BY <2>2, HomesStay
<1>13. Present' /\ Warned'
  BY <1>2 DEF Present, Warned, Idle
<1>14. RegistrationSurvives'
  BY <1>2 DEF IInv, RegistrationSurvives, Files
<1> QED
  BY <1>8, <1>9, <1>11, <1>12, <1>13, <1>14 DEF IInv
-----------------------------------------------------------------------------
LEMMA InitIInv == Init => IInv
<1> SUFFICES ASSUME Init PROVE IInv
  OBVIOUS
<1>1. \A r \in Requests : req[r] = Idle
  BY DEF Init
<1>2. TypeOK
  BY <1>1, IdleIsTyped DEF Init, TypeOK, At, Idle
<1>3. \A r \in Requests : Fits(req[r])
  <2>1. Fits(Idle)
    BY DEF Fits, Shape, Goes, Kept, Idle, Creating
  <2> QED
    BY <1>1, <2>1
<1>4. \A i \in Ids : \A p \in Paths : ~ Filed(i, p)
  BY <1>1 DEF Init, Filed, Has, Idle
<1>5. OnePath /\ Enrolled /\ Generated
  BY <1>1, <1>4 DEF Init, OnePath, Enrolled, Generated, At, Idle
<1>6. \A s \in Sessions : \A p \in Paths : ~ Lives(s, p)
  BY <1>1 DEF Init, Lives, Creating, Idle, NoSessions
<1>7. OneHome /\ Present
  BY <1>1, <1>6 DEF OneHome, Present, Idle
<1>8. Warned /\ RegistrationSurvives
  BY <1>1 DEF Init, Warned, RegistrationSurvives, Idle
<1> QED
  BY <1>2, <1>3, <1>5, <1>7, <1>8 DEF IInv

LEMMA NextIInv == IInv /\ [Next]_vars => IInv'
<1> SUFFICES ASSUME IInv, [Next]_vars PROVE IInv'
  OBVIOUS
<1>1. ASSUME NEW r \in Requests, Handles(r) PROVE IInv'
  BY <1>1, BeginsKeep, BeginCreateKeeps, BeginRemoveKeeps, ListKeeps, ReadKeeps, RegisterKnownKeeps,
     RegisterNewKeeps, ConfigureKeeps, FailsKeep, RemoveDirKeeps, ReadAgentsKeeps, WriteEntryKeeps,
     FindKeeps, EnrollKeeps, StartKeeps, StopOrLabelKeeps, CollectKeeps, SaveAgentsKeeps,
     ScanKeeps, CheckKeeps, InsertKeeps, BootstrappedKeeps DEF Handles
<1>2. CASE Exit
  BY <1>2, ExitKeeps
<1>3. CASE Restart
  BY <1>3, RestartKeeps
<1>4. CASE UNCHANGED vars
  BY <1>4 DEF vars, IInv, TypeOK, Fits, Shape, Goes, Kept, Own, Files, Creating, At, OnePath, Enrolled,
              Generated, Filed, OneHome, Lives, Present, Warned, RegistrationSurvives
<1> QED
  BY <1>1, <1>2, <1>3, <1>4 DEF Next

LEMMA Inductive == Spec => []IInv
  BY InitIInv, NextIInv, PTL DEF Spec

(***************************************************************************)
(* Every variable keeps its type, and a handler that writes has an entry   *)
(* to write, so that the loop of save_workspaces never takes the first of  *)
(* none (workspace.rs).                                                    *)
(***************************************************************************)
THEOREM TypeCorrect == Spec => []TypeOK
<1>1. IInv => TypeOK
  BY DEF IInv
<1> QED
  BY <1>1, Inductive, PTL

(***************************************************************************)
(* A workspace that a client was told is saved stays saved until a removal *)
(* of its path begins, whatever other handlers, failures and restarts do   *)
(* meanwhile (register, save_workspaces, save_workspace_agents).           *)
(***************************************************************************)
THEOREM RegistrationsSurvive == Spec => []RegistrationSurvives
<1>1. IInv => RegistrationSurvives
  BY DEF IInv
<1> QED
  BY <1>1, Inductive, PTL

(***************************************************************************)
(* An id that is registered and saved has one directory in both, although  *)
(* register, create_session and save_workspace_agents each make ids        *)
(* without asking the others.                                              *)
(***************************************************************************)
THEOREM RegistryAgrees == Spec => []RegistryAgreesWithDisk
<1>1. IInv => RegistryAgreesWithDisk
  <2> SUFFICES ASSUME IInv, NEW i \in Ids, registry[i] # None, disk[i] # None
               PROVE  registry[i] \in {disk[i].path, Canonical[disk[i].path]}
    BY DEF RegistryAgreesWithDisk
  <2>1. disk[i].path \in Paths /\ Filed(i, disk[i].path)
    BY DEF IInv, TypeOK, Persistence, Filed
  <2> QED
    BY <2>1 DEF IInv, Enrolled, Spells
<1> QED
  BY <1>1, Inductive, PTL

(***************************************************************************)
(* The files and the handle of a session name one workspace, however old   *)
(* the snapshots are that stop_session, rename_session, create_session and *)
(* bootstrap write back.                                                   *)
(***************************************************************************)
THEOREM SessionsAtHome == Spec => []SessionsStayHome
<1>1. IInv => SessionsStayHome
  <2> SUFFICES ASSUME IInv, NEW s \in Sessions, NEW i \in Ids, NEW j \in Ids, FoundIn(i)[s] # None
               PROVE  /\ FoundIn(j)[s] # None => disk[i].path = disk[j].path
                      /\ handles[s] # None => disk[i].path = handles[s].path
    BY DEF SessionsStayHome
  <2>1. \A k \in Ids : FoundIn(k)[s] # None =>
           disk[k] # None /\ disk[k].agents[s] # None /\ disk[k].path \in Paths
    BY DEF FoundIn, IInv, TypeOK, Persistence
  <2>2. \A k \in Ids : FoundIn(k)[s] # None => Lives(s, disk[k].path)
    BY <2>1 DEF Lives
  <2>3. handles[s] # None => handles[s].path \in Paths /\ Lives(s, handles[s].path)
    BY DEF IInv, TypeOK, Handle, Lives
  <2> QED
    BY <2>1, <2>2, <2>3 DEF IInv, OneHome
<1> QED
  BY <1>1, Inductive, PTL
-----------------------------------------------------------------------------
(***************************************************************************)
(* One request at a time.  The files of a path are then one record, and    *)
(* what the handler remembers of files and handles is what they are.       *)
(***************************************************************************)
OneFile(d) ==
    \A i, j \in Ids : d[i] # None /\ d[j] # None /\ d[i].path = d[j].path => i = j

\* An entry of a list that was read is what the file has.
Listed(e) == disk[e.id] # None /\ disk[e.id].path = e.path /\ disk[e.id].name = e.name

\* An entry about to be written is the same, but for what the request is about.
Changed(q, e) == q.kind = "configure" /\ e.path = q.path
New(q, e) == q.kind = "register" /\ e.path = q.path /\ disk[e.id] = None /\ Files(e.path) = {}

Due(q, e) ==
    \/ New(q, e) /\ e.name = FirstName
    \/ /\ disk[e.id] # None /\ disk[e.id].path = e.path
       /\ e.name = IF Changed(q, e) THEN q.value ELSE disk[e.id].name

OneEntry(q) == \A e, f \in ToSet(q.entries) : e.path = f.path => e.id = f.id

Follows(q) ==
    /\ q.at = "read" /\ q.kind # "bootstrap" =>
          /\ \A e \in ToSet(q.entries) : Listed(e)
          /\ \A i \in Ids : disk[i] # None =>
                i \in q.unread \/ \E e \in ToSet(q.entries) : e.path = disk[i].path
    /\ q.at \in {"each", "write"} =>
          OneEntry(q) /\ \A e \in ToSet(q.entries) : Due(q, e)
    /\ q.at = "write" => q.found = FoundIn(Head(q.entries).id)
    /\ q.kind = "bootstrap" =>
          \A s \in Sessions : q.found[s] # None => \E i \in Ids : q.found[s] = FoundIn(i)[s]
    /\ q.at = "insert" => ~IsActive(q.session)
    /\ Creating(q) => handles[q.session] = None

InOrder == OneFile(disk) /\ \A r \in Requests : Follows(req[r])

\* The abstract variables.
AnyOf(S) == CHOOSE i \in S : TRUE
RecordOf(f) == [name |-> f.name, agents |-> f.agents]
FilesIn(d, p) == {i \in Ids : d[i] # None /\ d[i].path = p}
StoreFrom(d) ==
    [p \in Paths |-> IF FilesIn(d, p) = {} THEN None
                     ELSE RecordOf(d[AnyOf(FilesIn(d, p))])]
TakenFrom(q) ==
    IF q.at \in {"list", "read"} /\ q.kind \in Saves
      THEN [path |-> q.path, agents |-> Entries(q.found)] ELSE None

LEMMA StoreIs ==
  /\ [p \in Paths |-> StoreOf(p)] = StoreFrom(disk)
  /\ [p \in Paths |-> StoreOf(p)]' = StoreFrom(disk')
<1>1. [p \in Paths |-> StoreOf(p)] = StoreFrom(disk)
  BY DEF StoreOf, TheFile, Files, StoreFrom, FilesIn, RecordOf, AnyOf
<1>2. [p \in Paths |-> StoreOf(p)]' = StoreFrom(disk')
  BY DEF StoreOf, TheFile, Files, StoreFrom, FilesIn, RecordOf, AnyOf
<1> QED
  BY <1>1, <1>2

LEMMA TakenIs ==
  ASSUME NEW r, Requests = {r}
  PROVE  TakenBy = TakenFrom(req[r]) /\ TakenBy' = TakenFrom(req'[r])
<1>1. TakenBy = TakenFrom(req[r])
  <2>1. CASE req[r].at \in {"list", "read"} /\ req[r].kind \in Saves
    <3>1. Saving = {r}
      BY <2>1 DEF Saving
    <3> QED
      BY <2>1, <3>1 DEF TakenBy, TakenFrom
  <2>2. CASE ~(req[r].at \in {"list", "read"} /\ req[r].kind \in Saves)
    <3>1. Saving = {}
      BY <2>2 DEF Saving
    <3> QED
      BY <2>2, <3>1 DEF TakenBy, TakenFrom
  <2> QED
    BY <2>1, <2>2
<1>2. TakenBy' = TakenFrom(req'[r])
  <2>1. CASE req'[r].at \in {"list", "read"} /\ req'[r].kind \in Saves
    <3>1. Saving' = {r}
      BY <2>1 DEF Saving
    <3> QED
      BY <2>1, <3>1 DEF TakenBy, TakenFrom
  <2>2. CASE ~(req'[r].at \in {"list", "read"} /\ req'[r].kind \in Saves)
    <3>1. Saving' = {}
      BY <2>2 DEF Saving
    <3> QED
      BY <2>2, <3>1 DEF TakenBy, TakenFrom
  <2> QED
    BY <2>1, <2>2
<1> QED
  BY <1>1, <1>2

Disks == [Ids -> Persistence \cup {None}]

LEMMA FileIsRecord ==
  ASSUME NEW d \in Disks, OneFile(d), NEW i \in Ids, d[i] # None
  PROVE  d[i] \in Persistence /\ FilesIn(d, d[i].path) = {i}
         /\ StoreFrom(d)[d[i].path] = RecordOf(d[i]) /\ d[i].path \in Paths
<1>1. d[i] \in Persistence /\ d[i].path \in Paths
  BY DEF Disks, Persistence
<1>2. FilesIn(d, d[i].path) = {i}
  BY DEF FilesIn, OneFile
<1>3. AnyOf(FilesIn(d, d[i].path)) = i
  BY <1>2 DEF AnyOf
<1> QED
  BY <1>1, <1>2, <1>3 DEF StoreFrom

LEMMA RecordIsRecord == ASSUME NEW f \in Persistence PROVE RecordOf(f) # None
<1>1. RecordOf(f) \in [name : Names, agents : Saved]
  BY DEF RecordOf, Persistence
<1> QED
  BY <1>1, NoneAssumption

LEMMA NoFileNoRecord ==
  ASSUME NEW d \in Disks, NEW p \in Paths, FilesIn(d, p) = {}
  PROVE  StoreFrom(d)[p] = None
  BY DEF StoreFrom

LEMMA OneIsWritten ==
  ASSUME NEW d \in Disks, OneFile(d), NEW i \in Ids, NEW f \in Persistence,
         FilesIn(d, f.path) \subseteq {i}, d[i] # None => d[i].path = f.path,
         NEW e, e = [d EXCEPT ![i] = f]
  PROVE  e \in Disks /\ OneFile(e) /\ StoreFrom(e) = [StoreFrom(d) EXCEPT ![f.path] = RecordOf(f)]
<1>1. e \in Disks /\ e[i] = f /\ \A j \in Ids \ {i} : e[j] = d[j]
  BY DEF Disks
<1>2. f # None /\ f.path \in Paths
  BY NoneAssumption DEF Persistence
<1>3. OneFile(e)
  BY <1>1, <1>2 DEF OneFile, FilesIn
<1>4. StoreFrom(e)[f.path] = RecordOf(f)
  BY <1>1, <1>2, <1>3, FileIsRecord
<1>5. ASSUME NEW p \in Paths, p # f.path
      PROVE  StoreFrom(e)[p] = StoreFrom(d)[p]
  <2>1. FilesIn(e, p) = FilesIn(d, p) /\ i \notin FilesIn(e, p)
    BY <1>1, <1>5 DEF FilesIn
  <2>2. \A j \in FilesIn(d, p) : e[j] = d[j]
    BY <1>1, <2>1 DEF FilesIn
  <2>3. CASE FilesIn(d, p) = {}
    BY <2>1, <2>3 DEF StoreFrom
  <2>4. CASE FilesIn(d, p) # {}
    <3>1. PICK j \in FilesIn(d, p) : j = AnyOf(FilesIn(d, p))
      BY <2>4 DEF AnyOf
    <3>2. AnyOf(FilesIn(e, p)) = j
      BY <2>1, <3>1
    <3>3. StoreFrom(e)[p] = RecordOf(e[j]) /\ StoreFrom(d)[p] = RecordOf(d[j])
      BY <2>1, <2>4, <3>1, <3>2 DEF StoreFrom
    <3> QED
      BY <2>2, <3>3
  <2> QED
    BY <2>3, <2>4
<1>6. StoreFrom(e) = [StoreFrom(d) EXCEPT ![f.path] = RecordOf(f)]
  <2>1. StoreFrom(e) = [p \in Paths |-> StoreFrom(e)[p]] /\ StoreFrom(d) = [p \in Paths |-> StoreFrom(d)[p]]
    BY DEF StoreFrom
  <2> QED
    BY <1>2, <1>4, <1>5, <2>1
<1> QED
  BY <1>1, <1>3, <1>6

LEMMA OneIsRemoved ==
  ASSUME NEW d \in Disks, OneFile(d), NEW i \in Ids, d[i] # None, NEW e, e = [d EXCEPT ![i] = None]
  PROVE  e \in Disks /\ OneFile(e) /\ StoreFrom(e) = [StoreFrom(d) EXCEPT ![d[i].path] = None]
<1>1. e \in Disks /\ e[i] = None /\ \A j \in Ids \ {i} : e[j] = d[j]
  BY DEF Disks
<1>2. OneFile(e)
  BY <1>1 DEF OneFile
<1>3. d[i].path \in Paths /\ FilesIn(d, d[i].path) = {i}
  BY FileIsRecord
<1>4. StoreFrom(e)[d[i].path] = None
  <2>1. FilesIn(e, d[i].path) = {}
    BY <1>1, <1>3 DEF FilesIn
  <2> QED
    BY <1>1, <1>3, <2>1, NoFileNoRecord
<1>5. ASSUME NEW p \in Paths, p # d[i].path
      PROVE  StoreFrom(e)[p] = StoreFrom(d)[p]
  <2>1. FilesIn(e, p) = FilesIn(d, p) /\ i \notin FilesIn(e, p)
    BY <1>1, <1>5 DEF FilesIn
  <2>2. \A j \in FilesIn(d, p) : e[j] = d[j]
    BY <1>1, <2>1 DEF FilesIn
  <2>3. CASE FilesIn(d, p) = {}
    BY <2>1, <2>3 DEF StoreFrom
  <2>4. CASE FilesIn(d, p) # {}
    <3>1. PICK j \in FilesIn(d, p) : j = AnyOf(FilesIn(d, p))
      BY <2>4 DEF AnyOf
    <3>2. AnyOf(FilesIn(e, p)) = j
      BY <2>1, <3>1
    <3>3. StoreFrom(e)[p] = RecordOf(e[j]) /\ StoreFrom(d)[p] = RecordOf(d[j])
      BY <2>1, <2>4, <3>1, <3>2 DEF StoreFrom
    <3> QED
      BY <2>2, <3>3
  <2> QED
    BY <2>3, <2>4
<1>6. StoreFrom(e) = [StoreFrom(d) EXCEPT ![d[i].path] = None]
  <2>1. StoreFrom(e) = [p \in Paths |-> StoreFrom(e)[p]] /\ StoreFrom(d) = [p \in Paths |-> StoreFrom(d)[p]]
    BY DEF StoreFrom
  <2> QED
    BY <1>3, <1>4, <1>5, <2>1
<1> QED
  BY <1>1, <1>2, <1>6

LEMMA MembersOf ==
  ASSUME NEW s \in Seq(WorkspaceEntry)
  PROVE  /\ ToSet(s) \subseteq WorkspaceEntry
         /\ ToSet(<<>>) = {}
         /\ s # <<>> => /\ Head(s) \in ToSet(s) /\ Tail(s) \in Seq(WorkspaceEntry)
                        /\ ToSet(Tail(s)) \subseteq ToSet(s)
         /\ \A e \in WorkspaceEntry : ToSet(Append(s, e)) = ToSet(s) \cup {e}
<1>1. Len(s) \in Nat /\ DOMAIN s = 1 .. Len(s)
  BY LenProperties
<1>2. ToSet(s) \subseteq WorkspaceEntry
  BY <1>1, ElementOfSeq DEF ToSet
<1>3. ToSet(<<>>) = {}
  BY DEF ToSet
<1>4. ASSUME s # <<>>
      PROVE  Head(s) \in ToSet(s) /\ Tail(s) \in Seq(WorkspaceEntry) /\ ToSet(Tail(s)) \subseteq ToSet(s)
  <2>1. /\ Tail(s) \in Seq(WorkspaceEntry) /\ Len(Tail(s)) = Len(s) - 1
        /\ \A k \in 1 .. Len(Tail(s)) : Tail(s)[k] = s[k + 1]
    BY <1>4, HeadTailProperties
  <2>2. Len(s) \in Nat \ {0} /\ DOMAIN Tail(s) = 1 .. (Len(s) - 1) /\ Head(s) = s[1]
    BY <1>1, <1>4, <2>1, EmptySeq, LenProperties
  <2>3. Head(s) \in ToSet(s)
    BY <1>1, <2>2 DEF ToSet
  <2>4. ASSUME NEW k \in 1 .. (Len(s) - 1)
        PROVE  Tail(s)[k] \in ToSet(s)
    <3>1. k + 1 \in DOMAIN s /\ Tail(s)[k] = s[k + 1]
      BY <1>1, <2>1, <2>2
    <3> QED
      BY <3>1 DEF ToSet
  <2>5. ToSet(Tail(s)) \subseteq ToSet(s)
    BY <2>2, <2>4 DEF ToSet
  <2> QED
    BY <2>1, <2>3, <2>5
<1>5. ASSUME NEW e \in WorkspaceEntry
      PROVE  ToSet(Append(s, e)) = ToSet(s) \cup {e}
  <2>1. /\ Append(s, e) \in Seq(WorkspaceEntry) /\ Len(Append(s, e)) = Len(s) + 1
        /\ \A k \in 1 .. (Len(s) + 1) : Append(s, e)[k] = IF k = Len(s) + 1 THEN e ELSE s[k]
    BY AppendProperties
  <2>2. DOMAIN Append(s, e) = 1 .. (Len(s) + 1)
    BY <2>1, LenProperties
  <2>3. ASSUME NEW k \in 1 .. (Len(s) + 1)
        PROVE  Append(s, e)[k] \in ToSet(s) \cup {e}
    <3>1. CASE k = Len(s) + 1
      BY <2>1, <3>1
    <3>2. CASE k # Len(s) + 1
      <4>1. k \in DOMAIN s /\ Append(s, e)[k] = s[k]
        BY <1>1, <2>1, <3>2
      <4> QED
        BY <4>1 DEF ToSet
    <3> QED
      BY <3>1, <3>2
  <2>4. ToSet(Append(s, e)) \subseteq ToSet(s) \cup {e}
    BY <2>2, <2>3 DEF ToSet
  <2>5. ASSUME NEW k \in DOMAIN s PROVE s[k] \in ToSet(Append(s, e))
    <3>1. k \in 1 .. (Len(s) + 1) /\ Append(s, e)[k] = s[k]
      BY <1>1, <2>1
    <3> QED
      BY <2>2, <3>1 DEF ToSet
  <2>6. e \in ToSet(Append(s, e))
    <3>1. Len(s) + 1 \in 1 .. (Len(s) + 1) /\ Append(s, e)[Len(s) + 1] = e
      BY <1>1, <2>1
    <3> QED
      BY <2>2, <3>1 DEF ToSet
  <2>7. ToSet(s) \subseteq ToSet(Append(s, e))
    BY <2>5 DEF ToSet
  <2> QED
    BY <2>4, <2>6, <2>7
<1> QED
  BY <1>2, <1>3, <1>4, <1>5

\* What a step of the one handler shows.
Refined == InOrder' /\ [Abstract!Next]_(Abstract!vars)

LEMMA AbstractStep ==
  ASSUME NEW r, Requests = {r}, StoreFrom(disk') = StoreFrom(disk), handles' = handles,
         TakenFrom(req'[r]) = TakenFrom(req[r])
  PROVE  UNCHANGED Abstract!vars
  BY StoreIs, TakenIs DEF Abstract!vars

LEMMA QuietStep ==
  ASSUME InOrder, NEW r, Requests = {r}, disk' = disk, handles' = handles,
         TakenFrom(req'[r]) = TakenFrom(req[r]), Follows(req[r])'
  PROVE  Refined
<1>1. InOrder'
  BY DEF InOrder, OneFile
<1>2. UNCHANGED Abstract!vars
  BY AbstractStep
<1> QED
  BY <1>1, <1>2 DEF Refined

LEMMA BecomesIs ==
  ASSUME IInv, NEW r \in Requests
  PROVE  /\ \A new : Becomes(r, new) => req'[r] = new
         /\ req[r] \in RequestType /\ Fits(req[r])
  BY DEF Becomes, IInv, TypeOK

LEMMA IdleFollows ==
  ASSUME NEW r, req'[r] = Idle
  PROVE  Follows(req[r])' /\ TakenFrom(req'[r]) = None
<1>1. Idle.at = "idle" /\ Idle.kind = "register"
  BY DEF Idle
<1> QED
  BY <1>1 DEF Follows, Creating, TakenFrom

LEMMA FinishFollows ==
  ASSUME IInv, NEW r \in Requests, NEW ok, Finish(r, ok)
  PROVE  Follows(req[r])' /\ TakenFrom(req'[r]) = None
<1>1. req'[r] = Idle
  BY BecomesIs DEF Finish
<1> QED
  BY <1>1, IdleFollows

-----------------------------------------------------------------------------
(***************************************************************************)
(* What begins, reads and decides changes nothing.                         *)
(***************************************************************************)
LEMMA BeginRefines ==
  ASSUME IInv, InOrder, NEW r, Requests = {r}, NEW kind \in Kinds, NEW step \in {"list", "find", "stop", "label"},
         NEW p \in Paths \cup {None}, NEW s \in Sessions \cup {None},
         NEW v \in Names \cup Labels \cup {None}, Begin(r, kind, step, p, s, v),
         step = "list" => kind \notin Saves, step = "find" => handles[s] = None
  PROVE  Refined
<1>1. PICK late \in BOOLEAN : late = (\E q \in Requests : req[q].kind = "remove" /\ req[q].path = p)
  OBVIOUS
<1>. DEFINE new == Asked(kind, step, p, s, v, late)
<1>2. new.at = step /\ new.kind = kind /\ new.session = s /\ new.found = NoSessions
  <2>1. step \in Steps /\ late \in BOOLEAN
    BY DEF Steps
  <2> QED
    BY <2>1, AskedIsTyped
<1>3. Becomes(r, new) /\ UNCHANGED <<disk, handles>> /\ req[r].at = "idle"
  BY <1>1 DEF Begin, Asked, At
<1>. HIDE DEF new
<1>4. req'[r] = new
  BY <1>3, BecomesIs
<1>5. Follows(req[r])'
  BY <1>2, <1>3, <1>4 DEF Follows, Creating, NoSessions
<1>6. TakenFrom(req[r]) = None /\ TakenFrom(req'[r]) = None
  BY <1>2, <1>3, <1>4 DEF TakenFrom
<1> QED
  BY <1>3, <1>5, <1>6, QuietStep

LEMMA BeginsRefine ==
  ASSUME IInv, InOrder, NEW r, Requests = {r},
         \/ BeginRegister(r) \/ BeginConfigure(r) \/ BeginBootstrap(r) \/ BeginCreate(r)
         \/ BeginStop(r) \/ BeginLabel(r) \/ BeginRemove(r)
  PROVE  Refined
<1>1. CASE BeginRegister(r)
  BY <1>1, BeginRefines DEF BeginRegister, Kinds, Saves
<1>2. CASE BeginConfigure(r)
  BY <1>2, BeginRefines DEF BeginConfigure, Kinds, Saves
<1>3. CASE BeginBootstrap(r)
  BY <1>3, BeginRefines DEF BeginBootstrap, Kinds, Saves
<1>4. CASE BeginCreate(r)
  BY <1>4, BeginRefines DEF BeginCreate, Kinds
<1>5. CASE BeginStop(r) \/ BeginLabel(r)
  <2>1. PICK s \in Sessions, step \in {"stop", "label"}, v \in Labels \cup {None} :
           handles[s] # None /\ Begin(r, step, step, handles[s].path, s, v)
    BY <1>5 DEF BeginStop, BeginLabel
  <2>2. handles[s].path \in Paths
    BY <2>1 DEF IInv, TypeOK, Handle
  <2> QED
    BY <2>1, <2>2, BeginRefines DEF Kinds
<1>6. CASE BeginRemove(r)
  <2>1. PICK p \in Paths :
           /\ req' = [q \in Requests |->
                        IF q = r THEN [Idle EXCEPT !.at = "list", !.kind = "remove", !.path = p]
                        ELSE [req[q] EXCEPT !.undone = @ \/ req[q].path = p]]
           /\ UNCHANGED <<disk, handles>> /\ req[r].at = "idle"
    BY <1>6 DEF BeginRemove, At
  <2>2. req'[r].at = "list" /\ req'[r].kind = "remove"
    BY <2>1 DEF Idle
  <2>3. Follows(req[r])'
    BY <2>2 DEF Follows, Creating
  <2>4. TakenFrom(req[r]) = None /\ TakenFrom(req'[r]) = None
    BY <2>1, <2>2 DEF TakenFrom, Saves
  <2> QED
    BY <2>1, <2>3, <2>4, QuietStep
<1> QED
  BY <1>1, <1>2, <1>3, <1>4, <1>5, <1>6

LEMMA ListRefines == ASSUME IInv, InOrder, NEW r, Requests = {r}, List(r) PROVE Refined
<1>. DEFINE saved == {i \in Ids : disk[i] # None}
            new == [req[r] EXCEPT !.at = "read", !.entries = <<>>, !.unread = saved]
<1>1. saved \in SUBSET Ids /\ Becomes(r, new) /\ req[r].at = "list" /\ UNCHANGED <<disk, handles>>
  BY DEF List, At
<1>2. \A i \in Ids : disk[i] # None => i \in saved
  OBVIOUS
<1>. HIDE DEF saved
<1>3. req[r] \in RequestType /\ Follows(req[r]) /\ req'[r] = new
  BY <1>1, BecomesIs DEF InOrder
<1>4. /\ new.at = "read" /\ new.entries = <<>> /\ new.unread = saved /\ new.kind = req[r].kind
      /\ new.path = req[r].path /\ new.found = req[r].found
  BY <1>3 DEF RequestType
<1>. HIDE DEF new
<1>5. ToSet(req'[r].entries) = {}
  BY <1>3, <1>4 DEF ToSet
<1>6. Follows(req[r])'
  <2>1. req'[r].kind = "bootstrap" =>
           \A s \in Sessions : req'[r].found[s] # None => \E i \in Ids : req'[r].found[s] = FoundIn(i)'[s]
    BY <1>1, <1>3, <1>4 DEF Follows, FoundIn
  <2> QED
    BY <1>1, <1>2, <1>3, <1>4, <1>5, <2>1 DEF Follows, Creating
<1>7. TakenFrom(req'[r]) = TakenFrom(req[r])
  BY <1>1, <1>3, <1>4 DEF TakenFrom
<1> QED
  BY <1>1, <1>6, <1>7, QuietStep

LEMMA ReadRefines == ASSUME IInv, InOrder, NEW r, Requests = {r}, Read(r) PROVE Refined
<1>1. req[r] \in RequestType /\ req[r].at = "read" /\ Follows(req[r]) /\ UNCHANGED <<disk, handles>>
  BY BecomesIs DEF Read, At, InOrder
<1>2. PICK i \in req[r].unread :
         Becomes(r, [req[r] EXCEPT !.unread = @ \ {i}, !.entries = @ \o
            (IF disk[i] = None \/ EntryOf(r, disk[i].path) # {} THEN <<>>
             ELSE <<[id |-> i, path |-> disk[i].path, name |-> disk[i].name]>>)])
  BY DEF Read
<1>3. PICK list \in Seq(WorkspaceEntry) :
         /\ Becomes(r, [req[r] EXCEPT !.unread = @ \ {i}, !.entries = list])
         /\ ToSet(req[r].entries) \subseteq ToSet(list)
         /\ \A e \in ToSet(list) : e \in ToSet(req[r].entries) \/ Listed(e)
         /\ disk[i] # None => \E e \in ToSet(list) : e.path = disk[i].path
  <2>1. req[r].entries \in Seq(WorkspaceEntry) /\ i \in Ids
    BY <1>1, <1>2 DEF RequestType
  <2>2. CASE disk[i] = None \/ EntryOf(r, disk[i].path) # {}
    <3>1. req[r].entries \o <<>> = req[r].entries
      BY <2>1, ConcatEmptySeq
    <3>2. disk[i] # None => \E e \in ToSet(req[r].entries) : e.path = disk[i].path
      BY <2>2 DEF EntryOf
    <3> QED
      BY <1>2, <2>1, <2>2, <3>1, <3>2
  <2>3. CASE ~ (disk[i] = None \/ EntryOf(r, disk[i].path) # {})
    <3>. DEFINE e == [id |-> i, path |-> disk[i].path, name |-> disk[i].name]
    <3>1. e \in WorkspaceEntry /\ e.path = disk[i].path /\ Listed(e)
      BY <2>1, <2>3 DEF IInv, TypeOK, Persistence, WorkspaceEntry, Listed
    <3>2. Becomes(r, [req[r] EXCEPT !.unread = @ \ {i}, !.entries = @ \o <<e>>])
      BY <1>2, <2>3
    <3>. HIDE DEF e
    <3>3. Append(req[r].entries, e) \in Seq(WorkspaceEntry) /\ req[r].entries \o <<e>> = Append(req[r].entries, e)
      BY <2>1, <3>1, OneMoreEntry
    <3>4. ToSet(Append(req[r].entries, e)) = ToSet(req[r].entries) \cup {e}
      BY <2>1, <3>1, MembersOf
    <3> QED
      BY <3>1, <3>2, <3>3, <3>4
  <2> QED
    BY <2>2, <2>3
<1>. DEFINE new == [req[r] EXCEPT !.unread = @ \ {i}, !.entries = list]
<1>4. /\ new.at = "read" /\ new.entries = list /\ new.unread = req[r].unread \ {i}
      /\ new.kind = req[r].kind /\ new.path = req[r].path /\ new.found = req[r].found
  BY <1>1 DEF RequestType
<1>5. req'[r] = new
  BY <1>3, BecomesIs
<1>. HIDE DEF new
<1>6. ASSUME req[r].kind # "bootstrap"
      PROVE  /\ \A e \in ToSet(req'[r].entries) : Listed(e)'
             /\ \A j \in Ids : disk[j] # None =>
                   j \in req'[r].unread \/ \E e \in ToSet(req'[r].entries) : e.path = disk[j].path
  <2>1. \A e \in ToSet(list) : Listed(e)
    BY <1>1, <1>3, <1>6 DEF Follows
  <2>2. \A j \in Ids : disk[j] # None => j \in req[r].unread \/ \E e \in ToSet(list) : e.path = disk[j].path
    BY <1>1, <1>3, <1>6 DEF Follows
  <2> QED
    BY <1>1, <1>3, <1>4, <1>5, <2>1, <2>2 DEF Listed
<1>7. Follows(req[r])'
  <2>1. req'[r].kind = "bootstrap" =>
           \A s \in Sessions : req'[r].found[s] # None => \E j \in Ids : req'[r].found[s] = FoundIn(j)'[s]
    BY <1>1, <1>4, <1>5 DEF Follows, FoundIn
  <2> QED
    BY <1>1, <1>4, <1>5, <1>6, <2>1 DEF Follows, Creating
<1>8. TakenFrom(req'[r]) = TakenFrom(req[r])
  BY <1>1, <1>4, <1>5 DEF TakenFrom
<1> QED
  BY <1>1, <1>7, <1>8, QuietStep

\* A handler that has read all files knows the file of its path, if there is one.
LEMMA MineIsTheFile ==
  ASSUME IInv, InOrder, NEW r, Requests = {r}, NEW kinds, Loaded(r, kinds), "bootstrap" \notin kinds
  PROVE  /\ \A e \in Mine(r) : /\ e \in WorkspaceEntry /\ e.path = req[r].path
                               /\ Listed(e) /\ FilesIn(disk, req[r].path) = {e.id}
         /\ Mine(r) = {} => FilesIn(disk, req[r].path) = {}
<1>1. /\ req[r] \in RequestType /\ Follows(req[r]) /\ req[r].at = "read"
      /\ req[r].unread = {} /\ req[r].kind # "bootstrap" /\ disk \in Disks
  BY BecomesIs DEF Loaded, At, InOrder, IInv, TypeOK, Disks
<1>2. ToSet(req[r].entries) \subseteq WorkspaceEntry
  BY <1>1, MembersOf DEF RequestType
<1>3. ASSUME NEW e \in Mine(r)
      PROVE  /\ e \in WorkspaceEntry /\ e.path = req[r].path
             /\ Listed(e) /\ FilesIn(disk, req[r].path) = {e.id}
  <2>1. e \in WorkspaceEntry /\ e.path = req[r].path /\ Listed(e)
    BY <1>1, <1>2 DEF Mine, EntryOf, Follows
  <2>2. e.id \in Ids /\ disk[e.id] # None /\ disk[e.id].path = req[r].path
    BY <2>1 DEF Listed, WorkspaceEntry
  <2> QED
    BY <1>1, <2>1, <2>2, FileIsRecord DEF InOrder
<1>4. ASSUME Mine(r) = {} PROVE FilesIn(disk, req[r].path) = {}
  BY <1>1, <1>4 DEF FilesIn, Mine, EntryOf, Follows
<1> QED
  BY <1>3, <1>4

LEMMA QuietFinish ==
  ASSUME IInv, InOrder, NEW r, Requests = {r}, NEW ok, Finish(r, ok), UNCHANGED <<disk, handles>>,
         req[r].at \notin {"list", "read"} \/ req[r].kind \notin Saves
  PROVE  Refined
<1>1. TakenFrom(req[r]) = None /\ TakenFrom(req'[r]) = None /\ Follows(req[r])'
  BY FinishFollows DEF TakenFrom
<1> QED
  BY <1>1, QuietStep

LEMMA EndsRefine ==
  ASSUME IInv, InOrder, NEW r, Requests = {r},
         \/ RegisterKnown(r) \/ NotFound(r) \/ WriteFails(r) \/ StartFails(r) \/ Bootstrapped(r)
  PROVE  Refined
<1>1. \E ok \in BOOLEAN : Finish(r, ok) /\ UNCHANGED <<disk, handles>>
  BY DEF RegisterKnown, NotFound, WriteFails, StartFails, Bootstrapped
<1>2. req[r].at \notin {"list", "read"} \/ req[r].kind \notin Saves
  BY DEF RegisterKnown, NotFound, WriteFails, StartFails, Bootstrapped, Loaded, At, Saves
<1> QED
  BY <1>1, <1>2, QuietFinish
-----------------------------------------------------------------------------
(***************************************************************************)
(* What a handler is about to write is what the files have, or the one     *)
(* change it was asked for.                                                *)
(***************************************************************************)
LEMMA RegisterNewRefines == ASSUME IInv, InOrder, NEW r, Requests = {r}, RegisterNew(r) PROVE Refined
<1>1. PICK i \in Ids \ made :
         Becomes(r, [req[r] EXCEPT !.at = "each",
                       !.entries = Append(@, [id |-> i, path |-> req[r].path, name |-> FirstName])])
  BY DEF RegisterNew
<1>2. /\ req[r] \in RequestType /\ req[r].at = "read" /\ req[r].kind = "register" /\ req[r].path \in Paths
      /\ Follows(req[r]) /\ UNCHANGED <<disk, handles>> /\ Mine(r) = {} /\ Loaded(r, {"register"})
  BY BecomesIs DEF RegisterNew, Loaded, At, InOrder, Fits, Shape
<1>. DEFINE e == [id |-> i, path |-> req[r].path, name |-> FirstName]
            list == Append(req[r].entries, e)
            new == [req[r] EXCEPT !.at = "each", !.entries = list]
<1>3. e \in WorkspaceEntry /\ e.id = i /\ e.path = req[r].path /\ e.name = FirstName
  BY <1>2, FirstAssumption DEF WorkspaceEntry
<1>4. Becomes(r, new)
  BY <1>1
<1>. HIDE DEF e
<1>5. ToSet(list) = ToSet(req[r].entries) \cup {e} /\ ToSet(req[r].entries) \subseteq WorkspaceEntry
  BY <1>2, <1>3, MembersOf DEF RequestType
<1>. HIDE DEF list
<1>6. /\ new.at = "each" /\ new.entries = list /\ new.kind = "register"
      /\ new.path = req[r].path /\ new.found = req[r].found
  BY <1>2 DEF RequestType
<1>7. req'[r] = new
  BY <1>4, BecomesIs
<1>. HIDE DEF new
<1>8. /\ \A f \in ToSet(req[r].entries) : Listed(f) /\ f \in WorkspaceEntry /\ f.path # e.path
      /\ FilesIn(disk, e.path) = {} /\ disk[i] = None
  <2>1. \A f \in ToSet(req[r].entries) : Listed(f) /\ f \in WorkspaceEntry /\ f.path # e.path
    BY <1>2, <1>3, <1>5 DEF Follows, Mine, EntryOf
  <2>2. FilesIn(disk, e.path) = {}
    BY <1>2, <1>3, MineIsTheFile
  <2>3. ASSUME disk[i] # None PROVE FALSE
    <3>1. disk[i].path \in Paths
      BY <2>3 DEF IInv, TypeOK, Persistence
    <3> QED
      BY <1>1, <2>3, <3>1 DEF IInv, Generated, Filed
  <2> QED
    BY <2>1, <2>2, <2>3
<1>9. OneEntry(new)
  <2> SUFFICES ASSUME NEW f \in ToSet(list), NEW g \in ToSet(list), f.path = g.path PROVE f.id = g.id
    BY <1>6 DEF OneEntry
  <2>1. CASE f \in ToSet(req[r].entries) /\ g \in ToSet(req[r].entries)
    BY <1>8, <2>1 DEF InOrder, OneFile, Listed, WorkspaceEntry
  <2>2. CASE f = e \/ g = e
    BY <1>5, <1>8, <2>2
  <2> QED
    BY <1>5, <2>1, <2>2
<1>10. \A f \in ToSet(list) : Due(new, f)
  <2>1. Due(new, e)
    BY <1>3, <1>6, <1>8 DEF Due, New, Files, FilesIn
  <2>2. \A f \in ToSet(req[r].entries) : Due(new, f)
    BY <1>6, <1>8 DEF Due, Changed, Listed
  <2> QED
    BY <1>5, <2>1, <2>2
<1>11. Follows(req[r])'
  BY <1>2, <1>6, <1>7, <1>9, <1>10 DEF Follows, Creating, OneEntry, Due, New, Changed, Files
<1>12. TakenFrom(req'[r]) = TakenFrom(req[r])
  BY <1>2, <1>6, <1>7 DEF TakenFrom, Saves
<1> QED
  BY <1>2, <1>11, <1>12, QuietStep

LEMMA ConfigureRefines == ASSUME IInv, InOrder, NEW r, Requests = {r}, Configure(r) PROVE Refined
<1>. DEFINE old == req[r].entries
            list == [k \in DOMAIN old |-> IF old[k].path = req[r].path
                                            THEN [old[k] EXCEPT !.name = req[r].value] ELSE old[k]]
            new == [req[r] EXCEPT !.at = "each", !.entries = list]
<1>1. /\ req[r] \in RequestType /\ req[r].at = "read" /\ req[r].kind = "configure"
      /\ Follows(req[r]) /\ UNCHANGED <<disk, handles>> /\ Becomes(r, new)
  BY BecomesIs DEF Configure, Loaded, At, InOrder
<1>2. ToSet(old) \subseteq WorkspaceEntry /\ \A f \in ToSet(old) : Listed(f)
  BY <1>1, MembersOf DEF RequestType, Follows
<1>3. ASSUME NEW e \in ToSet(list)
      PROVE  \E f \in ToSet(old) : /\ e.id = f.id /\ e.path = f.path
                                   /\ e.name = IF f.path = req[r].path THEN req[r].value ELSE f.name
  <2>1. PICK k \in DOMAIN old : e = list[k]
    BY DEF ToSet
  <2>2. old[k] \in ToSet(old) /\ old[k] \in WorkspaceEntry
    BY <1>2 DEF ToSet
  <2> QED
    BY <2>1, <2>2 DEF WorkspaceEntry
<1>. HIDE DEF list
<1>4. /\ new.at = "each" /\ new.entries = list /\ new.kind = "configure"
      /\ new.path = req[r].path /\ new.value = req[r].value
  BY <1>1 DEF RequestType
<1>5. req'[r] = new
  BY <1>1, BecomesIs
<1>. HIDE DEF new
<1>6. OneEntry(new)
  BY <1>2, <1>3, <1>4 DEF OneEntry, InOrder, OneFile, Listed, WorkspaceEntry
<1>7. \A e \in ToSet(list) : Due(new, e)
  BY <1>2, <1>3, <1>4 DEF Due, Changed, Listed
<1>8. Follows(req[r])'
  BY <1>1, <1>4, <1>5, <1>6, <1>7 DEF Follows, Creating, OneEntry, Due, New, Changed, Files
<1>9. TakenFrom(req'[r]) = TakenFrom(req[r])
  BY <1>1, <1>4, <1>5 DEF TakenFrom, Saves
<1> QED
  BY <1>1, <1>8, <1>9, QuietStep

LEMMA RemoveDirRefines == ASSUME IInv, InOrder, NEW r, Requests = {r}, RemoveDir(r) PROVE Refined
<1>1. PICK e \in Mine(r) : disk' \in {[disk EXCEPT ![e.id] = None], disk}
  BY DEF RemoveDir
<1>2. /\ Finish(r, TRUE) /\ UNCHANGED handles /\ req[r].kind = "remove" /\ Loaded(r, {"remove"})
      /\ disk \in Disks /\ OneFile(disk)
  BY DEF RemoveDir, Loaded, IInv, TypeOK, Disks, InOrder
<1>3. CASE disk' = disk
  BY <1>2, <1>3, QuietFinish DEF Saves
<1>4. CASE disk' = [disk EXCEPT ![e.id] = None]
  <2>1. e.id \in Ids /\ disk[e.id] # None /\ disk[e.id].path = e.path /\ e.path \in Paths
    BY <1>2, MineIsTheFile DEF Listed, WorkspaceEntry
  <2>2. OneFile(disk') /\ StoreFrom(disk') = [StoreFrom(disk) EXCEPT ![e.path] = None]
    <3>1. PICK d : d = disk'
      OBVIOUS
    <3>2. OneFile(d) /\ StoreFrom(d) = [StoreFrom(disk) EXCEPT ![disk[e.id].path] = None]
      BY <1>2, <1>4, <2>1, <3>1, OneIsRemoved
    <3> QED
      BY <2>1, <3>1, <3>2
  <2>3. TakenFrom(req[r]) = None /\ TakenFrom(req'[r]) = None /\ Follows(req[r])'
    BY <1>2, FinishFollows DEF TakenFrom, Saves
  <2>4. InOrder'
    BY <2>2, <2>3 DEF InOrder, OneFile
  <2>5. Abstract!Remove(e.path)
    BY <1>2, <2>2, <2>3, StoreIs, TakenIs DEF Abstract!Remove
  <2> QED
    BY <2>1, <2>4, <2>5 DEF Refined, Abstract!Next
<1> QED
  BY <1>1, <1>3, <1>4

LEMMA ReadAgentsRefines == ASSUME IInv, InOrder, NEW r, Requests = {r}, ReadAgents(r) PROVE Refined
<1>. DEFINE i == Head(req[r].entries).id
            new == [req[r] EXCEPT !.at = "write", !.found = FoundIn(i)]
<1>1. /\ req[r] \in RequestType /\ Fits(req[r]) /\ Follows(req[r]) /\ req[r].at = "each"
      /\ UNCHANGED <<disk, handles>> /\ Becomes(r, new)
  BY BecomesIs DEF ReadAgents, At, InOrder
<1>2. req[r].kind # "bootstrap"
  BY <1>1 DEF Fits, Shape
<1>3. /\ new.at = "write" /\ new.entries = req[r].entries /\ new.kind = req[r].kind
      /\ new.path = req[r].path /\ new.value = req[r].value /\ new.found = FoundIn(i)
  BY <1>1 DEF RequestType
<1>4. req'[r] = new
  BY <1>1, BecomesIs
<1>. HIDE DEF new
<1>5. OneEntry(new) /\ \A e \in ToSet(new.entries) : Due(new, e)
  BY <1>1, <1>3 DEF Follows, OneEntry, Due, New, Changed
<1>6. Follows(req[r])'
  <2>1. req'[r].found = FoundIn(Head(req[r].entries).id)'
    BY ZenonT(60), <1>1, <1>3, <1>4 DEF FoundIn
  <2>2. OneEntry(req[r])' /\ \A e \in ToSet(req'[r].entries) : Due(req[r], e)'
    BY <1>1, <1>4, <1>5 DEF OneEntry, Due, New, Changed, Files
  <2> QED
    BY <1>2, <1>3, <1>4, <2>1, <2>2 DEF Follows, Creating
<1>7. TakenFrom(req'[r]) = TakenFrom(req[r])
  BY <1>1, <1>3, <1>4 DEF TakenFrom
<1> QED
  BY <1>1, <1>6, <1>7, QuietStep

\* What is written back of the sessions of a file.
LEMMA EntriesOfFile ==
  ASSUME IInv, NEW i \in Ids
  PROVE  Entries(FoundIn(i)) = IF disk[i] = None THEN NoSessions ELSE disk[i].agents
<1>1. CASE disk[i] = None
  BY <1>1 DEF Entries, FoundIn, NoSessions
<1>2. CASE disk[i] # None
  <2>1. disk[i].path \in Paths /\ disk[i].agents \in Saved
    BY <1>2 DEF IInv, TypeOK, Persistence
  <2>2. ASSUME NEW s \in Sessions PROVE Entries(FoundIn(i))[s] = disk[i].agents[s]
    <3>1. CASE disk[i].agents[s] = None
      BY <3>1 DEF Entries, FoundIn
    <3>2. CASE disk[i].agents[s] # None
      <4>1. [path |-> disk[i].path, label |-> disk[i].agents[s]] \in Found
        BY <2>1, <3>2 DEF Found, Saved
      <4>2. [path |-> disk[i].path, label |-> disk[i].agents[s]] # None
        BY <4>1, NoneAssumption
      <4> QED
        BY <1>2, <3>2, <4>2 DEF Entries, FoundIn
    <3> QED
      BY <3>1, <3>2
  <2>3. Entries(FoundIn(i)) = [s \in Sessions |-> disk[i].agents[s]]
    BY <2>2 DEF Entries
  <2> QED
    BY <1>2, <2>1, <2>3 DEF Saved
<1> QED
  BY <1>1, <1>2

LEMMA WriteEntryRefines == ASSUME IInv, InOrder, NEW r, Requests = {r}, WriteEntry(r) PROVE Refined
<1>. DEFINE h == Head(req[r].entries)
            f == [path |-> h.path, name |-> h.name, agents |-> Entries(req[r].found)]
<1>1. /\ req[r] \in RequestType /\ Fits(req[r]) /\ Follows(req[r]) /\ req[r].at = "write"
      /\ UNCHANGED handles /\ disk' = [disk EXCEPT ![h.id] = f] /\ disk \in Disks /\ OneFile(disk)
  BY BecomesIs DEF WriteEntry, At, InOrder, IInv, TypeOK, Disks
<1>2. /\ req[r].entries # <<>> /\ req[r].kind \in {"register", "configure"}
      /\ req[r].kind = "configure" => req[r].value \in Names
  BY <1>1 DEF Fits, Shape
<1>3. /\ ToSet(req[r].entries) \subseteq WorkspaceEntry /\ h \in ToSet(req[r].entries)
      /\ Tail(req[r].entries) \in Seq(WorkspaceEntry)
      /\ ToSet(Tail(req[r].entries)) \subseteq ToSet(req[r].entries)
  BY <1>1, <1>2, MembersOf DEF RequestType
<1>. HIDE DEF h
<1>4. /\ h.id \in Ids /\ h.path \in Paths /\ h.name \in Names /\ Due(req[r], h)
      /\ req[r].found = FoundIn(h.id)
  BY <1>1, <1>3 DEF WorkspaceEntry, Follows, h
<1>5. f.agents = IF disk[h.id] = None THEN NoSessions ELSE disk[h.id].agents
  BY <1>4, EntriesOfFile
<1>6. f \in Persistence /\ f.path = h.path /\ f.name = h.name
  <2>1. f.agents \in Saved
    BY <1>4, <1>5 DEF IInv, TypeOK, Persistence, NoSessions, Saved
  <2> QED
    BY <1>4, <2>1 DEF Persistence
<1>. HIDE DEF f
<1>7. /\ FilesIn(disk, h.path) \subseteq {h.id} /\ (disk[h.id] # None => disk[h.id].path = h.path)
      /\ disk[h.id] = None => FilesIn(disk, h.path) = {} /\ h.name = FirstName
  <2>1. CASE disk[h.id] # None
    <3>1. disk[h.id].path = h.path
      BY <1>4, <2>1 DEF Due, New
    <3> QED
      BY <1>1, <1>4, <2>1, <3>1, FileIsRecord
  <2>2. CASE disk[h.id] = None
    BY <1>4, <2>2 DEF Due, New, Files, FilesIn
  <2> QED
    BY <2>1, <2>2
<1>8. OneFile(disk') /\ StoreFrom(disk') = [StoreFrom(disk) EXCEPT ![h.path] = RecordOf(f)]
  <2>1. PICK d : d = disk'
    OBVIOUS
  <2>2. /\ FilesIn(disk, f.path) \subseteq {h.id} /\ d = [disk EXCEPT ![h.id] = f]
        /\ disk[h.id] # None => disk[h.id].path = f.path
        /\ disk \in Disks /\ OneFile(disk) /\ h.id \in Ids /\ f \in Persistence
    BY <1>1, <1>4, <1>6, <1>7, <2>1
  <2>3. OneFile(d) /\ StoreFrom(d) = [StoreFrom(disk) EXCEPT ![f.path] = RecordOf(f)]
    BY <2>2, OneIsWritten
  <2> QED
    BY <1>6, <2>1, <2>3
<1>9. Follows(req[r])' /\ TakenFrom(req'[r]) = None
  <2>1. CASE Finish(r, TRUE)
    BY <2>1, FinishFollows
  <2>2. CASE Becomes(r, [req[r] EXCEPT !.at = "each", !.entries = Tail(@), !.found = NoSessions])
    <3>. DEFINE rest == Tail(req[r].entries)
                new == [req[r] EXCEPT !.at = "each", !.entries = rest, !.found = NoSessions]
    <3>1. /\ new.at = "each" /\ new.entries = rest /\ new.kind = req[r].kind
          /\ new.path = req[r].path /\ new.value = req[r].value
      BY <1>1 DEF RequestType
    <3>2. req'[r] = new
      BY <2>2, BecomesIs
    <3>. HIDE DEF new
    <3>3. ASSUME NEW e \in ToSet(rest) PROVE Due(req[r], e)'
      <4>1. /\ e \in WorkspaceEntry /\ Due(req[r], e) /\ (e.path = h.path => e.id = h.id)
        BY <1>1, <1>3 DEF Follows, OneEntry
      <4>2. CASE e.id = h.id
        <5>1. disk'[e.id] = f /\ f # None
          BY <1>1, <1>4, <1>6, <4>2, NoneAssumption DEF Disks
        <5>2. e.path = h.path
          BY <1>4, <1>7, <4>1, <4>2 DEF Due, New
        <5>3. e.name = IF Changed(req[r], e) THEN req[r].value ELSE h.name
          BY <1>4, <4>1, <4>2, <5>2 DEF Due, New, Changed
        <5> QED
          BY <1>6, <3>1, <3>2, <5>1, <5>2, <5>3 DEF Due, Changed
      <4>3. CASE e.id # h.id
        <5>1. disk'[e.id] = disk[e.id] /\ e.id \in Ids
          BY <1>1, <4>1, <4>3 DEF Disks, WorkspaceEntry
        <5>2. CASE New(req[r], e) /\ e.name = FirstName
          <6>1. Files(e.path)' = {}
            <7> SUFFICES ASSUME NEW j \in Ids, disk'[j] # None, disk'[j].path = e.path PROVE FALSE
              BY DEF Files
            <7>1. CASE j = h.id
              BY <1>1, <1>4, <1>6, <4>1, <4>3, <7>1 DEF Disks
            <7>2. CASE j # h.id
              BY <1>1, <5>2, <7>2 DEF Disks, New, Files
            <7> QED
              BY <7>1, <7>2
          <6> QED
            BY <3>1, <3>2, <5>1, <5>2, <6>1 DEF Due, New
        <5>3. CASE ~ (New(req[r], e) /\ e.name = FirstName)
          BY <3>1, <3>2, <4>1, <5>1, <5>3 DEF Due, Changed
        <5> QED
          BY <5>2, <5>3
      <4> QED
        BY <4>2, <4>3
    <3>4. OneEntry(req[r])'
      BY <1>1, <1>3, <3>1, <3>2 DEF Follows, OneEntry
    <3>5. Follows(req[r])'
      BY <1>2, <3>1, <3>2, <3>3, <3>4 DEF Follows, Creating
    <3> QED
      BY <3>1, <3>2, <3>5 DEF TakenFrom
  <2> QED
    BY <2>1, <2>2 DEF WriteEntry
<1>10. InOrder'
  BY <1>8, <1>9 DEF InOrder, OneFile
<1>11. TakenFrom(req'[r]) = TakenFrom(req[r])
  BY <1>1, <1>9 DEF TakenFrom
<1>12. [Abstract!Next]_(Abstract!vars)
  <2>1. CASE disk[h.id] = None
    <3>1. StoreFrom(disk)[h.path] = None
      BY <1>1, <1>4, <1>7, <2>1, NoFileNoRecord
    <3>2. RecordOf(f) = [name |-> FirstName, agents |-> NoSessions]
      BY <1>5, <1>6, <1>7, <2>1 DEF RecordOf
    <3>3. Abstract!NoSessions = NoSessions
      BY DEF Abstract!NoSessions, NoSessions
    <3>4. Abstract!Register(h.path)
      BY <1>1, <1>8, <1>11, <3>1, <3>2, <3>3, StoreIs, TakenIs DEF Abstract!Register
    <3> QED
      BY <1>4, <3>4 DEF Abstract!Next
  <2>2. CASE disk[h.id] # None
    <3>1. /\ StoreFrom(disk)[h.path] = RecordOf(disk[h.id]) /\ disk[h.id] \in Persistence
          /\ h.name = IF Changed(req[r], h) THEN req[r].value ELSE disk[h.id].name
      BY <1>1, <1>4, <1>7, <2>2, FileIsRecord DEF Due, New
    <3>2. RecordOf(f) = [RecordOf(disk[h.id]) EXCEPT !.name = h.name]
      BY <1>5, <1>6, <2>2 DEF RecordOf
    <3>3. CASE Changed(req[r], h)
      <4>0. StoreFrom(disk)[h.path] # None
        BY <3>1, RecordIsRecord
      <4>1. StoreFrom(disk') = [StoreFrom(disk) EXCEPT ![h.path].name = h.name]
        BY <1>4, <1>8, <3>1, <3>2
      <4>2. Abstract!Configure(h.path, h.name)
        BY <1>1, <1>11, <4>0, <4>1, StoreIs, TakenIs DEF Abstract!Configure
      <4> QED
        BY <1>4, <4>2 DEF Abstract!Next
    <3>4. CASE ~ Changed(req[r], h)
      <4>1. RecordOf(f) = StoreFrom(disk)[h.path]
        BY <3>1, <3>2, <3>4 DEF RecordOf
      <4>2. StoreFrom(disk') = StoreFrom(disk)
        BY <1>4, <1>8, <4>1 DEF StoreFrom
      <4> QED
        BY <1>1, <1>11, <4>2, AbstractStep
    <3> QED
      BY <3>3, <3>4
  <2> QED
    BY <2>1, <2>2
<1> QED
  BY <1>10, <1>12 DEF Refined
-----------------------------------------------------------------------------
(***************************************************************************)
(* create_session, stop_session and the settings of a session.             *)
(***************************************************************************)
LEMMA FindRefines == ASSUME IInv, InOrder, NEW r, Requests = {r}, Find(r) \/ Enroll(r) PROVE Refined
<1>1. /\ req[r] \in RequestType /\ Fits(req[r]) /\ Follows(req[r]) /\ req[r].at \in {"find", "enroll"}
      /\ UNCHANGED <<disk, handles>>
  BY BecomesIs DEF Find, Enroll, At, InOrder
<1>2. req[r].kind = "create" /\ handles[req[r].session] = None
  BY <1>1 DEF Fits, Shape, Creating, Follows
<1>3. PICK new : /\ Becomes(r, new) /\ new.at \in {"enroll", "start"}
                 /\ new.kind = req[r].kind /\ new.session = req[r].session
  <2>1. CASE Find(r)
    <3>1. PICK i \in Ids : Becomes(r, [req[r] EXCEPT !.at = "enroll", !.id = i])
      BY <2>1 DEF Find, FindByPath
    <3>2. PICK new : new = [req[r] EXCEPT !.at = "enroll", !.id = i]
      OBVIOUS
    <3>3. new.at = "enroll" /\ new.kind = req[r].kind /\ new.session = req[r].session
      BY <1>1, <3>2 DEF RequestType
    <3> QED
      BY <3>1, <3>2, <3>3
  <2>2. CASE Enroll(r)
    <3>1. Becomes(r, [req[r] EXCEPT !.at = "start"])
      BY <2>2 DEF Enroll, Goto
    <3> QED
      BY <1>1, <3>1 DEF RequestType
  <2> QED
    BY <2>1, <2>2
<1>4. req'[r] = new
  BY <1>3, BecomesIs
<1>5. Follows(req[r])'
  BY <1>1, <1>2, <1>3, <1>4 DEF Follows, Creating
<1>6. TakenFrom(req[r]) = None /\ TakenFrom(req'[r]) = None
  BY <1>1, <1>3, <1>4 DEF TakenFrom
<1> QED
  BY <1>1, <1>5, <1>6, QuietStep

LEMMA HandleRefines ==
  ASSUME IInv, InOrder, NEW r, Requests = {r}, Start(r) \/ Stop(r) \/ Label(r)
  PROVE  Refined
<1>1. /\ req[r] \in RequestType /\ Fits(req[r]) /\ Follows(req[r])
      /\ req[r].at \in {"start", "stop", "label"} /\ disk' = disk /\ Goto(r, "collect")
  BY BecomesIs DEF Start, Stop, Label, At, InOrder
<1>2. req[r].kind \in Saves /\ req[r].path \in Paths /\ req[r].session \in Sessions
  BY <1>1 DEF Fits, Shape, Creating, Saves
<1>3. req'[r].at = "collect" /\ req'[r].kind = req[r].kind
  BY <1>1, BecomesIs DEF Goto, RequestType
<1>4. Follows(req[r])'
  BY <1>2, <1>3 DEF Follows, Creating, Saves
<1>5. TakenFrom(req'[r]) = TakenFrom(req[r])
  BY <1>1, <1>3 DEF TakenFrom
<1>6. InOrder'
  BY <1>1, <1>4 DEF InOrder, OneFile
<1>7. Abstract!Next
  <2>1. CASE Start(r)
    <3>1. Abstract!Start(req[r].session, req[r].path)
      BY <1>1, <1>5, <2>1, StoreIs, TakenIs DEF Abstract!Start, Start, At, Follows, Creating
    <3> QED
      BY <1>2, <3>1 DEF Abstract!Next
  <2>2. CASE Stop(r)
    <3>1. Abstract!End(req[r].session)
      BY <1>1, <1>5, <2>2, StoreIs, TakenIs DEF Abstract!End, Stop, At, IInv, Present
    <3> QED
      BY <1>2, <3>1 DEF Abstract!Next
  <2>3. CASE Label(r)
    <3>1. Abstract!Relabel(req[r].session, req[r].value)
      BY <1>1, <1>5, <2>3, StoreIs, TakenIs DEF Abstract!Relabel, Label, At, IInv, Present
    <3>2. req[r].value \in Labels
      BY <1>1, <2>3 DEF Label, At, Fits, Shape
    <3> QED
      BY <1>2, <3>1, <3>2 DEF Abstract!Next
  <2> QED
    BY <2>1, <2>2, <2>3
<1> QED
  BY <1>6, <1>7 DEF Refined

LEMMA CollectRefines == ASSUME IInv, InOrder, NEW r, Requests = {r}, Collect(r) PROVE Refined
<1>. DEFINE p == req[r].path
            copy == [s \in Sessions |-> IF IsActive(s) /\ handles[s].path = p
                                          THEN [path |-> p, label |-> handles[s].label] ELSE None]
            new == [req[r] EXCEPT !.at = "list", !.found = copy]
<1>1. /\ req[r] \in RequestType /\ Fits(req[r]) /\ req[r].at = "collect"
      /\ UNCHANGED <<disk, handles>> /\ Becomes(r, new)
  BY BecomesIs DEF Collect, At
<1>2. req[r].kind \in Saves /\ p \in Paths
  BY <1>1 DEF Fits, Shape, Saves
<1>3. Entries(copy) = Abstract!Snapshot(handles, p)
  <2>1. ASSUME NEW s \in Sessions
        PROVE  (IF copy[s] = None THEN None ELSE copy[s].label)
                  = IF IsActive(s) /\ handles[s].path = p THEN handles[s].label ELSE None
    <3>1. CASE IsActive(s) /\ handles[s].path = p
      <4>1. [path |-> p, label |-> handles[s].label] \in Found
        BY <1>2, <3>1 DEF IsActive, IInv, TypeOK, Handle, Found
      <4> QED
        BY <3>1, <4>1, NoneAssumption
    <3>2. CASE ~ (IsActive(s) /\ handles[s].path = p)
      BY <3>2
    <3> QED
      BY <3>1, <3>2
  <2>2. Abstract!Snapshot(handles, p) =
           [s \in Sessions |-> IF IsActive(s) /\ handles[s].path = p THEN handles[s].label ELSE None]
    BY DEF Abstract!Snapshot, Abstract!IsActive, IsActive
  <2>. HIDE DEF copy
  <2> QED
    BY <2>1, <2>2 DEF Entries
<1>. HIDE DEF copy
<1>4. new.at = "list" /\ new.kind = req[r].kind /\ new.path = p /\ new.found = copy
  BY <1>1 DEF RequestType
<1>5. req'[r] = new
  BY <1>1, BecomesIs
<1>. HIDE DEF new
<1>6. Follows(req[r])'
  BY <1>2, <1>4, <1>5 DEF Follows, Creating, Saves
<1>7. /\ TakenFrom(req[r]) = None
      /\ TakenFrom(req'[r]) = [path |-> p, agents |-> Abstract!Snapshot(handles, p)]
  BY <1>1, <1>2, <1>3, <1>4, <1>5 DEF TakenFrom
<1>8. InOrder'
  BY <1>1, <1>6 DEF InOrder, OneFile
<1>9. Abstract!Take(p)
  BY <1>1, <1>7, StoreIs, TakenIs DEF Abstract!Take
<1> QED
  BY <1>2, <1>8, <1>9 DEF Refined, Abstract!Next

\* The snapshot that a handler is about to save.
LEMMA TakenIsThere ==
  ASSUME IInv, NEW r \in Requests, Loaded(r, Saves)
  PROVE  /\ TakenFrom(req[r]) = [path |-> req[r].path, agents |-> Entries(req[r].found)]
         /\ TakenFrom(req[r]) # None /\ req[r].path \in Paths /\ Entries(req[r].found) \in Saved
<1>1. req[r] \in RequestType /\ Fits(req[r]) /\ req[r].at = "read" /\ req[r].kind \in Saves
  BY BecomesIs DEF Loaded, At
<1>2. req[r].path \in Paths
  BY <1>1 DEF Fits, Shape, Saves
<1>3. Entries(req[r].found) \in Saved
  <2>1. \A s \in Sessions : req[r].found[s] \in Found \cup {None}
    BY <1>1 DEF RequestType
  <2> QED
    BY <2>1 DEF Entries, Saved, Found
<1>4. [path |-> req[r].path, agents |-> Entries(req[r].found)] # None
  BY <1>2, <1>3, NoneAssumption
<1> QED
  BY <1>1, <1>2, <1>3, <1>4 DEF TakenFrom

LEMMA SaveFailsRefines == ASSUME IInv, InOrder, NEW r, Requests = {r}, SaveFails(r) PROVE Refined
<1>1. Loaded(r, Saves) /\ Finish(r, FALSE) /\ UNCHANGED <<disk, handles>>
  BY DEF SaveFails
<1>2. TakenFrom(req'[r]) = None /\ Follows(req[r])' /\ TakenFrom(req[r]) # None
  BY <1>1, FinishFollows, TakenIsThere
<1>3. InOrder'
  BY <1>1, <1>2 DEF InOrder, OneFile
<1>4. Abstract!Drop
  BY <1>1, <1>2, StoreIs, TakenIs DEF Abstract!Drop
<1> QED
  BY <1>3, <1>4 DEF Refined, Abstract!Next

LEMMA SaveAgentsRefines == ASSUME IInv, InOrder, NEW r, Requests = {r}, SaveAgents(r) PROVE Refined
<1>. DEFINE p == req[r].path
            agents == Entries(req[r].found)
<1>1. Loaded(r, Saves) /\ Finish(r, TRUE) /\ UNCHANGED handles /\ disk \in Disks /\ OneFile(disk)
  BY DEF SaveAgents, IInv, TypeOK, Disks, InOrder
<1>2. /\ TakenFrom(req[r]) = [path |-> p, agents |-> agents] /\ TakenFrom(req[r]) # None
      /\ p \in Paths /\ agents \in Saved /\ TakenFrom(req'[r]) = None /\ Follows(req[r])'
  BY <1>1, FinishFollows, TakenIsThere
<1>. HIDE DEF agents
<1>3. PICK i \in Ids, n \in Names :
         /\ disk' = [disk EXCEPT ![i] = [path |-> p, name |-> n, agents |-> agents]]
         /\ FilesIn(disk, p) \subseteq {i} /\ (disk[i] # None => disk[i].path = p)
         /\ n = IF StoreFrom(disk)[p] = None THEN FirstName ELSE StoreFrom(disk)[p].name
  <2>1. CASE Mine(r) # {}
    <3>1. PICK e \in Mine(r) : disk' = [disk EXCEPT ![e.id] = [path |-> e.path, name |-> e.name, agents |-> agents]]
      BY <2>1 DEF SaveAgents, agents
    <3>2. /\ e.id \in Ids /\ e.path = p /\ e.name \in Names /\ FilesIn(disk, p) = {e.id}
          /\ disk[e.id] # None /\ disk[e.id].path = p /\ disk[e.id].name = e.name
      BY <1>1, MineIsTheFile DEF Saves, Listed, WorkspaceEntry
    <3>3. StoreFrom(disk)[p] = RecordOf(disk[e.id]) /\ StoreFrom(disk)[p] # None
      BY <1>1, <3>2, FileIsRecord, RecordIsRecord
    <3>4. disk' = [disk EXCEPT ![e.id] = [path |-> p, name |-> e.name, agents |-> agents]]
      BY <3>1, <3>2
    <3>5. e.name = IF StoreFrom(disk)[p] = None THEN FirstName ELSE StoreFrom(disk)[p].name
      BY <3>2, <3>3 DEF RecordOf
    <3> QED
      BY <3>2, <3>4, <3>5
  <2>2. CASE Mine(r) = {}
    <3>1. PICK i \in Ids \ made : disk' = [disk EXCEPT ![i] = [path |-> p, name |-> FirstName, agents |-> agents]]
      BY <2>2 DEF SaveAgents, agents
    <3>2. FilesIn(disk, p) = {} /\ StoreFrom(disk)[p] = None
      BY <1>1, <1>2, <2>2, MineIsTheFile, NoFileNoRecord DEF Saves
    <3>3. ASSUME disk[i] # None PROVE FALSE
      <4>1. disk[i].path \in Paths
        BY <3>3 DEF IInv, TypeOK, Persistence
      <4> QED
        BY <3>1, <3>3, <4>1 DEF IInv, Generated, Filed
    <3> QED
      BY <3>1, <3>2, <3>3, FirstAssumption
  <2> QED
    BY <2>1, <2>2
<1>. DEFINE f == [path |-> p, name |-> n, agents |-> agents]
<1>4. f \in Persistence /\ f.path = p /\ RecordOf(f) = [name |-> n, agents |-> agents]
  BY <1>2 DEF Persistence, RecordOf
<1>. HIDE DEF f
<1>5. OneFile(disk') /\ StoreFrom(disk') = [StoreFrom(disk) EXCEPT ![p] = RecordOf(f)]
  <2>1. PICK d : d = disk'
    OBVIOUS
  <2>2. /\ FilesIn(disk, f.path) \subseteq {i} /\ d = [disk EXCEPT ![i] = f]
        /\ (disk[i] # None => disk[i].path = f.path)
        /\ disk \in Disks /\ OneFile(disk) /\ i \in Ids /\ f \in Persistence
    BY <1>1, <1>3, <1>4, <2>1 DEF f
  <2>3. OneFile(d) /\ StoreFrom(d) = [StoreFrom(disk) EXCEPT ![f.path] = RecordOf(f)]
    BY <2>2, OneIsWritten
  <2> QED
    BY <1>4, <2>1, <2>3
<1>6. InOrder'
  BY <1>2, <1>5 DEF InOrder, OneFile
<1>7. StoreFrom(disk') = [StoreFrom(disk) EXCEPT ![p] =
                            [name |-> IF @ = None THEN FirstName ELSE @.name, agents |-> agents]]
  BY <1>2, <1>3, <1>4, <1>5 DEF StoreFrom
<1>8. Abstract!Save
  BY <1>1, <1>2, <1>7, StoreIs, TakenIs DEF Abstract!Save
<1> QED
  BY <1>6, <1>8 DEF Refined, Abstract!Next
-----------------------------------------------------------------------------
(***************************************************************************)
(* bootstrap, processes that end, and the restart.                         *)
(***************************************************************************)
LEMMA LooksRefine == ASSUME IInv, InOrder, NEW r, Requests = {r}, Scan(r) \/ Check(r) PROVE Refined
<1>1. /\ req[r] \in RequestType /\ Follows(req[r]) /\ req[r].at = "read" /\ req[r].kind = "bootstrap"
      /\ UNCHANGED <<disk, handles>>
  BY BecomesIs DEF Scan, Check, Loaded, At, InOrder
<1>2. PICK new :
         /\ Becomes(r, new) /\ new.kind = "bootstrap" /\ new.at \in {"read", "insert"}
         /\ new.at = "insert" => ~ IsActive(new.session)
         /\ \A s \in Sessions : new.found[s] # None => \E i \in Ids : new.found[s] = FoundIn(i)[s]
  <2>1. CASE Scan(r)
    <3>. DEFINE Merge(found) == [s \in Sessions |-> IF found[s] = None THEN req[r].found[s] ELSE found[s]]
    <3>1. PICK found : /\ Becomes(r, [req[r] EXCEPT !.entries = Tail(@), !.found = Merge(found)])
                       /\ found = NoSessions \/ \E i \in Ids : found = FoundIn(i)
      BY <2>1 DEF Scan, Files
    <3>2. PICK new : new = [req[r] EXCEPT !.entries = Tail(@), !.found = Merge(found)]
      OBVIOUS
    <3>3. new.kind = "bootstrap" /\ new.at = "read" /\ new.found = Merge(found)
      BY <1>1, <3>2 DEF RequestType
    <3>4. ASSUME NEW s \in Sessions, new.found[s] # None
          PROVE  \E i \in Ids : new.found[s] = FoundIn(i)[s]
      BY <1>1, <3>1, <3>3, <3>4 DEF Follows, NoSessions
    <3>5. Becomes(r, new)
      BY <3>1, <3>2
    <3> QED
      BY <3>3, <3>4, <3>5
  <2>2. CASE Check(r)
    <3>1. PICK s \in Sessions :
             IF IsActive(s) THEN Becomes(r, [req[r] EXCEPT !.found[s] = None])
                            ELSE Becomes(r, [req[r] EXCEPT !.at = "insert", !.session = s])
      BY <2>2 DEF Check
    <3>2. CASE IsActive(s)
      <4>1. PICK new : new = [req[r] EXCEPT !.found[s] = None]
        OBVIOUS
      <4>2. new.kind = "bootstrap" /\ new.at = "read" /\ new.found = [req[r].found EXCEPT ![s] = None]
        BY <1>1, <4>1 DEF RequestType
      <4>3. \A x \in Sessions : new.found[x] # None => new.found[x] = req[r].found[x]
        BY <1>1, <4>2 DEF RequestType
      <4>4. Becomes(r, new)
        BY <3>1, <3>2, <4>1
      <4>5. ASSUME NEW x \in Sessions, new.found[x] # None
            PROVE  \E i \in Ids : new.found[x] = FoundIn(i)[x]
        BY <1>1, <4>3, <4>5 DEF Follows
      <4> QED
        BY <4>2, <4>4, <4>5
    <3>3. CASE ~ IsActive(s)
      <4>1. PICK new : new = [req[r] EXCEPT !.at = "insert", !.session = s]
        OBVIOUS
      <4>2. new.kind = "bootstrap" /\ new.at = "insert" /\ new.session = s /\ new.found = req[r].found
        BY <1>1, <4>1 DEF RequestType
      <4>3. Becomes(r, new)
        BY <3>1, <3>3, <4>1
      <4>4. ASSUME NEW x \in Sessions, new.found[x] # None
            PROVE  \E i \in Ids : new.found[x] = FoundIn(i)[x]
        BY <1>1, <4>2, <4>4 DEF Follows
      <4> QED
        BY <3>3, <4>2, <4>3, <4>4
    <3> QED
      BY <3>2, <3>3
  <2> QED
    BY <2>1, <2>2
<1>3. req'[r] = new
  BY <1>2, BecomesIs
<1>4. Follows(req[r])'
  BY <1>1, <1>2, <1>3 DEF Follows, Creating, FoundIn, IsActive
<1>5. TakenFrom(req[r]) = None /\ TakenFrom(req'[r]) = None
  BY <1>1, <1>2, <1>3 DEF TakenFrom, Saves
<1> QED
  BY <1>1, <1>4, <1>5, QuietStep

\* The record of a path that has one is that of a file.
LEMMA RecordHasFile ==
  ASSUME NEW d \in Disks, NEW p \in Paths, StoreFrom(d)[p] # None
  PROVE  \E i \in Ids : d[i] # None /\ d[i].path = p /\ StoreFrom(d)[p] = RecordOf(d[i])
<1>1. FilesIn(d, p) # {}
  BY NoFileNoRecord
<1>2. PICK i \in FilesIn(d, p) : i = AnyOf(FilesIn(d, p))
  BY <1>1 DEF AnyOf
<1>3. i \in Ids /\ d[i] # None /\ d[i].path = p
  BY <1>2 DEF FilesIn
<1>4. StoreFrom(d)[p] = RecordOf(d[i])
  BY <1>1, <1>2 DEF StoreFrom
<1> QED
  BY <1>3, <1>4

LEMMA SavedIs ==
  ASSUME IInv, InOrder, NEW s \in Sessions
  PROVE  /\ (\A i \in Ids : disk[i] = None \/ disk[i].agents[s] = None) => Abstract!SavedHandle(s) = None
         /\ \A i \in Ids : disk[i] # None /\ disk[i].agents[s] # None =>
               /\ Abstract!SavedHandle(s) = [path |-> disk[i].path, label |-> disk[i].agents[s], active |-> TRUE]
               /\ Abstract!SavedHandle(s) # None
<1>. DEFINE In(p) == StoreFrom(disk)[p] # None /\ StoreFrom(disk)[p].agents[s] # None
<1>1. disk \in Disks /\ OneFile(disk)
  BY DEF IInv, TypeOK, Disks, InOrder
<1>2. Abstract!SavedHandle(s) =
         IF \E p \in Paths : In(p)
           THEN LET p == CHOOSE p \in Paths : In(p)
                IN  [path |-> p, label |-> StoreFrom(disk)[p].agents[s], active |-> TRUE]
           ELSE None
  BY StoreIs DEF Abstract!SavedHandle
<1>3. ASSUME NEW p \in Paths, In(p)
      PROVE  \E i \in Ids : disk[i] # None /\ disk[i].path = p /\ disk[i].agents[s] # None
  <2>1. PICK i \in Ids : disk[i] # None /\ disk[i].path = p /\ StoreFrom(disk)[p] = RecordOf(disk[i])
    BY <1>1, <1>3, RecordHasFile
  <2> QED
    BY <1>3, <2>1 DEF RecordOf
<1>4. ASSUME NEW i \in Ids, disk[i] # None, disk[i].agents[s] # None
      PROVE  /\ Abstract!SavedHandle(s) = [path |-> disk[i].path, label |-> disk[i].agents[s], active |-> TRUE]
             /\ Abstract!SavedHandle(s) # None
  <2>1. PICK p \in Paths : p = disk[i].path
    BY <1>1, <1>4, FileIsRecord
  <2>2. StoreFrom(disk)[p] = RecordOf(disk[i]) /\ RecordOf(disk[i]) # None /\ disk[i] \in Persistence
    BY <1>1, <1>4, <2>1, FileIsRecord, RecordIsRecord
  <2>3. In(p) /\ StoreFrom(disk)[p].agents[s] = disk[i].agents[s]
    BY <1>4, <2>2 DEF RecordOf
  <2>4. ASSUME NEW q \in Paths, In(q) PROVE q = p
    <3>1. Lives(s, q) /\ Lives(s, p)
      BY <1>3, <1>4, <2>1, <2>4 DEF Lives
    <3> QED
      BY <3>1 DEF IInv, OneHome
  <2>. HIDE DEF In
  <2>5. (CHOOSE q \in Paths : In(q)) = p
    BY <2>3, <2>4
  <2>6. Abstract!SavedHandle(s) = [path |-> p, label |-> disk[i].agents[s], active |-> TRUE]
    BY <1>2, <2>3, <2>5
  <2>7. [path |-> p, label |-> disk[i].agents[s], active |-> TRUE] \in Handle
    BY <1>4, <2>2 DEF Handle, Persistence, Saved
  <2> QED
    BY <2>1, <2>6, <2>7, NoneAssumption
<1>5. ASSUME \A i \in Ids : disk[i] = None \/ disk[i].agents[s] = None
      PROVE  Abstract!SavedHandle(s) = None
  <2>1. ~ \E p \in Paths : In(p)
    BY <1>3, <1>5
  <2>. HIDE DEF In
  <2> QED
    BY <1>2, <2>1
<1> QED
  BY <1>4, <1>5

LEMMA InsertRefines == ASSUME IInv, InOrder, NEW r, Requests = {r}, Insert(r) PROVE Refined
<1>. DEFINE s == req[r].session
            new == [req[r] EXCEPT !.at = "read", !.session = None, !.found[s] = None]
<1>1. /\ req[r] \in RequestType /\ Fits(req[r]) /\ Follows(req[r]) /\ req[r].at = "insert"
      /\ disk' = disk /\ Becomes(r, new)
      /\ handles' = [handles EXCEPT ![s] =
                       [path |-> req[r].found[s].path, label |-> req[r].found[s].label, active |-> TRUE]]
  BY BecomesIs DEF Insert, At, InOrder
<1>2. req[r].kind = "bootstrap" /\ s \in Sessions /\ req[r].found[s] # None /\ ~ IsActive(s)
  BY <1>1 DEF Fits, Shape, Follows
<1>3. PICK i \in Ids : req[r].found[s] = FoundIn(i)[s]
  BY <1>1, <1>2 DEF Follows
<1>. HIDE DEF s
<1>4. /\ disk[i] # None /\ disk[i].agents[s] # None
      /\ req[r].found[s] = [path |-> disk[i].path, label |-> disk[i].agents[s]]
  BY <1>2, <1>3 DEF FoundIn
<1>5. /\ Abstract!SavedHandle(s) = [path |-> disk[i].path, label |-> disk[i].agents[s], active |-> TRUE]
      /\ Abstract!SavedHandle(s) # None
  BY <1>2, <1>4, SavedIs
<1>6. new.at = "read" /\ new.kind = "bootstrap" /\ new.found = [req[r].found EXCEPT ![s] = None]
  BY <1>1, <1>2 DEF RequestType
<1>7. req'[r] = new
  BY <1>1, BecomesIs
<1>. HIDE DEF new
<1>8. \A x \in Sessions : req'[r].found[x] # None => req'[r].found[x] = req[r].found[x]
  BY <1>1, <1>6, <1>7 DEF RequestType
<1>9. Follows(req[r])'
  <2>1. \A x \in Sessions : req'[r].found[x] # None => \E j \in Ids : req'[r].found[x] = FoundIn(j)'[x]
    BY <1>1, <1>2, <1>8 DEF Follows, FoundIn
  <2> QED
    BY <1>6, <1>7, <2>1 DEF Follows, Creating
<1>10. TakenFrom(req'[r]) = TakenFrom(req[r])
  BY <1>1, <1>2, <1>6, <1>7 DEF TakenFrom, Saves
<1>11. InOrder'
  BY <1>1, <1>9 DEF InOrder, OneFile
<1>12. handles' = [handles EXCEPT ![s] = Abstract!SavedHandle(s)]
  BY <1>1, <1>4, <1>5
<1>13. Abstract!Revive(s)
  BY <1>1, <1>2, <1>5, <1>10, <1>12, StoreIs, TakenIs DEF Abstract!Revive, Abstract!IsActive, IsActive
<1> QED
  BY <1>2, <1>11, <1>13 DEF Refined, Abstract!Next

LEMMA ExitRefines == ASSUME IInv, InOrder, NEW r, Requests = {r}, Exit PROVE Refined
<1>1. PICK s \in Sessions : IsActive(s) /\ handles' = [handles EXCEPT ![s].active = FALSE]
  BY DEF Exit
<1>2. disk' = disk /\ req' = req /\ Follows(req[r]) /\ req[r] \in RequestType /\ Fits(req[r])
  BY BecomesIs DEF Exit, InOrder
<1>3. \A x \in Sessions : /\ IsActive(x)' => IsActive(x)
                          /\ handles[x] = None => handles'[x] = None
  BY <1>1 DEF IsActive, IInv, TypeOK, Handle
<1>4. Follows(req[r])'
  <2>1. req[r].at = "insert" \/ Creating(req[r]) => req[r].session \in Sessions
    BY <1>2 DEF Fits, Shape
  <2>2. req'[r].at = "insert" => ~ IsActive(req[r].session)'
    BY <1>2, <1>3, <2>1 DEF Follows, IsActive
  <2>3. Creating(req[r])' => handles'[req'[r].session] = None
    BY <1>2, <1>3, <2>1 DEF Follows, Creating
  <2>4. (\A e \in ToSet(req[r].entries) : Listed(e) <=> Listed(e)') /\ (\A e : Due(req[r], e) <=> Due(req[r], e)')
    BY <1>2 DEF Listed, Due, New, Changed, Files
  <2>5. OneEntry(req[r]) <=> OneEntry(req[r])'
    BY <1>2 DEF OneEntry
  <2>6. \A i : FoundIn(i)' = FoundIn(i)
    BY <1>2 DEF FoundIn
  <2> QED
    BY <1>2, <2>2, <2>3, <2>4, <2>5, <2>6 DEF Follows
<1>5. InOrder'
  BY <1>2, <1>4 DEF InOrder, OneFile
<1>6. Abstract!End(s)
  BY <1>1, <1>2, StoreIs, TakenIs DEF Abstract!End, IsActive
<1> QED
  BY <1>5, <1>6 DEF Refined, Abstract!Next

LEMMA RestartRefines == ASSUME IInv, InOrder, NEW r, Requests = {r}, Restart PROVE Refined
<1>1. PICK first \in [Paths -> Ids \cup {None}] :
         /\ \A p \in Paths : first[p] \in IF Files(p) = {} THEN {None} ELSE Files(p)
         /\ handles' = [s \in Sessions |->
               LET in == {p \in Paths : first[p] # None /\ disk[first[p]].agents[s] # None}
               IN  IF in = {} THEN None
                   ELSE LET p == CHOOSE q \in in : TRUE
                        IN  [path |-> p, label |-> disk[first[p]].agents[s], active |-> TRUE]]
  BY DEF Restart
<1>2. disk' = disk /\ req'[r] = Idle /\ disk \in Disks /\ OneFile(disk)
  BY DEF Restart, IInv, TypeOK, Disks, InOrder
<1>3. ASSUME NEW p \in Paths, first[p] # None
      PROVE  first[p] \in Ids /\ disk[first[p]] # None /\ disk[first[p]].path = p
  BY <1>1, <1>3 DEF Files
<1>4. ASSUME NEW i \in Ids, disk[i] # None
      PROVE  disk[i].path \in Paths /\ first[disk[i].path] = i /\ i # None
  <2>1. disk[i].path \in Paths /\ Files(disk[i].path) = {i}
    BY <1>2, <1>4, FileIsRecord DEF Files, FilesIn
  <2> QED
    BY <1>1, <2>1, NoneAssumption
<1>5. ASSUME NEW s \in Sessions PROVE handles'[s] = Abstract!SavedHandle(s)
  <2>. DEFINE in == {p \in Paths : first[p] # None /\ disk[first[p]].agents[s] # None}
  <2>1. handles'[s] = IF in = {} THEN None
                      ELSE LET p == CHOOSE q \in in : TRUE
                           IN  [path |-> p, label |-> disk[first[p]].agents[s], active |-> TRUE]
    BY <1>1
  <2>2. CASE in = {}
    <3>1. \A i \in Ids : disk[i] = None \/ disk[i].agents[s] = None
      BY <1>4, <2>2
    <3>2. Abstract!SavedHandle(s) = None
      BY <3>1, SavedIs
    <3>. HIDE DEF in
    <3> QED
      BY <2>1, <2>2, <3>2
  <2>3. CASE in # {}
    <3>1. PICK p \in in : p = CHOOSE q \in in : TRUE
      BY <2>3
    <3>2. p \in Paths /\ first[p] # None /\ disk[first[p]].agents[s] # None
      BY <3>1
    <3>. HIDE DEF in
    <3>3. handles'[s] = [path |-> p, label |-> disk[first[p]].agents[s], active |-> TRUE]
      BY <2>1, <2>3, <3>1
    <3> QED
      BY <1>3, <3>2, <3>3, SavedIs
  <2> QED
    BY <2>2, <2>3
<1>6. handles' = [s \in Sessions |-> Abstract!SavedHandle(s)]
  <2>1. handles' = [s \in Sessions |-> handles'[s]]
    BY <1>1
  <2> QED
    BY <1>5, <2>1
<1>7. Follows(req[r])' /\ TakenFrom(req'[r]) = None
  BY <1>2, IdleFollows
<1>8. InOrder'
  BY <1>2, <1>7 DEF InOrder, OneFile
<1>9. Abstract!Restart
  BY <1>2, <1>6, <1>7, StoreIs, TakenIs DEF Abstract!Restart
<1> QED
  BY <1>8, <1>9 DEF Refined, Abstract!Next
-----------------------------------------------------------------------------
LEMMA InitRefines == ASSUME Init, NEW r, Requests = {r} PROVE InOrder /\ Abstract!Init
<1>1. req[r] = Idle /\ \A i \in Ids : disk[i] = None
  BY DEF Init
<1>2. Idle.at = "idle" /\ Idle.kind = "register"
  BY DEF Idle
<1>3. InOrder
  BY <1>1, <1>2 DEF InOrder, OneFile, Follows, Creating
<1>4. TakenFrom(req[r]) = None
  BY <1>1, <1>2 DEF TakenFrom
<1>5. StoreFrom(disk) = [p \in Paths |-> None]
  BY <1>1 DEF StoreFrom, FilesIn
<1> QED
  BY <1>3, <1>4, <1>5, StoreIs, TakenIs DEF Init, Abstract!Init

LEMMA NextRefines ==
  ASSUME IInv, InOrder, [Next]_vars, NEW r, Requests = {r}
  PROVE  InOrder' /\ [Abstract!Next]_(Abstract!vars)
<1>1. CASE Handles(r)
  BY <1>1, BeginsRefine, ListRefines, ReadRefines, EndsRefine, RegisterNewRefines, ConfigureRefines,
     RemoveDirRefines, ReadAgentsRefines, WriteEntryRefines, FindRefines, HandleRefines, CollectRefines,
     SaveAgentsRefines, SaveFailsRefines, LooksRefine, InsertRefines DEF Handles, Refined
<1>2. CASE Exit
  BY <1>2, ExitRefines DEF Refined
<1>3. CASE Restart
  BY <1>3, RestartRefines DEF Refined
<1>4. CASE UNCHANGED vars
  <2>1. InOrder'
    <3>1. disk' = disk /\ handles' = handles /\ req' = req
      BY <1>4 DEF vars
    <3>2. \A i \in Ids : FoundIn(i)' = FoundIn(i)
      BY <3>1 DEF FoundIn
    <3>3. \A q, e : Listed(e)' = Listed(e) /\ Due(q, e)' = Due(q, e)
      BY <3>1 DEF Listed, Due, New, Changed, Files
    <3>4. ASSUME NEW q \in Requests PROVE Follows(req[q])'
      <4>1. FoundIn(Head(req[q].entries).id)' = FoundIn(Head(req[q].entries).id)
        BY <3>1 DEF FoundIn
      <4> QED
        BY <3>1, <3>2, <3>3, <4>1 DEF InOrder, Follows, OneEntry, IsActive, Creating
    <3> QED
      BY <3>1, <3>4 DEF InOrder, OneFile
  <2>2. UNCHANGED Abstract!vars
    BY <1>4, AbstractStep DEF vars
  <2> QED
    BY <2>1, <2>2
<1> QED
  BY <1>1, <1>2, <1>3, <1>4 DEF Next

(***************************************************************************)
(* As long as there is one handler, and so one request at a time, the      *)
(* files implement one record per workspace that each request changes in   *)
(* one step, wherever writes fail, processes end or the daemon dies        *)
(* (save_workspaces, save_workspace_agents).                               *)
(***************************************************************************)
THEOREM OneAtATime == ASSUME NEW r, Requests = {r} PROVE Spec => ImplementsWorkspaces
<1>1. Init => InOrder /\ Abstract!Init
  BY InitRefines
<1>2. IInv /\ InOrder /\ [Next]_vars => InOrder' /\ [Abstract!Next]_(Abstract!vars)
  BY NextRefines
<1> QED
  BY <1>1, <1>2, InitIInv, NextIInv, PTL DEF Spec, ImplementsWorkspaces, Abstract!Spec
=============================================================================

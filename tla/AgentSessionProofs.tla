------------------------- MODULE AgentSessionProofs -------------------------
(***************************************************************************)
(* What the handlers of one session keep true, for any number of requests, *)
(* processes and runs of the daemon.                                       *)
(*                                                                         *)
(* A request is known by the step it is at: Order says which step may come *)
(* after which, Fits what a request holds at a step, and Meets what the    *)
(* session looks like then.  The handlers that may spawn are alone as long *)
(* as no two of them overlapped, so that the PTY one found dead stays so.  *)
(***************************************************************************)
EXTENDS AgentSession, SequenceTheorems, TLAPS

(* The step that comes after another in the programs. *)
Order ==
    {<<"spawn", "attach">>, <<"attach", "reconcile">>, <<"attach", "regain">>, <<"regain", "attach">>,
     <<"reconcile", "watch">>, <<"watch", "collect">>, <<"watch", "peek">>, <<"watch", "readHandle">>,
     <<"collect", "promote">>, <<"promote", "save">>, <<"peek", "promoteOne">>,
     <<"promoteOne", "reconcile">>, <<"promoteOne", "readPid">>, <<"readPid", "unmonitor">>,
     <<"unmonitor", "kill">>, <<"kill", "terminate">>, <<"terminate", "mark">>, <<"mark", "reconcile">>,
     <<"readDisk", "check">>, <<"check", "hydrate">>, <<"hydrate", "reconcile">>,
     <<"readHandle", "look">>, <<"killStale", "resume">>, <<"resume", "insert">>,
     <<"fallback", "insert">>, <<"insert", "attach">>, <<"freshKill", "freshRemove">>,
     <<"freshRemove", "freshSpawn">>, <<"freshSpawn", "freshUpdate">>, <<"freshUpdate", "attach">>}

Final == {"promote", "save", "look", "attach"}

Program(s) ==
    /\ s \in Seq(Steps)
    /\ \A i \in 1 .. Len(s) : IF i < Len(s) THEN <<s[i], s[i + 1]>> \in Order ELSE s[i] \in Final

Spawners == {"look", "killStale", "resume", "fallback", "insert",
             "freshKill", "freshRemove", "freshSpawn", "freshUpdate"}

Spawns(s) == \E i \in 1 .. Len(s) : s[i] \in Spawners

First(s) == IF s = << >> THEN "none" ELSE s[1]

(* The steps that use the copy, and those that will make a handle of it. *)
Resumers == {"killStale", "resume", "fallback", "insert"}
Holders == Resumers \cup {"check", "hydrate", "look"}
Refreshers == {"freshKill", "freshRemove", "freshSpawn", "freshUpdate"}

(* The steps up to the one that spawns. *)
Creators == {"killStale", "resume", "fallback", "freshKill", "freshRemove", "freshSpawn"}

Admits(c) == c # None /\ c.conv = "later" => c.resum = "Unresumable"

Fits(q) ==
    /\ Program(q.todo) /\ Admits(q.copy)
    /\ First(q.todo) \in Holders => q.copy # None
    /\ First(q.todo) \in Resumers => q.copy.resum = "Resumable"

Meets(q) ==
    /\ q.pty =< Len(ptys)
    /\ q.copy # None \/ First(q.todo) \in Refreshers => handle # None
    /\ First(q.todo) = "spawn" => handle = None /\ ptys = << >>
    /\ First(q.todo) = "killStale" /\ LivePty => q.pty # mapped
    /\ ~overlapped /\ First(q.todo) \in Creators => ~LivePty

Alone ==
    \A p, q \in Requests :
        /\ ~overlapped /\ Spawns(req[p].todo) /\ Spawns(req[q].todo) => p = q
        /\ First(req[p].todo) = "spawn" /\ First(req[q].todo) = "spawn" => p = q

IInv ==
    /\ TypeOK /\ Alone /\ LeakNeedsOverlap
    /\ handle # None => handle.pid =< Len(ptys) /\ Admits(handle)
    /\ Admits(disk) /\ (disk # None => handle # None)
    /\ \A r \in Requests : Fits(req[r]) /\ Meets(req[r])
-----------------------------------------------------------------------------
(***************************************************************************)
(* Programs.                                                               *)
(***************************************************************************)
\* What is left of a program is a program.
LEMMA TailOfProgram ==
  ASSUME NEW s, Program(s), s # << >>
  PROVE  /\ Program(Tail(s)) /\ First(s) = Head(s) /\ First(s) \in Steps
         /\ First(Tail(s)) # "none" => <<First(s), First(Tail(s))>> \in Order
         /\ First(s) \notin Final => First(Tail(s)) # "none"
         /\ Spawns(Tail(s)) => Spawns(s)
         /\ Tail(s) = << >> <=> Len(s) = 1
<1>1. s \in Seq(Steps)
  BY DEF Program
<1>2. PICK n \in Nat \ {0} : n = Len(s) /\ DOMAIN s = 1 .. n
  BY <1>1, LenProperties, EmptySeq
<1>3. PICK t : t = Tail(s)
  OBVIOUS
<1>4. t \in Seq(Steps) /\ Len(t) = n - 1 /\ \A i \in 1 .. n - 1 : t[i] = s[i + 1]
  BY <1>1, <1>2, <1>3, HeadTailProperties
<1>5. Head(s) = s[1] /\ First(s) = s[1] /\ s[1] \in Steps
  BY <1>1, <1>2, HeadTailProperties, ElementOfSeq DEF First
<1>6. ASSUME NEW i \in 1 .. n
      PROVE  IF i < n THEN <<s[i], s[i + 1]>> \in Order ELSE s[i] \in Final
  BY <1>2 DEF Program
<1>7. Program(t)
  <2>1. ASSUME NEW i \in 1 .. n - 1
        PROVE  IF i < n - 1 THEN <<t[i], t[i + 1]>> \in Order ELSE t[i] \in Final
    <3>1. CASE i < n - 1
      <4>1. i + 1 \in 1 .. n /\ i + 1 < n /\ i + 1 \in 1 .. n - 1 /\ (i + 1) + 1 = i + 2
        BY <1>2, <3>1
      <4>2. <<s[i + 1], s[(i + 1) + 1]>> \in Order
        BY <1>6, <4>1
      <4> QED
        BY <1>4, <2>1, <3>1, <4>1, <4>2
    <3>2. CASE i = n - 1
      <4>1. i + 1 = n /\ n \in 1 .. n /\ ~(n < n)
        BY <1>2, <3>2
      <4>2. s[n] \in Final
        BY <1>6, <4>1
      <4> QED
        BY <1>4, <2>1, <3>2, <4>1, <4>2
    <3> QED
      BY <2>1, <3>1, <3>2
  <2> QED
    BY <1>4, <2>1 DEF Program
<1>8. t = << >> <=> n = 1
  BY <1>4, EmptySeq
<1>9. t # << >> => First(t) = s[2] /\ <<s[1], s[2]>> \in Order
  <2> SUFFICES ASSUME t # << >> PROVE First(t) = s[2] /\ <<s[1], s[2]>> \in Order
    OBVIOUS
  <2>1. 1 \in 1 .. n - 1 /\ 1 \in 1 .. n /\ 1 < n
    BY <1>2, <1>8
  <2> QED
    BY <1>4, <1>6, <2>1 DEF First
<1>10. First(t) # "none" => t # << >>
  BY DEF First
<1>11. s[1] \notin Final => t # << >>
  <2>1. 1 \in 1 .. n
    BY <1>2
  <2>2. n = 1 => s[1] \in Final
    BY <1>6, <2>1
  <2> QED
    BY <1>8, <2>2
<1>12. t # << >> => First(t) # "none"
  <2> SUFFICES ASSUME t # << >> PROVE First(t) # "none"
    OBVIOUS
  <2>1. \A y : <<s[1], y>> \in Order => y # "none"
    BY DEF Order
  <2> QED
    BY <1>9, <2>1
<1>13. Spawns(t) => Spawns(s)
  BY <1>2, <1>4 DEF Spawns
<1> QED
  BY <1>2, <1>3, <1>5, <1>7, <1>8, <1>9, <1>10, <1>11, <1>12, <1>13

\* One program after another.
LEMMA Joined ==
  ASSUME NEW s, NEW t, NEW x, NEW S, s \in Seq(S), t \in Seq(S), s # << >>,
         S \subseteq Steps, Program(t), t # << >>,
         x = s[Len(s)], <<x, First(t)>> \in Order,
         \A i \in 1 .. Len(s) - 1 : <<s[i], s[i + 1]>> \in Order
  PROVE  Program(s \o t) /\ s \o t \in Seq(S) /\ First(s \o t) = s[1] /\ s \o t # << >>
<1>1. PICK m \in Nat \ {0}, n \in Nat \ {0} : m = Len(s) /\ n = Len(t)
  BY LenProperties, EmptySeq
<1>2. PICK u : u = s \o t
  OBVIOUS
<1>3. /\ u \in Seq(S) /\ Len(u) = m + n
      /\ \A i \in 1 .. m : u[i] = s[i]
      /\ \A i \in 1 .. n : u[m + i] = t[i]
  BY <1>1, <1>2, ConcatProperties
<1>4. ASSUME NEW i \in 1 .. m + n
      PROVE  IF i < m + n THEN <<u[i], u[i + 1]>> \in Order ELSE u[i] \in Final
  <2>1. CASE i < m
    <3>1. i \in 1 .. m - 1 /\ i \in 1 .. m /\ i + 1 \in 1 .. m /\ i < m + n
      BY <1>1, <2>1
    <3> QED
      BY <1>1, <1>3, <3>1
  <2>2. CASE i = m
    <3>1. 1 \in 1 .. n /\ m \in 1 .. m /\ m < m + n
      BY <1>1
    <3>2. First(t) = t[1]
      BY DEF First
    <3> QED
      BY <1>1, <1>3, <2>2, <3>1, <3>2
  <2>3. CASE i > m
    <3>1. PICK j \in 1 .. n : i = m + j /\ i + 1 = m + (j + 1)
      <4>1. i - m \in 1 .. n /\ i = m + (i - m) /\ i + 1 = m + ((i - m) + 1)
        BY <1>1, <2>3
      <4> QED
        BY <4>1
    <3>2. IF j < n THEN <<t[j], t[j + 1]>> \in Order ELSE t[j] \in Final
      BY <1>1 DEF Program
    <3>3. j < n => j + 1 \in 1 .. n
      OBVIOUS
    <3>4. j < n <=> i < m + n
      BY <1>1, <3>1
    <3> QED
      BY <1>3, <3>1, <3>2, <3>3, <3>4
  <2> QED
    BY <1>1, <2>1, <2>2, <2>3
<1>5. u \in Seq(Steps)
  <2>1. \A i \in 1 .. m + n : u[i] \in Steps
    BY <1>3, ElementOfSeq
  <2>2. u \in [1 .. m + n -> Steps] /\ m + n \in Nat
    BY <1>1, <1>3, <2>1, LenProperties
  <2> QED
    BY <2>2, SeqDef
<1>6. First(u) = s[1] /\ u # << >>
  <2>1. u # << >> /\ 1 \in 1 .. m
    BY <1>1, <1>3, EmptySeq
  <2> QED
    BY <1>3, <2>1 DEF First
<1> QED
  BY <1>2, <1>3, <1>4, <1>5, <1>6 DEF Program

Quiet == Steps \ Spawners

LEMMA QuietSpawnsNot ==
  ASSUME NEW s \in Seq(Quiet)
  PROVE  ~Spawns(s)
  BY ElementOfSeq DEF Spawns, Quiet

LEMMA ListingIsProgram ==
  /\ Program(Listing) /\ Listing \in Seq(Quiet) /\ First(Listing) = "reconcile" /\ Listing # << >>
<1>1. Listing \in Seq(Quiet) /\ Len(Listing) = 4
  BY DEF Listing, Quiet, Steps, Spawners
<1>2. Program(Listing)
  BY DEF Listing, Program, Steps, Order, Final
<1> QED
  BY <1>1, <1>2 DEF First, Listing

LEMMA SavingIsProgram ==
  /\ Program(Saving) /\ Saving \in Seq(Quiet) /\ First(Saving) = "reconcile" /\ Saving # << >>
<1>1. /\ Listing \in Seq(Quiet) /\ Listing # << >> /\ Len(Listing) = 4
      /\ Listing[4] = "promote" /\ Listing[1] = "reconcile"
      /\ \A i \in 1 .. 4 - 1 : <<Listing[i], Listing[i + 1]>> \in Order
  BY ListingIsProgram DEF Listing, Order
<1>2. PICK t : t = <<"save">>
  OBVIOUS
<1>3. Program(t) /\ t \in Seq(Quiet) /\ First(t) = "save" /\ t # << >>
  BY <1>2 DEF Program, Steps, Spawners, Quiet, Final, First
<1>4. <<"promote", "save">> \in Order /\ Quiet \subseteq Steps
  BY DEF Order, Quiet
<1> QED
  BY <1>1, <1>2, <1>3, <1>4, Joined DEF Saving

LEMMA GettingThen ==
  ASSUME NEW t, Program(t), t \in Seq(Quiet), t # << >>, First(t) \in {"reconcile", "readPid"}
  PROVE  /\ Program(Getting \o t) /\ Getting \o t \in Seq(Quiet) /\ Getting \o t # << >>
         /\ First(Getting \o t) = "reconcile"
<1>1. /\ Getting \in Seq(Quiet) /\ Getting # << >> /\ Len(Getting) = 4
      /\ Getting[4] = "promoteOne" /\ Getting[1] = "reconcile"
      /\ \A i \in 1 .. 4 - 1 : <<Getting[i], Getting[i + 1]>> \in Order
  BY DEF Getting, Order, Quiet, Steps, Spawners
<1>2. <<"promoteOne", First(t)>> \in Order /\ Quiet \subseteq Steps
  BY DEF Order, Quiet
<1> QED
  BY <1>1, <1>2, Joined

LEMMA StoppingThenSaving ==
  /\ Program(Stopping \o Saving) /\ Stopping \o Saving \in Seq(Quiet)
  /\ Stopping \o Saving # << >> /\ First(Stopping \o Saving) = "readPid"
<1>1. /\ Stopping \in Seq(Quiet) /\ Stopping # << >> /\ Len(Stopping) = 5
      /\ Stopping[5] = "mark" /\ Stopping[1] = "readPid"
      /\ \A i \in 1 .. 5 - 1 : <<Stopping[i], Stopping[i + 1]>> \in Order
  BY DEF Stopping, Order, Quiet, Steps, Spawners
<1>2. <<"mark", "reconcile">> \in Order /\ Quiet \subseteq Steps
  BY DEF Order, Quiet
<1> QED
  BY <1>1, <1>2, SavingIsProgram, Joined

LEMMA ReadDiskThenListing ==
  LET boot == <<"readDisk", "check", "hydrate">> \o Listing
  IN  Program(boot) /\ boot \in Seq(Quiet) /\ boot # << >> /\ First(boot) = "readDisk"
<1>1. PICK s : s = <<"readDisk", "check", "hydrate">>
  OBVIOUS
<1>2. /\ s \in Seq(Quiet) /\ s # << >> /\ Len(s) = 3 /\ s[3] = "hydrate" /\ s[1] = "readDisk"
      /\ \A i \in 1 .. 3 - 1 : <<s[i], s[i + 1]>> \in Order
  BY <1>1 DEF Order, Quiet, Steps, Spawners
<1>3. <<"hydrate", "reconcile">> \in Order /\ Quiet \subseteq Steps
  BY DEF Order, Quiet
<1> QED
  BY <1>1, <1>2, <1>3, ListingIsProgram, Joined

LEMMA SpawnThenGetting ==
  LET start == <<"spawn", "attach">> \o (Getting \o Saving)
  IN  Program(start) /\ start \in Seq(Quiet) /\ start # << >> /\ First(start) = "spawn"
<1>1. PICK s : s = <<"spawn", "attach">>
  OBVIOUS
<1>2. /\ s \in Seq(Quiet) /\ s # << >> /\ Len(s) = 2 /\ s[2] = "attach" /\ s[1] = "spawn"
      /\ \A i \in 1 .. 2 - 1 : <<s[i], s[i + 1]>> \in Order
  BY <1>1 DEF Order, Quiet, Steps, Spawners
<1>3. <<"attach", "reconcile">> \in Order /\ Quiet \subseteq Steps
  BY DEF Order, Quiet
<1> QED
  BY <1>1, <1>2, <1>3, SavingIsProgram, GettingThen, Joined

LEMMA AttachingIsProgram ==
  Program(Attaching) /\ First(Attaching) = "reconcile" /\ Attaching # << >>
  BY DEF Attaching, Program, Steps, Order, Final, First

\* A handler begins with its first step; only one of them may spawn.
LEMMA ProgramsArePrograms ==
  ASSUME NEW name \in {"start", "list", "settings", "stop", "bootstrap", "attach"},
         NEW s, s = Programs[name]
  PROVE  /\ Program(s) /\ First(s) \in {"spawn", "reconcile", "readDisk"}
         /\ First(s) = "spawn" => name = "start"
         /\ name # "attach" => ~Spawns(s)
<1>1. CASE name = "start"
  BY <1>1, SpawnThenGetting, QuietSpawnsNot DEF Programs
<1>2. CASE name = "list"
  BY <1>2, ListingIsProgram, QuietSpawnsNot DEF Programs
<1>3. CASE name = "settings"
  BY <1>3, SavingIsProgram, GettingThen, QuietSpawnsNot DEF Programs
<1>4. CASE name = "stop"
  BY <1>4, StoppingThenSaving, GettingThen, QuietSpawnsNot DEF Programs
<1>5. CASE name = "bootstrap"
  BY <1>5, ReadDiskThenListing, QuietSpawnsNot DEF Programs
<1>6. CASE name = "attach"
  BY <1>6, AttachingIsProgram DEF Programs
<1> QED
  BY <1>1, <1>2, <1>3, <1>4, <1>5, <1>6

LEMMA ResumingIsProgram ==
  /\ Program(Resuming) /\ First(Resuming) = "killStale"
  /\ Program(Refreshing) /\ First(Refreshing) = "freshKill"
  /\ Program(<<"attach">>) /\ First(<<"attach">>) = "attach"
  BY DEF Resuming, Refreshing, Program, Steps, Order, Final, First
-----------------------------------------------------------------------------
(***************************************************************************)
(* Steps.                                                                  *)
(***************************************************************************)
(* A request goes from old to new, and the session allows it. *)
Moves(old, new) ==
    /\ Fits(new) /\ new.pty =< Len(ptys)
    /\ new.copy # None \/ First(new.todo) \in Refreshers => handle # None
    /\ First(new.todo) # "spawn"
    /\ First(new.todo) = "killStale" /\ LivePty => new.pty # mapped
    /\ ~overlapped /\ First(new.todo) \in Creators => ~LivePty
    /\ Spawns(new.todo) => Spawns(old.todo)

\* No PTY is spawned, none starts to run again, and the handle stays known or
\* unknown.
LEMMA Step ==
  ASSUME IInv, UNCHANGED <<run, overlapped, limit>>,
         mapped' = mapped \/ (mapped' = 0 /\ (~overlapped => ~LivePty)),
         NEW f \in [Requests -> Request], req' = f,
         \A p \in Requests : f[p] = req[p] \/ Moves(req[p], f[p]),
         NEW h \in AgentHandle \cup {None}, handle' = h, h = None <=> handle = None,
         h # None => h.pid =< Len(ptys) /\ Admits(h),
         NEW ps \in Seq(Pty), ptys' = ps, Len(ps) = Len(ptys),
         \A n \in 1 .. Len(ptys) : ptys[n].stopped => ps[n].stopped,
         watched' \in 0 .. Len(ptys), late' \in 0 .. MaxLate,
         NEW d \in Entry \cup {None}, disk' = d, Admits(d), d # None => handle # None
  PROVE  IInv'
<1>1. TypeOK'
  BY DEF IInv, TypeOK
<1>2. LivePty' => LivePty /\ mapped' = mapped
  BY DEF LivePty, IInv, TypeOK
<1>3. LeakNeedsOverlap'
  <2>1. PICK len \in Nat : len = Len(ptys) /\ DOMAIN ptys = 1 .. len /\ DOMAIN ps = 1 .. len
    BY LenProperties DEF IInv, TypeOK
  <2>2. \A n \in 1 .. len : ~overlapped /\ ~ps[n].stopped => n = mapped /\ LivePty
    BY <2>1 DEF IInv, LeakNeedsOverlap, LivePty
  <2> QED
    BY <2>1, <2>2 DEF LeakNeedsOverlap
<1>4. \A p \in Requests :
         /\ Fits(f[p]) /\ f[p].pty =< Len(ptys)
         /\ f[p].copy # None \/ First(f[p].todo) \in Refreshers => handle # None
         /\ First(f[p].todo) = "spawn" => handle = None /\ ptys = << >> /\ First(req[p].todo) = "spawn"
         /\ First(f[p].todo) = "killStale" /\ LivePty => f[p].pty # mapped
         /\ ~overlapped /\ First(f[p].todo) \in Creators => ~LivePty
         /\ Spawns(f[p].todo) => Spawns(req[p].todo)
  BY DEF IInv, Meets, Moves
<1>5. Alone'
  BY <1>4 DEF IInv, Alone
<1>6. ps = << >> <=> ptys = << >>
  BY EmptySeq DEF IInv, TypeOK
<1>7. ASSUME NEW p \in Requests PROVE Fits(f[p]) /\ Meets(req[p])'
  BY <1>2, <1>4, <1>6 DEF Meets
<1>8. (\A p \in Requests : Fits(req[p]) /\ Meets(req[p]))'
  BY <1>7
<1> QED
  BY <1>1, <1>3, <1>5, <1>8 DEF IInv

LEMMA TypesOfSession ==
  ASSUME IInv
  PROVE  /\ req \in [Requests -> Request] /\ handle \in AgentHandle \cup {None}
         /\ handle # None => handle.pid =< Len(ptys) /\ Admits(handle)
         /\ ptys \in Seq(Pty) /\ Len(ptys) \in Nat /\ mapped \in 0 .. Len(ptys)
         /\ watched \in 0 .. Len(ptys) /\ late \in 0 .. MaxLate
         /\ disk \in Entry \cup {None} /\ Admits(disk) /\ (disk # None => handle # None)
         /\ DOMAIN ptys = 1 .. Len(ptys) /\ \A n \in 1 .. Len(ptys) : ptys[n] \in Pty
  BY LenProperties, ElementOfSeq DEF IInv, TypeOK

\* The step a request is at, and what is left after it.
LEMMA AtStep ==
  ASSUME IInv, NEW r \in Requests, NEW x, At(r, x)
  PROVE  /\ req[r] \in Request /\ First(req[r].todo) = x /\ x \in Steps
         /\ Fits(req[r]) /\ Meets(req[r])
         /\ Program(Tail(req[r].todo)) /\ Tail(req[r].todo) \in Seq(Steps)
         /\ First(Tail(req[r].todo)) # "none" => <<x, First(Tail(req[r].todo))>> \in Order
         /\ x \notin Final => First(Tail(req[r].todo)) # "none"
         /\ Spawns(Tail(req[r].todo)) => Spawns(req[r].todo)
         /\ Tail(req[r].todo) = << >> <=> Len(req[r].todo) = 1
<1>1. req[r] \in Request /\ Fits(req[r]) /\ Meets(req[r]) /\ req[r].todo # << >>
  BY DEF IInv, TypeOK, At
<1>2. Program(req[r].todo) /\ Head(req[r].todo) = x
  BY <1>1 DEF Fits, At
<1>3. \A s : Program(s) => s \in Seq(Steps)
  BY DEF Program
<1> QED
  BY <1>1, <1>2, <1>3, TailOfProgram

\* The steps after which comes one that needs nothing.
Easy == {"spawn", "attach", "regain", "reconcile", "watch", "collect", "promote", "peek", "promoteOne",
         "save", "readPid", "unmonitor", "kill", "terminate", "mark", "hydrate", "insert", "freshUpdate"}

LEMMA EasySteps ==
  ASSUME NEW x \in Easy, NEW y, <<x, y>> \in Order
  PROVE  y \notin Holders /\ y \notin Resumers /\ y \notin Refreshers /\ y \notin Creators
         /\ y # "spawn" /\ y # "killStale"
  BY DEF Easy, Order, Holders, Resumers, Refreshers, Creators

LEMMA NoStep ==
  "none" \notin Holders \cup Resumers \cup Refreshers \cup Creators
  BY DEF Holders, Resumers, Refreshers, Creators

LEMMA Moved ==
  ASSUME IInv, NEW r \in Requests, NEW x \in Easy, At(r, x), NEW q,
         q.todo = Tail(req[r].todo), Admits(q.copy), q.copy # None => handle # None,
         q.pty =< Len(ptys)
  PROVE  Moves(req[r], q)
<1>1. PICK y : y = First(q.todo)
  OBVIOUS
<1>2. /\ Program(q.todo) /\ (y # "none" => <<x, y>> \in Order)
      /\ Spawns(q.todo) => Spawns(req[r].todo)
  BY <1>1, AtStep
<1>3. y \notin Holders /\ y \notin Resumers /\ y \notin Refreshers /\ y \notin Creators
      /\ y # "spawn" /\ y # "killStale"
  BY <1>2, EasySteps, NoStep
<1> QED
  BY <1>1, <1>2, <1>3 DEF Moves, Fits

\* A request is done.
LEMMA Finished ==
  ASSUME IInv, NEW old
  PROVE  Idle \in Request /\ Moves(old, Idle)
<1>1. Idle \in Request /\ Idle.todo = << >> /\ Idle.copy = None /\ Idle.pty = 0
  BY EmptySeq DEF Idle, Request
<1>2. Program(<< >>) /\ ~Spawns(<< >>) /\ First(<< >>) = "none"
  BY EmptySeq DEF Program, Spawns, First
<1>3. 0 =< Len(ptys)
  BY TypesOfSession
<1> QED
  BY <1>1, <1>2, <1>3, NoStep DEF Moves, Fits, Admits

LEMMA OneMoves ==
  ASSUME IInv, NEW r \in Requests, NEW q \in Request, req' = [req EXCEPT ![r] = q], Moves(req[r], q)
  PROVE  req' \in [Requests -> Request] /\ \A p \in Requests : req'[p] = req[p] \/ Moves(req[p], req'[p])
<1>1. req' \in [Requests -> Request]
  BY TypesOfSession
<1>2. \A p \in Requests : req'[p] = IF p = r THEN q ELSE req[p]
  BY TypesOfSession
<1> QED
  BY <1>1, <1>2

\* A request takes a turn that only it, the handle and the entry can tell.
LEMMA Turn ==
  ASSUME IInv, NEW r \in Requests, NEW q \in Request, req' = [req EXCEPT ![r] = q],
         Moves(req[r], q), UNCHANGED <<run, ptys, mapped, monitors, overlapped, limit>>,
         NEW h \in AgentHandle \cup {None}, handle' = h, h = None <=> handle = None,
         h # None => h.pid =< Len(ptys) /\ Admits(h),
         NEW d \in Entry \cup {None}, disk' = d, Admits(d), d # None => handle # None
  PROVE  IInv'
<1>1. PICK f \in [Requests -> Request] : f = req' /\ \A p \in Requests : f[p] = req[p] \/ Moves(req[p], f[p])
  BY OneMoves
<1>2. UNCHANGED <<watched, late>>
  BY DEF monitors
<1> QED
  BY <1>1, <1>2, TypesOfSession, Step

LEMMA EntryOfHandle ==
  ASSUME NEW h \in AgentHandle, Admits(h)
  PROVE  EntryOf(h) \in Entry /\ Admits(EntryOf(h)) /\ EntryOf(h) # None
<1>1. EntryOf(h) \in Entry
  BY DEF EntryOf, Entry, AgentHandle
<1>2. EntryOf(h) # None /\ h # None
  BY <1>1, NoneIsNoRecord
<1> QED
  BY <1>1, <1>2 DEF Admits, EntryOf

LEMMA StatusOfHandle ==
  ASSUME IInv, handle # None, NEW status \in AgentStatus, NEW pid \in 0 .. Len(ptys),
         NEW h \in {[handle EXCEPT !.status = status], [handle EXCEPT !.status = status, !.pid = pid]}
  PROVE  h \in AgentHandle /\ h # None /\ h.pid =< Len(ptys) /\ Admits(h)
<1>1. handle \in AgentHandle /\ handle.pid =< Len(ptys) /\ Admits(handle) /\ Len(ptys) \in Nat
  BY TypesOfSession
<1>2. h \in AgentHandle /\ h.conv = handle.conv /\ h.resum = handle.resum /\ h.pid \in {handle.pid, pid}
  <2>1. pid \in Nat
    BY <1>1
  <2>2. CASE h = [handle EXCEPT !.status = status]
    BY <1>1, <2>2 DEF AgentHandle
  <2>3. CASE h = [handle EXCEPT !.status = status, !.pid = pid]
    BY <1>1, <2>1, <2>3 DEF AgentHandle
  <2> QED
    BY <2>2, <2>3
<1>3. h # None
  BY <1>2, NoneIsNoRecord
<1> QED
  BY <1>1, <1>2, <1>3 DEF Admits

\* reconcile_statuses.
LEMMA ReconcileKeeps == ASSUME IInv, NEW r \in Requests, Reconcile(r) PROVE IInv'
<1>1. At(r, "reconcile") /\ UNCHANGED <<run, ptys, mapped, monitors, disk, overlapped, limit>>
  BY DEF Reconcile
<1>2. PICK h : /\ h = IF handle = None THEN None
                      ELSE [handle EXCEPT !.status = NextStatus(Alive(handle.pid), @)]
               /\ handle' = h
               /\ req' = [req EXCEPT ![r].todo = Tail(@), ![r].pty = IF Active(h) /\ LivePty THEN mapped ELSE 0]
  BY DEF Reconcile
<1>3. PICK pty \in {mapped, 0} : pty = IF Active(h) /\ LivePty THEN mapped ELSE 0
  OBVIOUS
<1>4. PICK o \in Request : o = req[r]
  BY <1>1, AtStep
<1>5. PICK q : q = [o EXCEPT !.todo = Tail(o.todo), !.pty = pty]
  OBVIOUS
<1>6. req' = [req EXCEPT ![r] = q]
  BY <1>2, <1>3, <1>4, <1>5
<1>7. q.todo = Tail(o.todo) /\ q.copy = o.copy /\ q.pty = pty
  BY <1>5 DEF Request
<1>8. pty \in Nat /\ pty =< Len(ptys)
  BY <1>3, TypesOfSession
<1>9. q \in Request
  BY <1>1, <1>4, <1>5, <1>8, AtStep DEF Request
<1>10. Moves(o, q)
  <2>1. Admits(q.copy) /\ (q.copy # None => handle # None)
    BY <1>1, <1>4, <1>7, AtStep DEF Fits, Meets
  <2>2. "reconcile" \in Easy
    BY DEF Easy
  <2> QED
    BY <1>1, <1>4, <1>7, <1>8, <2>1, <2>2, Moved
<1>11. /\ h \in AgentHandle \cup {None} /\ (h = None <=> handle = None)
       /\ h # None => h.pid =< Len(ptys) /\ Admits(h)
  <2>1. CASE handle = None
    BY <1>2, <2>1
  <2>2. CASE handle # None
    <3>1. NextStatus(Alive(handle.pid), handle.status) \in AgentStatus /\ 0 \in 0 .. Len(ptys)
      BY TypesOfSession DEF NextStatus, AgentStatus
    <3> QED
      BY <1>2, <2>2, <3>1, StatusOfHandle
  <2> QED
    BY <2>1, <2>2
<1> QED
  BY <1>1, <1>2, <1>4, <1>6, <1>9, <1>10, <1>11, TypesOfSession, Turn

\* The monitor of a PTY takes the place of the one there is.
LEMMA WatchKeeps == ASSUME IInv, NEW r \in Requests, Watch(r) PROVE IInv'
<1>1. PICK x \in {"watch", "attach"} : At(r, x)
  BY DEF Watch
<1>2. PICK o \in Request : o = req[r] /\ o.pty =< Len(ptys)
  BY <1>1, AtStep DEF Meets
<1>3. UNCHANGED <<run, handle, ptys, mapped, disk, overlapped, limit>>
  BY DEF Watch
<1>4. watched' \in 0 .. Len(ptys) /\ late' \in 0 .. MaxLate
  <2>1. watched' \in {watched, o.pty} /\ late' = late
    BY <1>2 DEF Watch, Listen, monitors
  <2>2. o.pty \in Nat
    BY DEF Request
  <2> QED
    BY <1>2, <2>1, <2>2, TypesOfSession
<1>5. PICK q : q = [Idle EXCEPT !.todo = Tail(o.todo)]
  OBVIOUS
<1>6. q.todo = Tail(o.todo) /\ q.copy = None /\ q.pty = 0 /\ req' = [req EXCEPT ![r] = q]
  BY <1>2, <1>5 DEF Watch, Idle
<1>7. q \in Request
  BY <1>1, <1>2, <1>5, AtStep DEF Request, Idle
<1>8. Moves(o, q)
  <2>1. x \in Easy
    BY DEF Easy
  <2>2. Admits(q.copy) /\ 0 =< Len(ptys)
    BY <1>6, TypesOfSession DEF Admits
  <2> QED
    BY <1>1, <1>2, <1>6, <2>1, <2>2, Moved
<1>9. PICK f \in [Requests -> Request] : f = req' /\ \A p \in Requests : f[p] = req[p] \/ Moves(req[p], f[p])
  BY <1>2, <1>6, <1>7, <1>8, OneMoves
<1> QED
  BY <1>3, <1>4, <1>9, TypesOfSession, Step

\* What list_sessions returns.
LEMMA CollectKeeps == ASSUME IInv, NEW r \in Requests, Collect(r) PROVE IInv'
<1>1. At(r, "collect") /\ UNCHANGED <<run, handle, ptys, mapped, monitors, disk, overlapped, limit>>
  BY DEF Collect
<1>2. PICK copy : copy = IF Active(handle) THEN EntryOf(handle) ELSE None
  OBVIOUS
<1>3. copy \in Entry \cup {None} /\ Admits(copy) /\ (copy # None => handle # None)
  <2>1. CASE Active(handle)
    <3>1. handle # None
      BY <2>1 DEF Active
    <3> QED
      BY <1>2, <2>1, <3>1, TypesOfSession, EntryOfHandle
  <2>2. CASE ~Active(handle)
    BY <1>2, <2>2 DEF Admits
  <2> QED
    BY <2>1, <2>2
<1>4. PICK o \in Request : o = req[r] /\ o.pty =< Len(ptys)
  BY <1>1, AtStep DEF Meets
<1>5. PICK q : q = [o EXCEPT !.todo = Tail(o.todo), !.copy = copy]
  OBVIOUS
<1>6. req' = [req EXCEPT ![r] = q]
  BY <1>2, <1>4, <1>5 DEF Collect
<1>7. q.todo = Tail(o.todo) /\ q.copy = copy /\ q.pty = o.pty
  BY <1>5 DEF Request
<1>8. q \in Request
  BY <1>1, <1>3, <1>4, <1>5, AtStep DEF Request
<1>9. "collect" \in Easy
  BY DEF Easy
<1>10. Moves(o, q)
  BY <1>1, <1>3, <1>4, <1>7, <1>9, Moved
<1> QED
  BY <1>1, <1>4, <1>6, <1>8, <1>10, TypesOfSession, Turn

\* Promoting a handle, or marking it, changes its status alone.
LEMMA Onwards ==
  ASSUME IInv, NEW r \in Requests, NEW x \in Easy, At(r, x), Onward(r)
  PROVE  \E q \in Request : req' = [req EXCEPT ![r] = q] /\ Moves(req[r], q)
<1>1. PICK o \in Request : o = req[r] /\ o.pty =< Len(ptys) /\ Admits(o.copy) /\ (o.copy # None => handle # None)
  BY AtStep DEF Fits, Meets
<1>2. PICK q : q = [o EXCEPT !.todo = Tail(o.todo)]
  OBVIOUS
<1>3. req' = [req EXCEPT ![r] = q]
  BY <1>1, <1>2 DEF Onward
<1>4. q.todo = Tail(o.todo) /\ q.copy = o.copy /\ q.pty = o.pty
  BY <1>2 DEF Request
<1>5. q \in Request
  BY <1>1, <1>2, AtStep DEF Request
<1>6. Moves(o, q)
  BY <1>1, <1>4, Moved
<1> QED
  BY <1>1, <1>3, <1>5, <1>6

LEMMA StatusKeeps ==
  ASSUME IInv, NEW r \in Requests, Promote(r) \/ PromoteOne(r) \/ Mark(r)
  PROVE  IInv'
<1>1. PICK x \in {"promote", "promoteOne", "mark"} : At(r, x) /\ (Onward(r) \/ Finish(r))
  BY DEF Promote, PromoteOne, Mark, Done
<1>2. UNCHANGED <<run, ptys, mapped, monitors, disk, overlapped, limit>>
  BY DEF Promote, PromoteOne, Mark
<1>3. PICK q \in Request : req' = [req EXCEPT ![r] = q] /\ Moves(req[r], q)
  <2>1. x \in Easy
    BY DEF Easy
  <2>2. CASE Finish(r)
    BY <2>2, Finished DEF Finish
  <2>3. CASE Onward(r)
    BY <1>1, <2>1, <2>3, Onwards
  <2> QED
    BY <1>1, <2>2, <2>3
<1>4. \/ handle' = handle
      \/ handle # None /\ handle' = [handle EXCEPT !.status = "Running"]
      \/ handle # None /\ handle' = [handle EXCEPT !.status = "Stopped"]
  BY DEF Promote, PromoteOne, Mark, Promotable
<1>5. PICK h \in AgentHandle \cup {None} :
         h = handle' /\ (h = None <=> handle = None) /\ (h # None => h.pid =< Len(ptys) /\ Admits(h))
  <2>1. "Running" \in AgentStatus /\ "Stopped" \in AgentStatus /\ 0 \in 0 .. Len(ptys)
    BY TypesOfSession DEF AgentStatus
  <2> QED
    BY <1>4, <2>1, TypesOfSession, StatusOfHandle
<1> QED
  BY <1>2, <1>3, <1>5, TypesOfSession, Turn

\* get_handle looks first: there is something to promote later, or not.
LEMMA PeekKeeps == ASSUME IInv, NEW r \in Requests, Peek(r) PROVE IInv'
<1>1. At(r, "peek") /\ UNCHANGED <<run, handle, ptys, mapped, monitors, disk, overlapped, limit>>
  BY DEF Peek
<1>2. PICK o \in Request : o = req[r] /\ o.pty =< Len(ptys) /\ Admits(o.copy) /\ (o.copy # None => handle # None)
  BY <1>1, AtStep DEF Fits, Meets
<1>3. PICK t, u : t = Tail(o.todo) /\ u = Tail(t)
  OBVIOUS
<1>4. /\ Program(t) /\ First(t) = "promoteOne" /\ t # << >>
      /\ Spawns(t) => Spawns(o.todo)
  <2>1. \A y : <<"peek", y>> \in Order => y = "promoteOne"
    BY DEF Order
  <2>2. "peek" \notin Final
    BY DEF Final
  <2>3. First(t) # "none"
    BY <1>1, <1>2, <1>3, <2>2, AtStep
  <2> QED
    BY <1>1, <1>2, <1>3, <2>1, <2>3, AtStep DEF First
<1>5. /\ Program(u) /\ First(u) \in {"reconcile", "readPid", "none"}
      /\ Spawns(u) => Spawns(o.todo)
  <2>1. \A y : <<"promoteOne", y>> \in Order => y \in {"reconcile", "readPid"}
    BY DEF Order
  <2> QED
    BY <1>3, <1>4, <2>1, TailOfProgram
<1>6. PICK v \in {t, u} : req' = [req EXCEPT ![r].todo = v]
  BY <1>2, <1>3 DEF Peek, Go
<1>7. PICK q : q = [o EXCEPT !.todo = v]
  OBVIOUS
<1>8. req' = [req EXCEPT ![r] = q] /\ q.todo = v /\ q.copy = o.copy /\ q.pty = o.pty
  BY <1>2, <1>6, <1>7 DEF Request
<1>9. Program(v) /\ First(v) \in {"promoteOne", "reconcile", "readPid", "none"} /\ (Spawns(v) => Spawns(o.todo))
  BY <1>4, <1>5
<1>10. q \in Request
  <2>1. v \in Seq(Steps)
    BY <1>9 DEF Program
  <2> QED
    BY <1>7, <2>1 DEF Request
<1>11. Moves(o, q)
  BY <1>2, <1>8, <1>9 DEF Moves, Fits, Holders, Resumers, Refreshers, Creators
<1> QED
  BY <1>1, <1>2, <1>8, <1>10, <1>11, TypesOfSession, Turn

\* The entry is what the listing returned.
LEMMA SaveKeeps == ASSUME IInv, NEW r \in Requests, Save(r) PROVE IInv'
<1>1. At(r, "save") /\ UNCHANGED <<run, handle, ptys, mapped, monitors, overlapped, limit>>
  BY DEF Save
<1>2. PICK copy \in Entry \cup {None} : copy = req[r].copy /\ Admits(copy) /\ (copy # None => handle # None)
  BY <1>1, AtStep DEF Request, Fits, Meets
<1>3. disk' = copy /\ req' = [req EXCEPT ![r] = Idle]
  BY <1>2 DEF Save, Finish
<1> QED
  BY <1>1, <1>2, <1>3, TypesOfSession, Finished, Turn

LEMMA ReadPidKeeps == ASSUME IInv, NEW r \in Requests, ReadPid(r) PROVE IInv'
<1>1. At(r, "readPid") /\ UNCHANGED <<run, handle, ptys, mapped, monitors, disk, overlapped, limit>>
  BY DEF ReadPid
<1>2. PICK pid \in Nat : pid = (IF handle = None THEN 0 ELSE handle.pid) /\ pid =< Len(ptys)
  BY TypesOfSession DEF AgentHandle
<1>3. PICK o \in Request : o = req[r] /\ Admits(o.copy) /\ (o.copy # None => handle # None)
  BY <1>1, AtStep DEF Fits, Meets
<1>4. PICK q : q = [o EXCEPT !.todo = Tail(o.todo), !.pty = pid]
  OBVIOUS
<1>5. req' = [req EXCEPT ![r] = q]
  BY <1>2, <1>3, <1>4 DEF ReadPid
<1>6. q.todo = Tail(o.todo) /\ q.copy = o.copy /\ q.pty = pid
  BY <1>4 DEF Request
<1>7. q \in Request
  BY <1>1, <1>2, <1>3, <1>4, AtStep DEF Request
<1>8. "readPid" \in Easy
  BY DEF Easy
<1>9. Moves(o, q)
  BY <1>1, <1>2, <1>3, <1>6, <1>8, Moved
<1> QED
  BY <1>1, <1>3, <1>5, <1>7, <1>9, TypesOfSession, Turn

LEMMA RegainKeeps == ASSUME IInv, NEW r \in Requests, Regain(r) PROVE IInv'
<1>1. At(r, "regain") /\ UNCHANGED <<run, handle, ptys, mapped, monitors, disk, overlapped, limit>>
  BY DEF Regain
<1>2. PICK o \in Request : o = req[r] /\ Admits(o.copy) /\ (o.copy # None => handle # None)
  BY <1>1, AtStep DEF Fits, Meets
<1>3. CASE mapped = 0
  <2>1. req' = [req EXCEPT ![r] = Idle]
    BY <1>3 DEF Regain, Finish
  <2> QED
    BY <1>1, <2>1, TypesOfSession, Finished, Turn
<1>4. CASE mapped # 0
  <2>1. PICK q : q = [o EXCEPT !.todo = Tail(o.todo), !.pty = mapped]
    OBVIOUS
  <2>2. req' = [req EXCEPT ![r] = q]
    BY <1>2, <1>4, <2>1 DEF Regain
  <2>3. q.todo = Tail(o.todo) /\ q.copy = o.copy /\ q.pty = mapped
    BY <2>1 DEF Request
  <2>4. mapped \in Nat /\ mapped =< Len(ptys)
    BY TypesOfSession
  <2>5. q \in Request
    BY <1>1, <1>2, <2>1, <2>4, AtStep DEF Request
  <2>6. "regain" \in Easy
    BY DEF Easy
  <2>7. Moves(o, q)
    BY <1>1, <1>2, <2>3, <2>4, <2>6, Moved
  <2> QED
    BY <1>1, <1>2, <2>2, <2>5, <2>7, TypesOfSession, Turn
<1> QED
  BY <1>3, <1>4

\* The entry is read, and whether a handle is in its way is looked up later.
LEMMA ReadDiskKeeps == ASSUME IInv, NEW r \in Requests, ReadDisk(r) PROVE IInv'
<1>1. At(r, "readDisk") /\ UNCHANGED <<run, handle, ptys, mapped, monitors, disk, overlapped, limit>>
  BY DEF ReadDisk
<1>2. PICK o \in Request : o = req[r] /\ o.pty =< Len(ptys) /\ Admits(o.copy) /\ (o.copy # None => handle # None)
  BY <1>1, AtStep DEF Fits, Meets
<1>3. CASE disk = None
  <2>1. PICK q : q = [o EXCEPT !.todo = Listing]
    OBVIOUS
  <2>2. req' = [req EXCEPT ![r] = q] /\ q.todo = Listing /\ q.copy = o.copy /\ q.pty = o.pty
    BY <1>2, <1>3, <2>1 DEF ReadDisk, Request
  <2>3. Program(Listing) /\ First(Listing) = "reconcile" /\ ~Spawns(Listing) /\ Listing \in Seq(Steps)
    BY ListingIsProgram, QuietSpawnsNot DEF Program
  <2>4. q \in Request
    BY <2>1, <2>3 DEF Request
  <2>5. Moves(o, q)
    BY <1>2, <2>2, <2>3 DEF Moves, Fits, Holders, Resumers, Refreshers, Creators
  <2> QED
    BY <1>1, <1>2, <2>2, <2>4, <2>5, TypesOfSession, Turn
<1>4. CASE disk # None
  <2>1. PICK q : q = [o EXCEPT !.todo = Tail(o.todo), !.copy = disk]
    OBVIOUS
  <2>2. req' = [req EXCEPT ![r] = q] /\ q.todo = Tail(o.todo) /\ q.copy = disk /\ q.pty = o.pty
    BY <1>2, <1>4, <2>1 DEF ReadDisk, Request
  <2>3. disk \in Entry /\ Admits(disk) /\ handle # None
    BY <1>4, TypesOfSession
  <2>4. q \in Request
    BY <1>1, <1>2, <2>1, <2>3, AtStep DEF Request
  <2>5. \A y : <<"readDisk", y>> \in Order => y = "check"
    BY DEF Order
  <2>6. Program(q.todo) /\ First(q.todo) \in {"check", "none"} /\ (Spawns(q.todo) => Spawns(o.todo))
    BY <1>1, <1>2, <2>2, <2>5, AtStep
  <2>7. Moves(o, q)
    BY <1>2, <1>4, <2>2, <2>3, <2>6 DEF Moves, Fits, Holders, Resumers, Refreshers, Creators
  <2> QED
    BY <1>1, <1>2, <2>2, <2>4, <2>7, TypesOfSession, Turn
<1> QED
  BY <1>3, <1>4

LEMMA CheckKeeps == ASSUME IInv, NEW r \in Requests, Check(r) PROVE IInv'
<1>1. At(r, "check") /\ UNCHANGED <<run, handle, ptys, mapped, monitors, disk, overlapped, limit>>
  BY DEF Check
<1>2. PICK o \in Request : /\ o = req[r] /\ o.pty =< Len(ptys) /\ Admits(o.copy)
                           /\ o.copy # None /\ handle # None
  BY <1>1, AtStep DEF Fits, Meets, Holders
<1>3. CASE Active(handle)
  <2>1. PICK q : q = [Idle EXCEPT !.todo = Listing]
    OBVIOUS
  <2>2. req' = [req EXCEPT ![r] = q] /\ q.todo = Listing /\ q.copy = None /\ q.pty = 0
    BY <1>3, <2>1 DEF Check, Idle
  <2>3. Program(Listing) /\ First(Listing) = "reconcile" /\ ~Spawns(Listing) /\ Listing \in Seq(Steps)
    BY ListingIsProgram, QuietSpawnsNot DEF Program
  <2>4. q \in Request
    BY <2>1, <2>3 DEF Request, Idle
  <2>5. Admits(None) /\ 0 =< Len(ptys)
    BY TypesOfSession DEF Admits
  <2>6. Moves(o, q)
    BY <1>2, <2>2, <2>3, <2>5 DEF Moves, Fits, Holders, Resumers, Refreshers, Creators
  <2> QED
    BY <1>1, <1>2, <2>2, <2>4, <2>6, TypesOfSession, Turn
<1>4. CASE ~Active(handle)
  <2>1. PICK q : q = [o EXCEPT !.todo = Tail(o.todo)]
    OBVIOUS
  <2>2. req' = [req EXCEPT ![r] = q] /\ q.todo = Tail(o.todo) /\ q.copy = o.copy /\ q.pty = o.pty
    BY <1>2, <1>4, <2>1 DEF Check, Request
  <2>3. q \in Request
    BY <1>1, <1>2, <2>1, AtStep DEF Request
  <2>4. \A y : <<"check", y>> \in Order => y = "hydrate"
    BY DEF Order
  <2>5. Program(q.todo) /\ First(q.todo) \in {"hydrate", "none"} /\ (Spawns(q.todo) => Spawns(o.todo))
    BY <1>1, <1>2, <2>2, <2>4, AtStep
  <2>6. Moves(o, q)
    BY <1>2, <2>2, <2>5 DEF Moves, Fits, Holders, Resumers, Refreshers, Creators
  <2> QED
    BY <1>1, <1>2, <2>2, <2>3, <2>6, TypesOfSession, Turn
<1> QED
  BY <1>3, <1>4

\* The handle of a saved session.
LEMMA HydrateKeeps == ASSUME IInv, NEW r \in Requests, Hydrate(r) PROVE IInv'
<1>1. At(r, "hydrate") /\ UNCHANGED <<run, ptys, mapped, monitors, disk, overlapped, limit>>
  BY DEF Hydrate
<1>2. PICK o \in Request : /\ o = req[r] /\ o.pty =< Len(ptys) /\ Admits(o.copy)
                           /\ o.copy # None /\ handle # None
  BY <1>1, AtStep DEF Fits, Meets, Holders
<1>3. PICK copy \in Entry : copy = o.copy
  BY <1>2 DEF Request
<1>4. PICK q : q = [o EXCEPT !.todo = Tail(o.todo), !.copy = None]
  OBVIOUS
<1>5. req' = [req EXCEPT ![r] = q] /\ q.todo = Tail(o.todo) /\ q.copy = None /\ q.pty = o.pty
  BY <1>2, <1>4 DEF Hydrate, Request
<1>6. q \in Request
  BY <1>1, <1>2, <1>4, AtStep DEF Request
<1>7. "hydrate" \in Easy /\ Admits(None)
  BY DEF Easy, Admits
<1>8. Moves(o, q)
  BY <1>1, <1>2, <1>5, <1>7, Moved
<1>9. PICK h : h = Hydrated(copy) /\ handle' = h
  BY <1>2, <1>3 DEF Hydrate
<1>10. h \in AgentHandle /\ h.pid = 0 /\ h.conv = copy.conv /\ h.resum = copy.resum
  BY <1>9 DEF Hydrated, AgentHandle, Entry, AgentStatus
<1>11. h # None /\ h.pid =< Len(ptys) /\ Admits(h)
  <2>1. h # None
    BY <1>10, NoneIsNoRecord
  <2> QED
    BY <1>2, <1>3, <1>10, <2>1, TypesOfSession DEF Admits
<1> QED
  BY <1>1, <1>2, <1>5, <1>6, <1>8, <1>9, <1>10, <1>11, TypesOfSession, Turn

\* ensure_pty_attached takes a copy of the handle.
LEMMA ReadHandleKeeps == ASSUME IInv, NEW r \in Requests, ReadHandle(r) PROVE IInv'
<1>1. At(r, "readHandle") /\ UNCHANGED <<run, handle, ptys, mapped, monitors, disk, overlapped, limit>>
  BY DEF ReadHandle
<1>2. PICK o \in Request : o = req[r]
  BY <1>1, AtStep
<1>3. CASE handle = None
  <2>1. req' = [req EXCEPT ![r] = Idle]
    BY <1>3 DEF ReadHandle, Finish
  <2> QED
    BY <1>1, <2>1, TypesOfSession, Finished, Turn
<1>4. CASE handle # None
  <2>1. PICK copy \in Entry : copy = EntryOf(handle) /\ Admits(copy) /\ copy # None
    BY <1>4, TypesOfSession, EntryOfHandle
  <2>2. PICK pid \in Nat : pid = handle.pid /\ pid =< Len(ptys)
    BY <1>4, TypesOfSession DEF AgentHandle
  <2>3. PICK q : q = [o EXCEPT !.todo = Tail(o.todo), !.copy = copy, !.pty = pid]
    OBVIOUS
  <2>4. req' = [req EXCEPT ![r] = q]
    BY <1>2, <1>4, <2>1, <2>2, <2>3 DEF ReadHandle
  <2>5. q.todo = Tail(o.todo) /\ q.copy = copy /\ q.pty = pid
    BY <2>3 DEF Request
  <2>6. q \in Request
    BY <1>1, <1>2, <2>1, <2>2, <2>3, AtStep DEF Request
  <2>7. \A y : <<"readHandle", y>> \in Order => y = "look"
    BY DEF Order
  <2>8. Program(q.todo) /\ First(q.todo) \in {"look", "none"} /\ (Spawns(q.todo) => Spawns(o.todo))
    BY <1>1, <1>2, <2>5, <2>7, AtStep
  <2>9. Moves(o, q)
    BY <1>4, <2>1, <2>2, <2>5, <2>8 DEF Moves, Fits, Holders, Resumers, Refreshers, Creators
  <2> QED
    BY <1>1, <1>2, <2>4, <2>6, <2>9, TypesOfSession, Turn
<1> QED
  BY <1>3, <1>4

\* It returns the PTY that runs; only when there is none a process is spawned.
LEMMA LookKeeps == ASSUME IInv, NEW r \in Requests, Look(r) PROVE IInv'
<1>1. At(r, "look") /\ UNCHANGED <<run, handle, ptys, mapped, monitors, disk, overlapped, limit>>
  BY DEF Look
<1>2. PICK o \in Request : /\ o = req[r] /\ o.pty =< Len(ptys) /\ Admits(o.copy)
                           /\ o.copy # None /\ handle # None /\ Spawns(o.todo)
  <2>1. "look" \in Holders /\ "look" \in Spawners
    BY DEF Holders, Spawners
  <2>2. Spawns(req[r].todo)
    <3>1. Program(req[r].todo) /\ req[r].todo # << >> /\ req[r].todo[1] = "look"
      BY <1>1, AtStep DEF Fits, First, At
    <3>2. 1 \in 1 .. Len(req[r].todo)
      BY <3>1, LenProperties, EmptySeq DEF Program
    <3> QED
      BY <2>1, <3>1, <3>2 DEF Spawns
  <2> QED
    BY <1>1, <2>1, <2>2, AtStep DEF Fits, Meets
<1>3. Admits(None) /\ 0 =< Len(ptys) /\ mapped \in Nat /\ mapped =< Len(ptys)
  BY TypesOfSession DEF Admits
<1>4. CASE LivePty
  <2>1. PICK q : q = [Idle EXCEPT !.todo = <<"attach">>, !.pty = mapped]
    OBVIOUS
  <2>2. req' = [req EXCEPT ![r] = q] /\ q.todo = <<"attach">> /\ q.copy = None /\ q.pty = mapped
    BY <1>4, <2>1 DEF Look, Idle
  <2>3. q \in Request
    <3>1. <<"attach">> \in Seq(Steps)
      BY ResumingIsProgram DEF Program
    <3> QED
      BY <1>3, <2>1, <3>1 DEF Request, Idle
  <2>4. Moves(o, q)
    BY <1>2, <1>3, <2>2, ResumingIsProgram DEF Moves, Fits, Holders, Resumers, Refreshers, Creators
  <2> QED
    BY <1>1, <1>2, <2>2, <2>3, <2>4, TypesOfSession, Turn
<1>5. CASE ~LivePty /\ o.copy.resum = "Unresumable"
  <2>1. PICK q : q = [Idle EXCEPT !.todo = Refreshing]
    OBVIOUS
  <2>2. req' = [req EXCEPT ![r] = q] /\ q.todo = Refreshing /\ q.copy = None /\ q.pty = 0
    BY <1>2, <1>5, <2>1 DEF Look, Idle
  <2>3. q \in Request
    BY <2>1, ResumingIsProgram DEF Request, Idle, Program
  <2>4. Moves(o, q)
    BY <1>2, <1>3, <1>5, <2>2, ResumingIsProgram DEF Moves, Fits, Holders, Resumers, Refreshers, Creators
  <2> QED
    BY <1>1, <1>2, <2>2, <2>3, <2>4, TypesOfSession, Turn
<1>6. CASE ~LivePty /\ o.copy.resum # "Unresumable"
  <2>1. o.copy.resum = "Resumable"
    BY <1>2, <1>6 DEF Request, Entry, Resumability
  <2>2. PICK q : q = [o EXCEPT !.todo = Resuming]
    OBVIOUS
  <2>3. req' = [req EXCEPT ![r] = q] /\ q.todo = Resuming /\ q.copy = o.copy /\ q.pty = o.pty
    BY <1>2, <1>6, <2>2 DEF Look, Go, Request
  <2>4. q \in Request
    BY <2>2, ResumingIsProgram DEF Request, Program
  <2>5. Moves(o, q)
    BY <1>2, <1>6, <2>1, <2>3, ResumingIsProgram DEF Moves, Fits, Holders, Resumers, Refreshers, Creators
  <2> QED
    BY <1>1, <1>2, <2>3, <2>4, <2>5, TypesOfSession, Turn
<1> QED
  BY <1>4, <1>5, <1>6

\* The handle of the PTY that was spawned to resume the conversation.
LEMMA InsertKeeps == ASSUME IInv, NEW r \in Requests, Insert(r) PROVE IInv'
<1>1. At(r, "insert") /\ UNCHANGED <<run, ptys, mapped, monitors, disk, overlapped, limit>>
  BY DEF Insert
<1>2. PICK o \in Request : /\ o = req[r] /\ o.pty =< Len(ptys) /\ Admits(o.copy)
                           /\ o.copy # None /\ handle # None /\ o.copy.resum = "Resumable"
  BY <1>1, AtStep DEF Fits, Meets, Holders, Resumers
<1>3. PICK q : q = [o EXCEPT !.todo = Tail(o.todo), !.copy = None, !.fresh = FALSE]
  OBVIOUS
<1>4. req' = [req EXCEPT ![r] = q] /\ q.todo = Tail(o.todo) /\ q.copy = None /\ q.pty = o.pty
  BY <1>2, <1>3 DEF Insert, Request
<1>5. q \in Request
  BY <1>1, <1>2, <1>3, AtStep DEF Request
<1>6. "insert" \in Easy /\ Admits(None)
  BY DEF Easy, Admits
<1>7. Moves(o, q)
  BY <1>1, <1>2, <1>4, <1>6, Moved
<1>8. PICK conv \in Conversations, resum \in Resumability :
         /\ conv = IF o.fresh THEN "later" ELSE o.copy.conv
         /\ resum = IF o.fresh THEN "Unresumable" ELSE "Resumable"
  BY <1>2 DEF Request, Entry, Conversations, Resumability
<1>9. PICK h : h = [status |-> "Restored", pid |-> o.pty, conv |-> conv, resum |-> resum] /\ handle' = h
  BY <1>2, <1>8 DEF Insert
<1>10. h \in AgentHandle /\ h.pid = o.pty /\ h.conv = conv /\ h.resum = resum
  BY <1>9 DEF AgentHandle, AgentStatus, Request
<1>11. h # None /\ Admits(h)
  <2>1. h # None
    BY <1>10, NoneIsNoRecord
  <2>2. conv = "later" => resum = "Unresumable"
    BY <1>2, <1>8 DEF Admits
  <2> QED
    BY <1>10, <2>1, <2>2 DEF Admits
<1> QED
  BY <1>1, <1>2, <1>4, <1>5, <1>7, <1>9, <1>10, <1>11, TypesOfSession, Turn

LEMMA FreshUpdateKeeps == ASSUME IInv, NEW r \in Requests, FreshUpdate(r) PROVE IInv'
<1>1. /\ At(r, "freshUpdate") /\ Onward(r)
      /\ UNCHANGED <<run, ptys, mapped, monitors, disk, overlapped, limit>>
  BY DEF FreshUpdate
<1>2. PICK o \in Request : o = req[r] /\ o.pty =< Len(ptys) /\ handle # None
  BY <1>1, AtStep DEF Meets, Refreshers
<1>3. PICK q \in Request : req' = [req EXCEPT ![r] = q] /\ Moves(req[r], q)
  <2>1. "freshUpdate" \in Easy
    BY DEF Easy
  <2> QED
    BY <1>1, <2>1, Onwards
<1>4. PICK h : h = [status |-> "Running", pid |-> o.pty, conv |-> "later", resum |-> "Unresumable"] /\ handle' = h
  BY <1>2 DEF FreshUpdate
<1>5. h \in AgentHandle /\ h.pid = o.pty /\ Admits(h)
  BY <1>4 DEF AgentHandle, AgentStatus, Conversations, Resumability, Request, Admits
<1>6. h # None
  BY <1>5, NoneIsNoRecord
<1> QED
  BY <1>1, <1>2, <1>3, <1>4, <1>5, <1>6, TypesOfSession, Turn

-----------------------------------------------------------------------------
(***************************************************************************)
(* Processes.                                                              *)
(***************************************************************************)
LEMMA OnePty ==
  ASSUME IInv, NEW n \in 1 .. Len(ptys), NEW p \in Pty, ptys[n].stopped => p.stopped,
         NEW ps, ps = [ptys EXCEPT ![n] = p]
  PROVE  /\ ps \in Seq(Pty) /\ Len(ps) = Len(ptys)
         /\ \A k \in 1 .. Len(ptys) : ptys[k].stopped => ps[k].stopped
<1>1. /\ ps \in Seq(Pty) /\ Len(ps) = Len(ptys)
      /\ \A k \in 1 .. Len(ptys) : ps[k] = IF k = n THEN p ELSE ptys[k]
  BY TypesOfSession, ExceptSeq
<1> QED
  BY <1>1

LEMMA PtyExits ==
  ASSUME NEW p \in Pty
  PROVE  /\ Exited(p) \in Pty /\ (Exited(p).stopped <=> p.stopped)
         /\ [Exited(p) EXCEPT !.stopped = TRUE] \in Pty /\ [Exited(p) EXCEPT !.stopped = TRUE].stopped
         /\ [p EXCEPT !.stopped = TRUE] \in Pty /\ [p EXCEPT !.stopped = TRUE].stopped
         /\ [p EXCEPT !.child = "reaped"] \in Pty
         /\ [p EXCEPT !.child = "reaped"].stopped = p.stopped
  BY DEF Pty, Exited

LEMMA Announced ==
  ASSUME IInv, NEW n, Announce(n)
  PROVE  watched' \in 0 .. Len(ptys) /\ late' \in 0 .. MaxLate
<1>1. OneMore(late) \in 0 .. MaxLate
  BY TypesOfSession, AgentSessionAssumption DEF OneMore
<1> QED
  BY <1>1, TypesOfSession DEF Announce, monitors

\* stop_session ends its monitor.
LEMMA UnmonitorKeeps == ASSUME IInv, NEW r \in Requests, Unmonitor(r) PROVE IInv'
<1>1. At(r, "unmonitor") /\ Onward(r) /\ Listen(0)
      /\ UNCHANGED <<run, handle, ptys, mapped, disk, overlapped, limit>>
  BY DEF Unmonitor
<1>2. watched' \in 0 .. Len(ptys) /\ late' \in 0 .. MaxLate
  BY <1>1, TypesOfSession DEF Listen
<1>3. PICK q \in Request : req' = [req EXCEPT ![r] = q] /\ Moves(req[r], q)
  <2>1. "unmonitor" \in Easy
    BY DEF Easy
  <2> QED
    BY <1>1, <2>1, Onwards
<1>4. PICK f \in [Requests -> Request] : f = req' /\ \A p \in Requests : f[p] = req[p] \/ Moves(req[p], f[p])
  BY <1>3, OneMoves
<1> QED
  BY <1>1, <1>2, <1>4, TypesOfSession, Step

\* PtySession::kill of the PTY in the map.
LEMMA KillMappedKeeps == ASSUME IInv, NEW r \in Requests, KillMapped(r) PROVE IInv'
<1>1. PICK x \in {"kill", "freshKill"} : At(r, x)
  BY DEF KillMapped
<1>2. Onward(r) /\ UNCHANGED <<run, handle, mapped, disk, overlapped, limit>>
  BY DEF KillMapped
<1>3. PICK q \in Request : req' = [req EXCEPT ![r] = q] /\ Moves(req[r], q)
  <2>1. CASE x = "kill"
    <3>1. "kill" \in Easy
      BY DEF Easy
    <3> QED
      BY <1>1, <1>2, <2>1, <3>1, Onwards
  <2>2. CASE x = "freshKill"
    <3>1. PICK o \in Request : /\ o = req[r] /\ o.pty =< Len(ptys) /\ Admits(o.copy)
                               /\ handle # None /\ (~overlapped => ~LivePty)
      BY <1>1, <2>2, AtStep DEF Fits, Meets, Refreshers, Creators
    <3>2. PICK q : q = [o EXCEPT !.todo = Tail(o.todo)]
      OBVIOUS
    <3>3. req' = [req EXCEPT ![r] = q] /\ q.todo = Tail(o.todo) /\ q.copy = o.copy /\ q.pty = o.pty
      BY <1>2, <3>1, <3>2 DEF Onward, Request
    <3>4. q \in Request
      BY <1>1, <3>1, <3>2, AtStep DEF Request
    <3>5. \A y : <<"freshKill", y>> \in Order => y = "freshRemove"
      BY DEF Order
    <3>6. Program(q.todo) /\ First(q.todo) \in {"freshRemove", "none"} /\ (Spawns(q.todo) => Spawns(o.todo))
      BY <1>1, <2>2, <3>1, <3>3, <3>5, AtStep
    <3>7. Moves(o, q)
      BY <3>1, <3>3, <3>6 DEF Moves, Fits, Holders, Resumers, Refreshers, Creators
    <3> QED
      BY <3>1, <3>3, <3>4, <3>7
  <2> QED
    BY <2>1, <2>2
<1>4. PICK f \in [Requests -> Request] : f = req' /\ \A p \in Requests : f[p] = req[p] \/ Moves(req[p], f[p])
  BY <1>3, OneMoves
<1>5. PICK ps \in Seq(Pty) : /\ ps = ptys' /\ Len(ps) = Len(ptys)
                             /\ \A k \in 1 .. Len(ptys) : ptys[k].stopped => ps[k].stopped
  <2>1. CASE LivePty
    <3>1. mapped \in 1 .. Len(ptys)
      BY <2>1, TypesOfSession DEF LivePty
    <3>2. PICK p \in Pty : p = [Exited(ptys[mapped]) EXCEPT !.stopped = TRUE] /\ p.stopped
      BY <3>1, PtyExits, TypesOfSession
    <3>3. ptys' = [ptys EXCEPT ![mapped] = p]
      BY <2>1, <3>2 DEF KillMapped
    <3> QED
      BY <3>1, <3>2, <3>3, OnePty
  <2>2. CASE ~LivePty
    BY <2>2, TypesOfSession DEF KillMapped
  <2> QED
    BY <2>1, <2>2
<1>6. watched' \in 0 .. Len(ptys) /\ late' \in 0 .. MaxLate
  BY Announced, TypesOfSession DEF KillMapped, monitors
<1> QED
  BY <1>2, <1>4, <1>5, <1>6, TypesOfSession, Step

\* terminate_process of a pid that was read before.
LEMMA TerminateKeeps == ASSUME IInv, NEW r \in Requests, Terminate(r) PROVE IInv'
<1>1. PICK x \in {"terminate", "killStale"} : At(r, x)
  BY DEF Terminate
<1>2. UNCHANGED <<run, handle, mapped, monitors, disk, overlapped, limit>>
  BY DEF Terminate
<1>3. PICK o \in Request : /\ o = req[r] /\ o.pty \in Nat /\ o.pty =< Len(ptys) /\ Admits(o.copy)
                           /\ o.copy # None => handle # None
  BY <1>1, AtStep DEF Fits, Meets, Request
<1>4. PICK q : q = [o EXCEPT !.todo = Tail(o.todo), !.pty = 0]
  OBVIOUS
<1>5. req' = [req EXCEPT ![r] = q] /\ q.todo = Tail(o.todo) /\ q.copy = o.copy /\ q.pty = 0
  BY <1>3, <1>4 DEF Terminate, Request
<1>6. q \in Request /\ 0 =< Len(ptys)
  <2>1. 0 =< Len(ptys)
    BY TypesOfSession
  <2>2. q \in Request
    BY <1>1, <1>3, <1>4, AtStep DEF Request
  <2> QED
    BY <2>1, <2>2
<1>7. Moves(o, q)
  <2>1. CASE x = "terminate"
    <3>1. "terminate" \in Easy
      BY DEF Easy
    <3> QED
      BY <1>1, <1>3, <1>5, <1>6, <2>1, <3>1, Moved
  <2>2. CASE x = "killStale"
    <3>1. o.copy # None /\ o.copy.resum = "Resumable" /\ (~overlapped => ~LivePty)
      BY <1>1, <1>3, <2>2, AtStep DEF Fits, Meets, Holders, Resumers, Creators
    <3>2. \A y : <<"killStale", y>> \in Order => y = "resume"
      BY DEF Order
    <3>3. Program(q.todo) /\ First(q.todo) \in {"resume", "none"} /\ (Spawns(q.todo) => Spawns(o.todo))
      BY <1>1, <1>3, <1>5, <2>2, <3>2, AtStep
    <3> QED
      BY <1>3, <1>5, <1>6, <3>1, <3>3 DEF Moves, Fits, Holders, Resumers, Refreshers, Creators
  <2> QED
    BY <2>1, <2>2
<1>8. PICK f \in [Requests -> Request] : f = req' /\ \A p \in Requests : f[p] = req[p] \/ Moves(req[p], f[p])
  BY <1>3, <1>5, <1>6, <1>7, OneMoves
<1>9. PICK ps \in Seq(Pty) : /\ ps = ptys' /\ Len(ps) = Len(ptys)
                             /\ \A k \in 1 .. Len(ptys) : ptys[k].stopped => ps[k].stopped
  <2>1. CASE o.pty = 0
    BY <1>3, <2>1, TypesOfSession DEF Terminate
  <2>2. CASE o.pty # 0
    <3>1. o.pty \in 1 .. Len(ptys)
      BY <1>3, <2>2, TypesOfSession
    <3>2. PICK p \in Pty : p = Exited(ptys[o.pty]) /\ (p.stopped <=> ptys[o.pty].stopped)
      BY <3>1, PtyExits, TypesOfSession
    <3>3. ptys' = [ptys EXCEPT ![o.pty] = p]
      BY <1>3, <2>2, <3>2 DEF Terminate
    <3> QED
      BY <3>1, <3>2, <3>3, OnePty
  <2> QED
    BY <2>1, <2>2
<1>10. UNCHANGED <<watched, late>>
  BY <1>2 DEF monitors
<1> QED
  BY <1>2, <1>8, <1>9, <1>10, TypesOfSession, Step

LEMMA FreshRemoveKeeps == ASSUME IInv, NEW r \in Requests, FreshRemove(r) PROVE IInv'
<1>1. /\ At(r, "freshRemove") /\ mapped' = 0 /\ Onward(r)
      /\ UNCHANGED <<run, handle, ptys, monitors, disk, overlapped, limit>>
  BY DEF FreshRemove
<1>2. PICK o \in Request : /\ o = req[r] /\ o.pty =< Len(ptys) /\ Admits(o.copy)
                           /\ handle # None /\ (~overlapped => ~LivePty)
  BY <1>1, AtStep DEF Fits, Meets, Refreshers, Creators
<1>3. PICK q : q = [o EXCEPT !.todo = Tail(o.todo)]
  OBVIOUS
<1>4. req' = [req EXCEPT ![r] = q] /\ q.todo = Tail(o.todo) /\ q.copy = o.copy /\ q.pty = o.pty
  BY <1>1, <1>2, <1>3 DEF Onward, Request
<1>5. q \in Request
  BY <1>1, <1>2, <1>3, AtStep DEF Request
<1>6. \A y : <<"freshRemove", y>> \in Order => y = "freshSpawn"
  BY DEF Order
<1>7. Program(q.todo) /\ First(q.todo) \in {"freshSpawn", "none"} /\ (Spawns(q.todo) => Spawns(o.todo))
  BY <1>1, <1>2, <1>4, <1>6, AtStep
<1>8. Moves(o, q)
  BY <1>2, <1>4, <1>7 DEF Moves, Fits, Holders, Resumers, Refreshers, Creators
<1>9. PICK f \in [Requests -> Request] : f = req' /\ \A p \in Requests : f[p] = req[p] \/ Moves(req[p], f[p])
  BY <1>2, <1>4, <1>5, <1>8, OneMoves
<1>10. UNCHANGED <<watched, late>>
  BY <1>1 DEF monitors
<1> QED
  BY <1>1, <1>2, <1>9, <1>10, TypesOfSession, Step

LEMMA FirstSpawns ==
  ASSUME NEW s, Program(s), First(s) \in Spawners
  PROVE  Spawns(s)
<1>1. s # << >>
  BY DEF First, Spawners
<1>2. 1 \in 1 .. Len(s)
  BY <1>1, LenProperties, EmptySeq DEF Program
<1> QED
  BY <1>1, <1>2 DEF Spawns, First

\* A PTY is spawned by the one request that may, unless two overlapped.
LEMMA Spawning ==
  ASSUME IInv, NEW r \in Requests, Create, UNCHANGED <<run, monitors, disk, overlapped, limit>>,
         First(req[r].todo) \in Creators \cup {"spawn"},
         NEW q \in Request, req' = [req EXCEPT ![r] = q], Fits(q), q.pty = Len(ptys) + 1,
         q.copy # None \/ First(q.todo) \in Refreshers => handle # None,
         First(q.todo) \in {"attach", "insert", "freshUpdate", "none"},
         Spawns(q.todo) => Spawns(req[r].todo),
         NEW h \in AgentHandle \cup {None}, handle' = h, handle # None => h # None,
         h # None => h.pid =< Len(ptys) + 1 /\ Admits(h)
  PROVE  IInv'
<1>1. PICK n \in Nat : n = Len(ptys) /\ DOMAIN ptys = 1 .. n
  BY TypesOfSession
<1>2. PICK ps : ps = ptys'
  OBVIOUS
<1>3. limit \in Limits /\ n + 1 =< limit.ptys /\ run \in Nat /\ limit.ptys \in Nat
  BY <1>1, AgentSessionAssumption DEF Create, IInv, TypeOK
<1>4. Spawned \in Pty /\ Spawned.stopped = FALSE
  BY <1>3 DEF Spawned, Pty
<1>5. /\ ps \in Seq(Pty) /\ Len(ps) = n + 1 /\ mapped' = n + 1
      /\ \A k \in 1 .. n : ps[k] = ptys[k]
  BY <1>1, <1>2, <1>4, TypesOfSession, AppendProperties DEF Create
<1>6. DOMAIN ps = 1 .. n + 1
  BY <1>5, LenProperties
<1>7. UNCHANGED <<watched, late>>
  BY DEF monitors
<1>8. TypeOK'
  <2>1. req' \in [Requests -> Request]
    BY TypesOfSession
  <2>2. watched \in 0 .. n + 1 /\ mapped' \in 0 .. n + 1
    BY <1>1, <1>5, TypesOfSession
  <2> QED
    BY <1>2, <1>3, <1>5, <1>7, <2>1, <2>2 DEF IInv, TypeOK
<1>9. First(req[r].todo) = "spawn" => handle = None /\ ptys = << >>
  BY DEF IInv, Meets
<1>10. \A p \in Requests : First(req[p].todo) \in Creators => handle # None
  <2>1. ASSUME NEW p \in Requests, First(req[p].todo) \in Creators PROVE handle # None
    <3>1. CASE First(req[p].todo) \in Refreshers
      BY <3>1 DEF IInv, Meets
    <3>2. CASE First(req[p].todo) \in Holders
      BY <3>2 DEF IInv, Meets, Fits
    <3> QED
      BY <2>1, <3>1, <3>2 DEF Creators, Refreshers, Holders, Resumers
  <2> QED
    BY <2>1
<1>11. ~overlapped => ~LivePty
  <2>1. CASE First(req[r].todo) = "spawn"
    <3>1. n = 0
      BY <1>1, <1>9, <2>1, EmptySeq
    <3> QED
      BY <1>1, <3>1, TypesOfSession DEF LivePty
  <2>2. CASE First(req[r].todo) \in Creators
    BY <2>2 DEF IInv, Meets
  <2> QED
    BY <2>1, <2>2
<1>12. LeakNeedsOverlap'
  <2>1. ~overlapped => \A k \in 1 .. n : ptys[k].stopped
    BY <1>1, <1>11, TypesOfSession DEF IInv, LeakNeedsOverlap, LivePty
  <2>2. ~overlapped => \A k \in 1 .. n + 1 : ~ps[k].stopped => k = n + 1
    BY <1>5, <2>1
  <2> QED
    BY <1>2, <1>5, <1>6, <2>2 DEF LeakNeedsOverlap
<1>13. ASSUME NEW p \in Requests, p # r
       PROVE  First(req[p].todo) # "spawn" /\ (~overlapped => First(req[p].todo) \notin Creators)
  <2>1. Creators \subseteq Spawners
    BY DEF Creators, Spawners
  <2>2. Program(req[p].todo) /\ Program(req[r].todo)
    BY DEF IInv, Fits
  <2>3. CASE First(req[r].todo) = "spawn"
    BY <1>9, <1>10, <1>13, <2>3 DEF IInv, Alone
  <2>4. CASE First(req[r].todo) \in Creators
    <3>1. First(req[p].todo) # "spawn"
      BY <1>10, <2>4 DEF IInv, Meets
    <3>2. ~overlapped => First(req[p].todo) \notin Creators
      BY <1>13, <2>1, <2>2, <2>4, FirstSpawns DEF IInv, Alone
    <3> QED
      BY <3>1, <3>2
  <2> QED
    BY <2>3, <2>4
<1>14. \A p \in Requests : req'[p] = IF p = r THEN q ELSE req[p]
  BY TypesOfSession
<1>15. Alone'
  <2>1. \A p \in Requests : /\ Spawns(req'[p].todo) => Spawns(req[p].todo)
                            /\ First(req'[p].todo) # "spawn"
    BY <1>13, <1>14
  <2> QED
    BY <2>1 DEF IInv, Alone
<1>16. ASSUME NEW p \in Requests PROVE Fits(req'[p]) /\ Meets(req[p])'
  <2>1. CASE p = r
    BY <1>1, <1>2, <1>5, <1>14, <2>1 DEF Meets, Refreshers, Creators
  <2>2. CASE p # r
    <3>1. PICK c \in Request : c = req[p] /\ c = req'[p]
      BY <1>14, <2>2, TypesOfSession
    <3>2. /\ Fits(c) /\ c.pty =< n /\ (c.copy # None \/ First(c.todo) \in Refreshers => handle # None)
          /\ c.pty \in Nat
      BY <1>1, <3>1 DEF IInv, Meets, Request
    <3> QED
      BY <1>2, <1>5, <1>13, <2>2, <3>1, <3>2 DEF Meets
  <2> QED
    BY <2>1, <2>2
<1>17. (\A p \in Requests : Fits(req[p]) /\ Meets(req[p]))'
  BY <1>16
<1>18. handle' # None => handle'.pid =< Len(ptys') /\ Admits(handle')
  BY <1>1, <1>2, <1>5
<1>19. Admits(disk) /\ (disk # None => handle' # None)
  BY TypesOfSession
<1> QED
  BY <1>8, <1>12, <1>15, <1>17, <1>18, <1>19 DEF IInv

\* start_session: nobody knows the new id before the handle is inserted.
LEMMA SpawnKeeps == ASSUME IInv, NEW r \in Requests, Spawn(r) PROVE IInv'
<1>1. At(r, "spawn") /\ Create /\ UNCHANGED <<run, monitors, disk, overlapped, limit>>
  BY DEF Spawn
<1>2. PICK n \in Nat : n = Len(ptys) /\ mapped' = n + 1
  BY <1>1, TypesOfSession DEF Create
<1>3. PICK o \in Request : /\ o = req[r] /\ o.copy = None /\ First(o.todo) = "spawn"
  BY <1>1, AtStep DEF Meets
<1>4. PICK q : q = [o EXCEPT !.todo = Tail(o.todo), !.pty = n + 1]
  OBVIOUS
<1>5. req' = [req EXCEPT ![r] = q] /\ q.todo = Tail(o.todo) /\ q.copy = None /\ q.pty = n + 1
  BY <1>2, <1>3, <1>4 DEF Spawn, Request
<1>6. q \in Request
  <2>1. n + 1 \in Nat
    OBVIOUS
  <2>2. Tail(o.todo) \in Seq(Steps)
    BY <1>1, <1>3, AtStep
  <2> QED
    BY <1>4, <2>1, <2>2 DEF Request
<1>7. \A y : <<"spawn", y>> \in Order => y = "attach"
  BY DEF Order
<1>8. Program(q.todo) /\ First(q.todo) \in {"attach", "none"} /\ (Spawns(q.todo) => Spawns(o.todo))
  BY <1>1, <1>3, <1>5, <1>7, AtStep
<1>9. Fits(q) /\ First(q.todo) \notin Refreshers
  BY <1>5, <1>8 DEF Fits, Admits, Holders, Resumers, Refreshers
<1>10. PICK h : /\ handle' = h
                /\ h = [status |-> "Running", pid |-> n + 1, conv |-> "first", resum |-> "Resumable"]
  BY <1>2 DEF Spawn
<1>11. h \in AgentHandle /\ h.pid = n + 1 /\ Admits(h)
  BY <1>10 DEF AgentHandle, AgentStatus, Conversations, Resumability, Admits
<1>12. h # None
  BY <1>11, NoneIsNoRecord
<1>13. /\ First(req[r].todo) \in Creators \cup {"spawn"} /\ q.pty = Len(ptys) + 1
       /\ q.copy = None /\ First(q.todo) \in {"attach", "insert", "freshUpdate", "none"}
       /\ Spawns(q.todo) => Spawns(req[r].todo)
       /\ h.pid =< Len(ptys) + 1
  BY <1>2, <1>3, <1>5, <1>8, <1>11
<1> QED
  BY <1>1, <1>5, <1>6, <1>9, <1>10, <1>11, <1>12, <1>13, Spawning

\* create_pty in restore_session and spawn_fresh_for_session, which may fail.
LEMMA RestoreKeeps == ASSUME IInv, NEW r \in Requests, Resume(r) \/ Fallback(r) PROVE IInv'
<1>1. PICK x \in {"resume", "fallback", "freshSpawn"} : At(r, x)
  BY DEF Resume, Fallback
<1>2. UNCHANGED <<run, handle, monitors, disk, overlapped, limit>>
  BY DEF Resume, Fallback
<1>3. PICK n \in Nat : n = Len(ptys) /\ (Create => mapped' = n + 1)
  BY TypesOfSession DEF Create
<1>4. PICK o \in Request : /\ o = req[r] /\ First(o.todo) = x /\ Admits(o.copy) /\ o.pty =< n
                           /\ handle # None /\ Spawns(o.todo)
                           /\ x # "freshSpawn" => o.copy # None /\ o.copy.resum = "Resumable"
                           /\ ~overlapped => ~LivePty
  <2>1. x \in Spawners
    BY DEF Spawners
  <2>2. Spawns(req[r].todo)
    BY <1>1, <2>1, AtStep, FirstSpawns DEF Fits
  <2> QED
    BY <1>1, <1>3, <2>2, AtStep DEF Fits, Meets, Holders, Resumers, Refreshers, Creators
<1>5. /\ \A y : <<"freshSpawn", y>> \in Order => y = "freshUpdate"
      /\ \A y : <<"resume", y>> \in Order => y = "insert"
      /\ \A y : <<"fallback", y>> \in Order => y = "insert"
  BY DEF Order
<1>6. /\ Program(Tail(o.todo)) /\ Tail(o.todo) \in Seq(Steps) /\ x \notin Final
      /\ First(Tail(o.todo)) = IF x = "freshSpawn" THEN "freshUpdate" ELSE "insert"
      /\ Spawns(Tail(o.todo)) => Spawns(o.todo)
  <2>1. x \notin Final
    BY DEF Final
  <2> QED
    BY <1>1, <1>4, <1>5, <2>1, AtStep
<1>7. CASE Create /\ \E fresh \in BOOLEAN :
             req' = [req EXCEPT ![r].todo = Tail(@), ![r].pty = mapped', ![r].fresh = fresh]
  <2>1. PICK fresh \in BOOLEAN :
           req' = [req EXCEPT ![r].todo = Tail(@), ![r].pty = n + 1, ![r].fresh = fresh]
    BY <1>3, <1>7
  <2>2. PICK q : q = [o EXCEPT !.todo = Tail(o.todo), !.pty = n + 1, !.fresh = fresh]
    OBVIOUS
  <2>3. req' = [req EXCEPT ![r] = q] /\ q.todo = Tail(o.todo) /\ q.copy = o.copy /\ q.pty = n + 1
    BY <1>4, <2>1, <2>2 DEF Request
  <2>4. q \in Request
    <3>1. n + 1 \in Nat
      OBVIOUS
    <3> QED
      BY <1>6, <2>2, <3>1 DEF Request
  <2>5. Fits(q) /\ First(q.todo) \in {"freshUpdate", "insert"}
    BY <1>4, <1>6, <2>3 DEF Fits, Holders, Resumers
  <2>6. x \in Creators
    BY DEF Creators
  <2>7. handle \in AgentHandle \cup {None} /\ handle.pid =< n + 1 /\ Admits(handle)
    BY <1>3, <1>4, TypesOfSession DEF AgentHandle
  <2> QED
    BY <1>2, <1>3, <1>4, <1>6, <1>7, <2>3, <2>4, <2>5, <2>6, <2>7, Spawning
<1>8. CASE x = "resume" /\ Go(r, <<"fallback">> \o Tail(req[r].todo)) /\ UNCHANGED <<ptys, mapped>>
  <2>1. PICK t : t = <<"fallback">> \o Tail(o.todo)
    OBVIOUS
  <2>2. Program(t) /\ First(t) = "fallback"
    <3>1. PICK s : s = <<"fallback">>
      OBVIOUS
    <3>2. s \in Seq(Steps) /\ s # << >> /\ Len(s) = 1 /\ s[1] = "fallback"
      BY <3>1 DEF Steps
    <3>3. <<"fallback", "insert">> \in Order /\ \A i \in 1 .. 1 - 1 : <<s[i], s[i + 1]>> \in Order
      BY DEF Order
    <3>4. Tail(o.todo) # << >> /\ First(Tail(o.todo)) = "insert"
      BY <1>6, <1>8 DEF First
    <3> QED
      BY <1>6, <2>1, <3>1, <3>2, <3>3, <3>4, Joined
  <2>3. PICK q : q = [o EXCEPT !.todo = t]
    OBVIOUS
  <2>4. req' = [req EXCEPT ![r] = q] /\ q.todo = t /\ q.copy = o.copy /\ q.pty = o.pty
    BY <1>4, <1>8, <2>1, <2>3 DEF Go, Request
  <2>5. q \in Request
    BY <2>2, <2>3 DEF Request, Program
  <2>6. Moves(o, q)
    BY <1>3, <1>4, <1>8, <2>2, <2>4 DEF Moves, Fits, Holders, Resumers, Refreshers, Creators
  <2> QED
    BY <1>2, <1>4, <1>8, <2>4, <2>5, <2>6, TypesOfSession, Turn
<1>9. CASE Finish(r) /\ UNCHANGED <<ptys, mapped>>
  <2>1. req' = [req EXCEPT ![r] = Idle]
    BY <1>9 DEF Finish
  <2> QED
    BY <1>2, <1>9, <2>1, TypesOfSession, Finished, Turn
<1>10. \/ Create /\ \E fresh \in BOOLEAN :
             req' = [req EXCEPT ![r].todo = Tail(@), ![r].pty = mapped', ![r].fresh = fresh]
       \/ x = "resume" /\ Go(r, <<"fallback">> \o Tail(req[r].todo)) /\ UNCHANGED <<ptys, mapped>>
       \/ Finish(r) /\ UNCHANGED <<ptys, mapped>>
  <2>1. ASSUME Resume(r) PROVE x = "resume"
    BY <1>1, <2>1 DEF Resume, At
  <2> QED
    BY <2>1 DEF Resume, Fallback
<1> QED
  BY <1>7, <1>8, <1>9, <1>10

\* The process exits, the reader thread sees the end and reaps it.
LEMMA ProcessKeeps ==
  ASSUME IInv, NEW n \in DOMAIN ptys, ChildExits(n) \/ ReaderStops(n) \/ ReaderReaps(n)
  PROVE  IInv'
<1>1. n \in 1 .. Len(ptys) /\ ptys[n] \in Pty
  BY TypesOfSession
<1>2. UNCHANGED <<run, handle, mapped, disk, req, overlapped, limit>>
  BY DEF ChildExits, ReaderStops, ReaderReaps
<1>3. watched' \in 0 .. Len(ptys) /\ late' \in 0 .. MaxLate
  BY Announced, TypesOfSession DEF ChildExits, ReaderStops, ReaderReaps, monitors
<1>4. PICK p \in Pty : ptys' = [ptys EXCEPT ![n] = p] /\ (ptys[n].stopped => p.stopped)
  <2>1. PICK a, b, c : /\ a = Exited(ptys[n]) /\ b = [ptys[n] EXCEPT !.stopped = TRUE]
                       /\ c = [ptys[n] EXCEPT !.child = "reaped"]
    OBVIOUS
  <2>2. a \in Pty /\ b \in Pty /\ c \in Pty /\ (ptys[n].stopped => a.stopped /\ b.stopped /\ c.stopped)
    BY <1>1, <2>1, PtyExits
  <2>3. \/ ptys' = [ptys EXCEPT ![n] = a] \/ ptys' = [ptys EXCEPT ![n] = b]
        \/ ptys' = [ptys EXCEPT ![n] = c]
    BY <2>1 DEF ChildExits, ReaderStops, ReaderReaps
  <2> QED
    BY <2>2, <2>3
<1>5. PICK ps \in Seq(Pty) : /\ ps = ptys' /\ Len(ps) = Len(ptys)
                             /\ \A k \in 1 .. Len(ptys) : ptys[k].stopped => ps[k].stopped
  BY <1>1, <1>4, OnePty
<1> QED
  BY <1>2, <1>3, <1>5, TypesOfSession, Step

\* A monitor loses its PTY, or acts on an exit that it was sent.
LEMMA MonitorKeeps == ASSUME IInv, MonitorClosed \/ MonitorMarks PROVE IInv'
<1>1. UNCHANGED <<run, ptys, mapped, disk, req, overlapped, limit>>
  BY DEF MonitorClosed, MonitorMarks
<1>2. OneMore(late) \in 0 .. MaxLate
  BY TypesOfSession, AgentSessionAssumption DEF OneMore
<1>3. watched' \in 0 .. Len(ptys) /\ late' \in 0 .. MaxLate
  BY <1>2, TypesOfSession, AgentSessionAssumption DEF MonitorClosed, MonitorMarks
<1>4. PICK h \in AgentHandle \cup {None} :
         h = handle' /\ (h = None <=> handle = None) /\ (h # None => h.pid =< Len(ptys) /\ Admits(h))
  <2>1. "Stopped" \in AgentStatus /\ 0 \in 0 .. Len(ptys)
    BY TypesOfSession DEF AgentStatus
  <2>2. handle' = handle \/ (handle # None /\ handle' = [handle EXCEPT !.status = "Stopped", !.pid = 0])
    BY DEF MonitorClosed, MonitorMarks
  <2> QED
    BY <2>1, <2>2, TypesOfSession, StatusOfHandle
<1> QED
  BY <1>1, <1>3, <1>4, TypesOfSession, Step

-----------------------------------------------------------------------------
(***************************************************************************)
(* Handlers begin, and the daemon starts again.                            *)
(***************************************************************************)
LEMMA BeginKeeps ==
  ASSUME IInv, NEW r \in Requests, NEW name \in limit.offered, Begin(r, name)
  PROVE  IInv'
<1>1. /\ req[r] = Idle
      /\ name = "start" <=> ptys = << >> /\ handle = None /\ \A q \in Requests : req[q] = Idle
      /\ Go(r, Programs[name])
      /\ UNCHANGED <<run, handle, ptys, mapped, monitors, disk, limit>>
  BY DEF Begin
<1>2. name \in {"start", "list", "settings", "stop", "bootstrap", "attach"}
  BY AgentSessionAssumption DEF IInv, TypeOK
<1>3. PICK s : s = Programs[name]
  OBVIOUS
<1>4. /\ Program(s) /\ First(s) \in {"spawn", "reconcile", "readDisk"}
      /\ First(s) = "spawn" => name = "start"
      /\ name # "attach" => ~Spawns(s)
  BY <1>2, <1>3, ProgramsArePrograms
<1>5. PICK q : q = [Idle EXCEPT !.todo = s]
  OBVIOUS
<1>6. req' = [req EXCEPT ![r] = q] /\ q.todo = s /\ q.copy = None /\ q.pty = 0
  BY <1>1, <1>3, <1>5, TypesOfSession DEF Go, Idle
<1>7. q \in Request
  BY <1>4, <1>5 DEF Request, Idle, Program
<1>8. req' \in [Requests -> Request] /\ \A p \in Requests : req'[p] = IF p = r THEN q ELSE req[p]
  BY <1>6, <1>7, TypesOfSession
<1>9. PICK o \in BOOLEAN : o = overlapped'
  BY DEF Begin
<1>10. \A p \in Requests : MaySpawn(p) <=> Spawns(req[p].todo)
  <2>1. \A p \in Requests : DOMAIN req[p].todo = 1 .. Len(req[p].todo)
    BY LenProperties, TypesOfSession DEF Request
  <2> QED
    BY <2>1 DEF MaySpawn, Spawns, Spawners
<1>11. ~o => ~overlapped /\ (name = "attach" => \A p \in Requests : ~Spawns(req[p].todo))
  BY <1>9, <1>10 DEF Begin
<1>12. TypeOK'
  BY <1>1, <1>8, <1>9 DEF IInv, TypeOK, monitors
<1>13. LeakNeedsOverlap'
  BY <1>1, <1>9, <1>11 DEF IInv, LeakNeedsOverlap
<1>14. First(Idle.todo) = "none"
  BY DEF First, Idle
<1>15. Alone'
  <2>1. ASSUME NEW a \in Requests, NEW b \in Requests, ~o, Spawns(req'[a].todo), Spawns(req'[b].todo)
        PROVE  a = b
    <3>1. CASE name = "attach"
      BY <1>8, <1>11, <2>1, <3>1
    <3>2. CASE name # "attach"
      BY <1>4, <1>6, <1>8, <1>11, <2>1, <3>2 DEF IInv, Alone
    <3> QED
      BY <3>1, <3>2
  <2>2. ASSUME NEW a \in Requests, NEW b \in Requests, First(req'[a].todo) = "spawn", First(req'[b].todo) = "spawn"
        PROVE  a = b
    <3>1. CASE name = "start"
      BY <1>1, <1>8, <1>14, <2>2, <3>1
    <3>2. CASE name # "start"
      BY <1>4, <1>6, <1>8, <2>2, <3>2 DEF IInv, Alone
    <3> QED
      BY <3>1, <3>2
  <2> QED
    BY <1>9, <2>1, <2>2 DEF Alone
<1>16. Fits(q)
  BY <1>4, <1>6 DEF Fits, Admits, Holders, Resumers
<1>17. ASSUME NEW p \in Requests PROVE Fits(req'[p]) /\ Meets(req[p])'
  <2>1. LivePty' <=> LivePty
    BY <1>1 DEF LivePty
  <2>2. CASE p = r
    <3>1. First(s) \notin Refreshers /\ First(s) # "killStale" /\ First(s) \notin Creators
      BY <1>4 DEF Refreshers, Creators
    <3>2. First(s) = "spawn" => handle = None /\ ptys = << >>
      BY <1>1, <1>4
    <3>3. 0 =< Len(ptys)
      BY TypesOfSession
    <3> QED
      BY <1>1, <1>6, <1>8, <1>16, <2>2, <3>1, <3>2, <3>3 DEF Meets
  <2>3. CASE p # r
    <3>1. req'[p] = req[p] /\ Fits(req[p]) /\ Meets(req[p])
      BY <1>8, <2>3 DEF IInv
    <3> QED
      BY <1>1, <1>9, <1>11, <2>1, <3>1 DEF Meets
  <2> QED
    BY <2>2, <2>3
<1>18. (\A p \in Requests : Fits(req[p]) /\ Meets(req[p]))'
  BY <1>17
<1>19. (handle # None => handle.pid =< Len(ptys) /\ Admits(handle))' /\ (Admits(disk) /\ (disk # None => handle # None))'
  BY <1>1 DEF IInv, Admits
<1> QED
  BY <1>12, <1>13, <1>15, <1>18, <1>19 DEF IInv

LEMMA RestartKeeps == ASSUME IInv, Restart PROVE IInv'
<1>1. /\ run < limit.runs /\ run' = run + 1 /\ mapped' = 0 /\ watched' = 0 /\ late' = 0
      /\ handle' = IF disk = None THEN None ELSE Hydrated(disk)
      /\ req' = [r \in Requests |-> Idle] /\ overlapped' = FALSE /\ UNCHANGED <<disk, limit>>
  BY DEF Restart
<1>2. PICK n \in Nat : n = Len(ptys) /\ DOMAIN ptys = 1 .. n /\ n =< limit.ptys
  BY TypesOfSession DEF IInv, TypeOK
<1>3. PICK survivors :
         ptys' = [k \in 1 .. n |-> [ptys[k] EXCEPT !.stopped = TRUE,
                                                   !.child = IF k \in survivors THEN @ ELSE "reaped"]]
  BY <1>2 DEF Restart
<1>4. PICK ps : ps = ptys'
  OBVIOUS
<1>5. \A k \in 1 .. n : ps[k] \in Pty /\ ps[k].stopped
  <2>1. ASSUME NEW k \in 1 .. n PROVE ps[k] \in Pty /\ ps[k].stopped
    <3>1. PICK p \in Pty : p = ptys[k]
      BY <1>2, TypesOfSession
    <3>2. PICK child \in {"running", "exited", "reaped"} : child = IF k \in survivors THEN p.child ELSE "reaped"
      BY <3>1 DEF Pty
    <3>3. ps[k] = [p EXCEPT !.stopped = TRUE, !.child = child]
      BY <1>3, <1>4, <3>1, <3>2
    <3> QED
      BY <3>1, <3>2, <3>3 DEF Pty
  <2> QED
    BY <2>1
<1>6. ps \in Seq(Pty) /\ Len(ps) = n /\ DOMAIN ps = 1 .. n
  <2>1. ps \in [1 .. n -> Pty]
    BY <1>3, <1>4, <1>5
  <2>2. ps \in Seq(Pty)
    BY <2>1, SeqDef
  <2>3. PICK m \in Nat : m = Len(ps) /\ 1 .. m = 1 .. n
    BY <2>1, <2>2, LenProperties
  <2>4. m = n
    <3>1. m # 0 => m \in 1 .. m
      OBVIOUS
    <3>2. n # 0 => n \in 1 .. n
      OBVIOUS
    <3> QED
      BY <2>3, <3>1, <3>2
  <2>5. DOMAIN ps = 1 .. n
    BY <2>1
  <2> QED
    BY <2>2, <2>3, <2>4, <2>5
<1>7. /\ handle' \in AgentHandle \cup {None} /\ (disk # None => handle' # None)
      /\ handle' # None => handle'.pid =< n /\ Admits(handle')
  <2>1. CASE disk = None
    BY <1>1, <2>1
  <2>2. CASE disk # None
    <3>1. PICK d \in Entry : d = disk /\ Admits(d)
      BY <2>2, TypesOfSession
    <3>2. PICK h : h = Hydrated(d) /\ h = handle'
      BY <1>1, <2>2, <3>1
    <3>3. h \in AgentHandle /\ h.pid = 0 /\ h.conv = d.conv /\ h.resum = d.resum
      BY <3>2 DEF Hydrated, AgentHandle, AgentStatus, Entry
    <3>4. h # None /\ d # None
      BY <3>3, NoneIsNoRecord
    <3> QED
      BY <3>1, <3>2, <3>3, <3>4 DEF Admits
  <2> QED
    BY <2>1, <2>2
<1>8. Idle \in Request /\ Program(Idle.todo) /\ Idle.copy = None /\ Idle.pty = 0
      /\ First(Idle.todo) = "none" /\ ~Spawns(Idle.todo) /\ Fits(Idle)
  <2>1. Idle \in Request /\ Moves(Idle, Idle)
    BY Finished
  <2>2. Idle.todo = << >> /\ Idle.copy = None /\ Idle.pty = 0 /\ First(Idle.todo) = "none"
    BY DEF Idle, First
  <2>3. ~Spawns(<< >>)
    BY EmptySeq DEF Spawns
  <2> QED
    BY <2>1, <2>2, <2>3 DEF Moves, Fits
<1>9. TypeOK'
  <2>1. limit.runs \in Nat /\ run' \in 1 .. limit.runs
    BY <1>1, AgentSessionAssumption DEF IInv, TypeOK
  <2>2. 0 \in 0 .. n /\ 0 \in 0 .. MaxLate
    BY AgentSessionAssumption
  <2>3. req' \in [Requests -> Request]
    BY <1>1, <1>8
  <2> QED
    BY <1>1, <1>2, <1>4, <1>6, <1>7, <2>1, <2>2, <2>3 DEF IInv, TypeOK
<1>10. LeakNeedsOverlap'
  BY <1>4, <1>5, <1>6 DEF LeakNeedsOverlap
<1>11. Alone'
  BY <1>1, <1>8 DEF Alone
<1>12. ASSUME NEW p \in Requests PROVE Fits(req'[p]) /\ Meets(req[p])'
  <2>1. req'[p] = Idle /\ 0 =< n
    BY <1>1
  <2> QED
    BY <1>1, <1>4, <1>6, <1>8, <2>1, NoStep DEF Meets
<1>13. (\A p \in Requests : Fits(req[p]) /\ Meets(req[p]))'
  BY <1>12
<1>14. (handle # None => handle.pid =< Len(ptys) /\ Admits(handle))'
  BY <1>4, <1>6, <1>7
<1>15. (Admits(disk) /\ (disk # None => handle # None))'
  BY <1>1, <1>7, TypesOfSession
<1> QED
  BY <1>9, <1>10, <1>11, <1>13, <1>14, <1>15 DEF IInv
-----------------------------------------------------------------------------
(***************************************************************************)
(* The specification.                                                      *)
(***************************************************************************)
LEMMA InitIInv == Init => IInv
<1> SUFFICES ASSUME Init PROVE IInv
  OBVIOUS
<1>1. Idle \in Request /\ Idle.copy = None /\ Idle.pty = 0 /\ Idle.todo = << >>
  BY EmptySeq DEF Idle, Request
<1>2. Program(<< >>) /\ ~Spawns(<< >>) /\ First(<< >>) = "none"
  BY EmptySeq DEF Program, Spawns, First
<1>3. Fits(Idle)
  BY <1>1, <1>2, NoStep DEF Fits, Admits
<1>4. ptys = << >> /\ ptys \in Seq(Pty) /\ Len(ptys) = 0 /\ DOMAIN ptys = {}
  BY EmptySeq DEF Init
<1>5. limit \in Limits /\ limit.ptys \in Nat \ {0} /\ limit.runs \in Nat \ {0}
  BY AgentSessionAssumption DEF Init
<1>6. TypeOK
  <2>1. run \in 1 .. limit.runs /\ 0 \in 0 .. 0 /\ 0 \in 0 .. MaxLate /\ 0 =< limit.ptys
    BY <1>5, AgentSessionAssumption DEF Init
  <2>2. req \in [Requests -> Request] /\ overlapped \in BOOLEAN
    BY <1>1 DEF Init
  <2> QED
    BY <1>4, <1>5, <2>1, <2>2 DEF Init, TypeOK
<1>7. Alone
  BY <1>1, <1>2 DEF Init, Alone
<1>8. LeakNeedsOverlap
  BY <1>4 DEF LeakNeedsOverlap
<1>9. \A r \in Requests : Fits(req[r]) /\ Meets(req[r])
  <2>1. \A r \in Requests : req[r] = Idle
    BY DEF Init
  <2> QED
    BY <1>1, <1>2, <1>3, <1>4, <2>1, NoStep DEF Meets
<1>10. handle = None /\ disk = None
  BY DEF Init
<1> QED
  BY <1>6, <1>7, <1>8, <1>9, <1>10 DEF IInv, Admits

LEMMA NextIInv == IInv /\ [Next]_vars => IInv'
<1> SUFFICES ASSUME IInv, [Next]_vars PROVE IInv'
  OBVIOUS
<1>1. ASSUME NEW r \in Requests, Serve(r) PROVE IInv'
  <2>1. CASE Listed(r) \/ Peek(r) \/ PromoteOne(r) \/ Save(r)
    BY <2>1, ReconcileKeeps, WatchKeeps, CollectKeeps, StatusKeeps, PeekKeeps, SaveKeeps DEF Listed
  <2>2. CASE Spawn(r) \/ ReadPid(r) \/ Unmonitor(r) \/ KillMapped(r) \/ Terminate(r) \/ Mark(r)
    BY <2>2, SpawnKeeps, ReadPidKeeps, UnmonitorKeeps, KillMappedKeeps, TerminateKeeps, StatusKeeps
  <2>3. CASE ReadDisk(r) \/ Check(r) \/ Hydrate(r)
    BY <2>3, ReadDiskKeeps, CheckKeeps, HydrateKeeps
  <2>4. CASE \/ ReadHandle(r) \/ Look(r) \/ Resume(r) \/ Fallback(r) \/ Insert(r) \/ Regain(r)
             \/ FreshRemove(r) \/ FreshUpdate(r)
    BY <2>4, ReadHandleKeeps, LookKeeps, RestoreKeeps, InsertKeeps, RegainKeeps, FreshRemoveKeeps,
       FreshUpdateKeeps
  <2> QED
    BY <1>1, <2>1, <2>2, <2>3, <2>4 DEF Serve
<1>2. CASE \E r \in Requests, name \in limit.offered : Begin(r, name)
  BY <1>2, BeginKeeps
<1>3. CASE \E n \in DOMAIN ptys : ChildExits(n) \/ ReaderStops(n) \/ ReaderReaps(n)
  BY <1>3, ProcessKeeps
<1>4. CASE MonitorClosed \/ MonitorMarks
  BY <1>4, MonitorKeeps
<1>5. CASE Restart
  BY <1>5, RestartKeeps
<1>6. CASE UNCHANGED vars
  <2>1. UNCHANGED <<run, handle, ptys, mapped, watched, late, disk, req, overlapped, limit>>
    BY <1>6 DEF vars, monitors
  <2> QED
    BY <2>1, TypesOfSession, Step
<1> QED
  BY <1>1, <1>2, <1>3, <1>4, <1>5, <1>6 DEF Next

LEMMA Inductive == Spec => []IInv
<1>1. Init => IInv
  BY InitIInv
<1>2. IInv /\ [Next]_vars => IInv'
  BY NextIInv
<1> QED
  BY <1>1, <1>2, PTL DEF Spec

\* The handle, its PTYs, the entry and the requests are what the code says
\* they are; a PTY, a pid and a monitor belong to a process that was spawned.
THEOREM TypeCorrect == Spec => []TypeOK
<1>1. IInv => TypeOK
  BY DEF IInv
<1> QED
  BY <1>1, Inductive, PTL

\* A conversation is never lost without a word (manager/session.rs, runners):
\* a handle, an entry or a copy of another conversation than the first is
\* unresumable, whatever requests, exits and restarts came between.
THEOREM LossIsTold == Spec => []NoSilentLoss
<1>1. IInv => NoSilentLoss
  BY DEF IInv, NoSilentLoss, Admits, Fits
<1> QED
  BY <1>1, Inductive, PTL

\* The process that restore_session kills as stale is not the one that clients
\* are attached to by then.
THEOREM StaleIsSafe == Spec => []StaleIsNotAttached
<1>1. ASSUME IInv PROVE StaleIsNotAttached
  <2>1. ASSUME NEW r \in Requests, At(r, "killStale"), LivePty PROVE req[r].pty # mapped
    BY <1>1, <2>1, AtStep DEF Meets
  <2> QED
    BY <2>1 DEF StaleIsNotAttached
<1> QED
  BY <1>1, Inductive, PTL

\* A process whose terminal is still read is the one of the PtyManager's map,
\* unless two attaching requests overlapped (ensure_pty_attached).
THEOREM LeaksNeedOverlap == Spec => []LeakNeedsOverlap
<1>1. IInv => LeakNeedsOverlap
  BY DEF IInv
<1> QED
  BY <1>1, Inductive, PTL
=============================================================================

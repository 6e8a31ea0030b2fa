----------------------------- MODULE DaemonProofs -----------------------------
(***************************************************************************)
(* Proofs about the files that outlive a daemon: the token files           *)
(* (TokenStore), for any number of handlers and tokens, and the pid file   *)
(* (DaemonStart), for any number of processes, pids and ports.             *)
(*                                                                         *)
(* The invariant of the tokens is IInv: a handler changes the set under    *)
(* one lock and saves it under another, so what it has still to save is    *)
(* said too (RemovedIsOut, NewIsPrivate, DifferenceIsPending).             *)
(*                                                                         *)
(* The invariant of the pid file is DaemonInv.  The file is read in one    *)
(* step and trusted in a later one, so what a command has seen has to be   *)
(* said: as long as no command runs while a daemon starts, a command that  *)
(* has read the file has seen every daemon that is up, because none can    *)
(* have come up since (SeesUp, which rests on StartsAlone); a daemon that  *)
(* may write the file therefore found none up (NoneUp), and whoever is up  *)
(* is the one the file names (NamesUp).                                    *)
(***************************************************************************)
EXTENDS TokenStore, DaemonStart, TLAPS

-----------------------------------------------------------------------------
(* The tokens.                                                             *)

(* A bootstrap token in use was generated. *)
BootIsMade == {bootMem, bootFile} \subseteq bootMade \cup {None}

(* The read lock keeps the set as it was copied. *)
CopiesAreCurrent == \A r \in Requests : at[r] = "write" => content[r] = tokens

(* A handler that saves a removal removed a token, which stays out. *)
RemovedIsOut ==
    \A r \in Requests :
        /\ at[r] = "remove" => tok[r] # None
        /\ at[r] \in {"truncate", "write"} /\ new[r] = None => tok[r] \in generated \ tokens

(* Nobody else knows a token before its response went out. *)
NewIsPrivate ==
    \A r \in Requests : new[r] # None =>
        /\ new[r] \in tokens \ issued
        /\ \A q \in Requests : q # r => new[q] # new[r]
        /\ \A q \in Requests : at[q] = "remove" => tok[q] # new[r]

(* Where memory and disk differ, a handler is still to save the difference, *)
(* or one was dropped before it could, and then told no client of a token.  *)
DifferenceIsPending ==
    ~failed /\ FileIsWhole =>
        /\ \A t \in tokens \ file :
              \/ dropped /\ t \notin issued
              \/ \E r \in Requests : at[r] = "truncate" /\ new[r] = t
        /\ \A t \in file \ tokens :
              \/ dropped
              \/ \E r \in Requests : at[r] = "truncate" /\ new[r] = None /\ tok[r] = t

IInv ==
    /\ TypeOK
    /\ BootIsMade
    /\ OneExchangePerRun
    /\ CopiesAreCurrent
    /\ RemovedIsOut
    /\ NewIsPrivate
    /\ issued \subseteq tokens
    /\ DifferenceIsPending
    /\ RetiredStaysRetired

(***************************************************************************)
(* Every action keeps the invariant: one lemma per action, with one step   *)
(* per conjunct.                                                           *)
(***************************************************************************)
LEMMA BeginExchangeKeeps ==
    ASSUME IInv, NEW r \in Requests, BeginExchange(r)
    PROVE  IInv'
  <1> USE NoneAssumption DEF IInv, boot, saved, ghosts, asked, Goto, BeginExchange
  <1>1. TypeOK'
    BY DEF TypeOK, Steps, Kinds
  <1>2. BootIsMade'
    BY DEF BootIsMade
  <1>3. OneExchangePerRun'
    BY DEF OneExchangePerRun
  <1>4. CopiesAreCurrent'
    BY DEF CopiesAreCurrent
  <1>5. RemovedIsOut'
    BY DEF RemovedIsOut
  <1>6. NewIsPrivate'
    BY DEF NewIsPrivate
  <1>7. (issued \subseteq tokens)'
    OBVIOUS
  <1>8. DifferenceIsPending'
    BY DEF DifferenceIsPending, FileIsWhole
  <1>9. RetiredStaysRetired'
    BY DEF RetiredStaysRetired
  <1>10. QED
    BY <1>1, <1>2, <1>3, <1>4, <1>5, <1>6, <1>7, <1>8, <1>9

LEMMA ConsumeKeeps ==
    ASSUME IInv, NEW r \in Requests, Consume(r)
    PROVE  IInv'
  <1> USE NoneAssumption DEF IInv, boot, saved, ghosts, asked, Goto, Consume
  <1>1. TypeOK'
    BY DEF TypeOK, Steps, BootIsMade
  <1>2. BootIsMade'
    BY DEF BootIsMade
  <1>3. OneExchangePerRun'
    BY DEF OneExchangePerRun
  <1>4. CopiesAreCurrent'
    BY DEF TypeOK, CopiesAreCurrent
  <1>5. RemovedIsOut'
    BY DEF TypeOK, RemovedIsOut
  <1>6. NewIsPrivate'
    BY DEF TypeOK, NewIsPrivate
  <1>7. (issued \subseteq tokens)'
    OBVIOUS
  <1>8. DifferenceIsPending'
    BY DEF TypeOK, DifferenceIsPending, FileIsWhole
  <1>9. RetiredStaysRetired'
    BY DEF RetiredStaysRetired
  <1>10. QED
    BY <1>1, <1>2, <1>3, <1>4, <1>5, <1>6, <1>7, <1>8, <1>9

LEMMA BeginInviteKeeps ==
    ASSUME IInv, NEW r \in Requests, BeginInvite(r)
    PROVE  IInv'
  <1> USE NoneAssumption DEF IInv, boot, saved, ghosts, asked, Goto, BeginInvite
  <1>1. TypeOK'
    BY DEF TypeOK, Steps, Kinds
  <1>2. BootIsMade'
    BY DEF BootIsMade
  <1>3. OneExchangePerRun'
    BY DEF OneExchangePerRun
  <1>4. CopiesAreCurrent'
    BY DEF CopiesAreCurrent
  <1>5. RemovedIsOut'
    BY DEF RemovedIsOut
  <1>6. NewIsPrivate'
    BY DEF NewIsPrivate
  <1>7. (issued \subseteq tokens)'
    OBVIOUS
  <1>8. DifferenceIsPending'
    BY DEF DifferenceIsPending, FileIsWhole
  <1>9. RetiredStaysRetired'
    BY DEF RetiredStaysRetired
  <1>10. QED
    BY <1>1, <1>2, <1>3, <1>4, <1>5, <1>6, <1>7, <1>8, <1>9

LEMMA BeginRemovalKeeps ==
    ASSUME IInv, NEW r \in Requests, BeginRemoval(r)
    PROVE  IInv'
  <1> USE NoneAssumption DEF IInv, boot, saved, ghosts, asked, Goto, BeginRemoval
  <1>1. TypeOK'
    BY DEF TypeOK, Steps, Kinds
  <1>2. BootIsMade'
    BY DEF BootIsMade
  <1>3. OneExchangePerRun'
    BY DEF OneExchangePerRun
  <1>4. CopiesAreCurrent'
    BY DEF CopiesAreCurrent
  <1>5. RemovedIsOut'
    BY DEF TypeOK, RemovedIsOut
  <1>6. NewIsPrivate'
    BY DEF TypeOK, NewIsPrivate
  <1>7. (issued \subseteq tokens)'
    OBVIOUS
  <1>8. DifferenceIsPending'
    BY DEF DifferenceIsPending, FileIsWhole
  <1>9. RetiredStaysRetired'
    BY DEF RetiredStaysRetired
  <1>10. QED
    BY <1>1, <1>2, <1>3, <1>4, <1>5, <1>6, <1>7, <1>8, <1>9

LEMMA RemoveKeeps ==
    ASSUME IInv, NEW r \in Requests, Remove(r)
    PROVE  IInv'
  <1> USE NoneAssumption DEF IInv, boot, saved, ghosts, asked, Goto, Unlocked, Remove
  <1>1. TypeOK'
    BY DEF TypeOK, Steps
  <1>2. BootIsMade'
    BY DEF BootIsMade
  <1>3. OneExchangePerRun'
    BY DEF OneExchangePerRun
  <1>4. CopiesAreCurrent'
    BY DEF TypeOK, CopiesAreCurrent
  <1>5. RemovedIsOut'
    BY DEF TypeOK, RemovedIsOut
  <1>6. NewIsPrivate'
    BY DEF TypeOK, NewIsPrivate
  <1>7. (issued \subseteq tokens)'
    OBVIOUS
  <1>8. DifferenceIsPending'
    BY DEF TypeOK, DifferenceIsPending, FileIsWhole
  <1>9. RetiredStaysRetired'
    BY DEF RetiredStaysRetired
  <1>10. QED
    BY <1>1, <1>2, <1>3, <1>4, <1>5, <1>6, <1>7, <1>8, <1>9

LEMMA InsertKeeps ==
    ASSUME IInv, NEW r \in Requests, Insert(r)
    PROVE  IInv'
  <1> USE NoneAssumption DEF IInv, boot, saved, ghosts, asked, Goto, Unlocked, Insert
  <1>1. TypeOK'
    BY DEF TypeOK, Steps
  <1>2. BootIsMade'
    BY DEF BootIsMade
  <1>3. OneExchangePerRun'
    BY DEF OneExchangePerRun
  <1>4. CopiesAreCurrent'
    BY DEF CopiesAreCurrent
  <1>5. RemovedIsOut'
    BY DEF TypeOK, RemovedIsOut
  <1>6. NewIsPrivate'
    BY DEF TypeOK, NewIsPrivate
  <1>7. (issued \subseteq tokens)'
    OBVIOUS
  <1>8. DifferenceIsPending'
    BY DEF TypeOK, DifferenceIsPending, FileIsWhole
  <1>9. RetiredStaysRetired'
    BY DEF TypeOK, RetiredStaysRetired
  <1>10. QED
    BY <1>1, <1>2, <1>3, <1>4, <1>5, <1>6, <1>7, <1>8, <1>9

LEMMA TruncateKeeps ==
    ASSUME IInv, NEW r \in Requests, Truncate(r)
    PROVE  IInv'
  <1> USE NoneAssumption DEF IInv, boot, saved, ghosts, asked, Goto, Truncate
  <1>1. TypeOK'
    BY DEF TypeOK, Steps
  <1>2. BootIsMade'
    BY DEF BootIsMade
  <1>3. OneExchangePerRun'
    BY DEF OneExchangePerRun
  <1>4. CopiesAreCurrent'
    BY DEF TypeOK, CopiesAreCurrent
  <1>5. RemovedIsOut'
    BY DEF RemovedIsOut
  <1>6. NewIsPrivate'
    BY DEF NewIsPrivate
  <1>7. (issued \subseteq tokens)'
    OBVIOUS
  <1>8. DifferenceIsPending'
    BY DEF TypeOK, DifferenceIsPending, FileIsWhole
  <1>9. RetiredStaysRetired'
    BY DEF RetiredStaysRetired
  <1>10. QED
    BY <1>1, <1>2, <1>3, <1>4, <1>5, <1>6, <1>7, <1>8, <1>9

LEMMA OpenFailsKeeps ==
    ASSUME IInv, NEW r \in Requests, OpenFails(r)
    PROVE  IInv'
  <1> USE NoneAssumption DEF IInv, boot, saved, ghosts, asked, Goto, Continue, Done, OpenFails
  <1>1. TypeOK'
    BY DEF TypeOK, Steps
  <1>2. BootIsMade'
    BY DEF BootIsMade
  <1>3. OneExchangePerRun'
    BY DEF OneExchangePerRun
  <1>4. CopiesAreCurrent'
    BY DEF TypeOK, CopiesAreCurrent
  <1>5. RemovedIsOut'
    BY DEF TypeOK, RemovedIsOut
  <1>6. NewIsPrivate'
    BY DEF TypeOK, NewIsPrivate
  <1>7. (issued \subseteq tokens)'
    BY DEF NewIsPrivate
  <1>8. DifferenceIsPending'
    BY DEF DifferenceIsPending
  <1>9. RetiredStaysRetired'
    BY DEF RetiredStaysRetired
  <1>10. QED
    BY <1>1, <1>2, <1>3, <1>4, <1>5, <1>6, <1>7, <1>8, <1>9

LEMMA WriteKeeps ==
    ASSUME IInv, NEW r \in Requests, Write(r)
    PROVE  IInv'
  <1> USE NoneAssumption DEF IInv, boot, saved, ghosts, asked, Goto, Continue, Done, Write
  <1>1. TypeOK'
    <2>1. content[r] \subseteq generated /\ tok[r] \in generated \cup {None} /\ new[r] \in generated \cup {None}
      BY DEF TypeOK
    <2>2. retired' \subseteq generated /\ issued' \subseteq generated
      BY <2>1 DEF TypeOK, RemovedIsOut
    <2>3. at' \in [Requests -> Steps] /\ content' \in [Requests -> SUBSET generated]
      BY <2>1 DEF TypeOK, Steps
    <2>4. /\ tok' \in [Requests -> generated \cup {None}] /\ new' \in [Requests -> generated \cup {None}]
          /\ \A q \in Requests : at'[q] \notin {"truncate", "write"} => new'[q] = None
      BY <2>1 DEF TypeOK, Steps
    <2>5. QED
      BY <2>1, <2>2, <2>3, <2>4 DEF TypeOK
  <1>2. BootIsMade'
    BY DEF BootIsMade
  <1>3. OneExchangePerRun'
    BY DEF OneExchangePerRun
  <1>4. CopiesAreCurrent'
    BY DEF TypeOK, CopiesAreCurrent
  <1>5. RemovedIsOut'
    BY DEF TypeOK, RemovedIsOut
  <1>6. NewIsPrivate'
    BY DEF TypeOK, NewIsPrivate
  <1>7. (issued \subseteq tokens)'
    BY DEF NewIsPrivate
  <1>8. DifferenceIsPending'
    BY DEF DifferenceIsPending, CopiesAreCurrent
  <1>9. RetiredStaysRetired'
    BY DEF RetiredStaysRetired, CopiesAreCurrent, RemovedIsOut
  <1>10. QED
    BY <1>1, <1>2, <1>3, <1>4, <1>5, <1>6, <1>7, <1>8, <1>9

LEMMA WriteFailsKeeps ==
    ASSUME IInv, NEW r \in Requests, WriteFails(r)
    PROVE  IInv'
  <1> USE NoneAssumption DEF IInv, boot, saved, ghosts, asked, Goto, Continue, Done, WriteFails
  <1>1. TypeOK'
    BY DEF TypeOK, Steps
  <1>2. BootIsMade'
    BY DEF BootIsMade
  <1>3. OneExchangePerRun'
    BY DEF OneExchangePerRun
  <1>4. CopiesAreCurrent'
    BY DEF TypeOK, CopiesAreCurrent
  <1>5. RemovedIsOut'
    BY DEF TypeOK, RemovedIsOut
  <1>6. NewIsPrivate'
    BY DEF TypeOK, NewIsPrivate
  <1>7. (issued \subseteq tokens)'
    BY DEF NewIsPrivate
  <1>8. DifferenceIsPending'
    BY DEF DifferenceIsPending
  <1>9. RetiredStaysRetired'
    BY DEF RetiredStaysRetired, CopiesAreCurrent
  <1>10. QED
    BY <1>1, <1>2, <1>3, <1>4, <1>5, <1>6, <1>7, <1>8, <1>9

LEMMA DropKeeps ==
    ASSUME IInv, NEW r \in Requests, Drop(r)
    PROVE  IInv'
  <1> USE NoneAssumption DEF IInv, boot, saved, ghosts, asked, Goto, Done, Drop
  <1>1. TypeOK'
    BY DEF TypeOK, Steps
  <1>2. BootIsMade'
    BY DEF BootIsMade
  <1>3. OneExchangePerRun'
    BY DEF OneExchangePerRun
  <1>4. CopiesAreCurrent'
    BY DEF TypeOK, CopiesAreCurrent
  <1>5. RemovedIsOut'
    BY DEF TypeOK, RemovedIsOut
  <1>6. NewIsPrivate'
    BY DEF TypeOK, NewIsPrivate
  <1>7. (issued \subseteq tokens)'
    OBVIOUS
  <1>8. DifferenceIsPending'
    <2>1. (FileIsWhole' => FileIsWhole) /\ (dropped => dropped')
      BY DEF TypeOK, FileIsWhole
    <2>2. CASE at[r] = "truncate"
      <3>1. dropped' /\ \A t \in tokens : (\E q \in Requests : new[q] = t) => t \notin issued
        BY <2>2 DEF TypeOK, NewIsPrivate
      <3>2. QED
        BY <2>1, <3>1 DEF DifferenceIsPending
    <2>3. CASE at[r] # "truncate"
      <3>1. \A q \in Requests : at[q] = "truncate" =>
              at'[q] = "truncate" /\ new'[q] = new[q] /\ tok'[q] = tok[q]
        BY <2>3 DEF TypeOK
      <3>2. QED
        BY <2>1, <3>1 DEF DifferenceIsPending
    <2>4. QED
      BY <2>2, <2>3
  <1>9. RetiredStaysRetired'
    BY DEF RetiredStaysRetired
  <1>10. QED
    BY <1>1, <1>2, <1>3, <1>4, <1>5, <1>6, <1>7, <1>8, <1>9

LEMMA RestartKeeps ==
    ASSUME IInv, Restart
    PROVE  IInv'
  <1> USE NoneAssumption DEF IInv, asked
  <1>a. PICK left \in Torn : file' = left /\ tokens' = left /\ issued' = issued \cap left
    BY DEF Restart
  <1>b. left \subseteq generated /\ left \cap retired = {}
    BY DEF TypeOK, CopiesAreCurrent, RetiredStaysRetired, Torn
  <1>c. /\ at' = [r \in Requests |-> "idle"] /\ new' = [r \in Requests |-> None]
        /\ kind' = [r \in Requests |-> "add"] /\ tok' = [r \in Requests |-> None]
        /\ content' = [r \in Requests |-> {}]
        /\ failed' = FALSE /\ dropped' = FALSE /\ exchanges' = 0
        /\ UNCHANGED <<generated, retired>>
    BY DEF Restart
  <1>d. /\ bootFile' \in BootTokens \cup {None} /\ bootMem' \in BootTokens \cup {None}
        /\ bootMade \subseteq bootMade' /\ bootMade' \subseteq BootTokens
        /\ {bootMem', bootFile'} \subseteq bootMade' \cup {None}
    BY DEF TypeOK, BootIsMade, Restart, LoadOrCreate
  <1>1. TypeOK'
    <2>1. (/\ tokens \subseteq generated /\ file \subseteq generated
           /\ issued \subseteq generated /\ retired \subseteq generated
           /\ generated \subseteq Tokens)'
      BY <1>a, <1>b, <1>c DEF TypeOK
    <2>2. (/\ at \in [Requests -> Steps] /\ kind \in [Requests -> Kinds]
           /\ tok \in [Requests -> generated \cup {None}]
           /\ new \in [Requests -> generated \cup {None}]
           /\ content \in [Requests -> SUBSET generated]
           /\ \A r \in Requests : at[r] \notin {"truncate", "write"} => new[r] = None)'
      BY <1>c DEF Steps, Kinds
    <2>3. QED
      BY <1>c, <1>d, <2>1, <2>2 DEF TypeOK
  <1>2. BootIsMade'
    BY <1>d DEF BootIsMade
  <1>3. OneExchangePerRun'
    BY <1>c DEF OneExchangePerRun
  <1>4. CopiesAreCurrent'
    BY <1>c DEF CopiesAreCurrent
  <1>5. RemovedIsOut'
    BY <1>c DEF RemovedIsOut
  <1>6. NewIsPrivate'
    BY <1>c DEF NewIsPrivate
  <1>7. (issued \subseteq tokens)'
    BY <1>a
  <1>8. DifferenceIsPending'
    BY <1>a DEF DifferenceIsPending
  <1>9. RetiredStaysRetired'
    BY <1>a, <1>b, <1>c DEF RetiredStaysRetired
  <1>10. QED
    BY <1>1, <1>2, <1>3, <1>4, <1>5, <1>6, <1>7, <1>8, <1>9

LEMMA RegenerateKeeps ==
    ASSUME IInv, Regenerate
    PROVE  IInv'
  <1> USE NoneAssumption DEF IInv, boot, saved, ghosts, asked, Regenerate
  <1>1. TypeOK'
    BY DEF TypeOK
  <1>2. BootIsMade'
    BY DEF BootIsMade
  <1>3. OneExchangePerRun'
    BY DEF OneExchangePerRun
  <1>4. CopiesAreCurrent'
    BY DEF CopiesAreCurrent
  <1>5. RemovedIsOut'
    BY DEF RemovedIsOut
  <1>6. NewIsPrivate'
    BY DEF NewIsPrivate
  <1>7. (issued \subseteq tokens)'
    OBVIOUS
  <1>8. DifferenceIsPending'
    BY DEF DifferenceIsPending, FileIsWhole
  <1>9. RetiredStaysRetired'
    BY DEF RetiredStaysRetired
  <1>10. QED
    BY <1>1, <1>2, <1>3, <1>4, <1>5, <1>6, <1>7, <1>8, <1>9

(* The first start of the daemon satisfies it, and a stutter keeps it. *)
LEMMA InitHolds ==
    ASSUME Init
    PROVE  IInv
  <1> USE NoneAssumption DEF Init
  <1>1. TypeOK
    BY DEF TypeOK, Steps, Kinds
  <1>2. BootIsMade /\ OneExchangePerRun
    BY DEF BootIsMade, OneExchangePerRun
  <1>3. CopiesAreCurrent /\ RemovedIsOut /\ NewIsPrivate
    BY DEF CopiesAreCurrent, RemovedIsOut, NewIsPrivate
  <1>4. DifferenceIsPending /\ RetiredStaysRetired /\ issued \subseteq tokens
    BY DEF DifferenceIsPending, RetiredStaysRetired
  <1>5. QED
    BY <1>1, <1>2, <1>3, <1>4 DEF IInv

LEMMA StutterKeeps ==
    ASSUME IInv, UNCHANGED vars
    PROVE  IInv'
  <1> USE DEF IInv, vars, boot, saved, ghosts, asked
  <1>1. TypeOK' /\ BootIsMade' /\ OneExchangePerRun'
    BY DEF TypeOK, BootIsMade, OneExchangePerRun
  <1>2. CopiesAreCurrent' /\ RemovedIsOut' /\ NewIsPrivate' /\ (issued \subseteq tokens)'
    BY DEF CopiesAreCurrent, RemovedIsOut, NewIsPrivate
  <1>3. DifferenceIsPending' /\ RetiredStaysRetired'
    BY DEF DifferenceIsPending, FileIsWhole, RetiredStaysRetired
  <1>4. QED
    BY <1>1, <1>2, <1>3

(***************************************************************************)
(* The inductive invariant: every step of every handler, every start of    *)
(* the daemon and every `loopwired token` keeps it.                        *)
(***************************************************************************)
THEOREM Invariance == Spec => []IInv
  <1>1. ASSUME IInv, [Next]_vars
        PROVE  IInv'
    <2>1. CASE UNCHANGED vars
      BY <1>1, <2>1, StutterKeeps
    <2>2. CASE Restart
      BY <1>1, <2>2, RestartKeeps
    <2>3. CASE Regenerate
      BY <1>1, <2>3, RegenerateKeeps
    <2>4. ASSUME NEW r \in Requests, Handle(r)
          PROVE  IInv'
      <3>1. CASE BeginExchange(r) \/ Consume(r) \/ BeginInvite(r)
        BY <1>1, <3>1, BeginExchangeKeeps, ConsumeKeeps, BeginInviteKeeps
      <3>2. CASE BeginRemoval(r) \/ Remove(r) \/ Insert(r)
        BY <1>1, <3>2, BeginRemovalKeeps, RemoveKeeps, InsertKeeps
      <3>3. CASE Truncate(r) \/ OpenFails(r) \/ Write(r) \/ WriteFails(r)
        BY <1>1, <3>3, TruncateKeeps, OpenFailsKeeps, WriteKeeps, WriteFailsKeeps
      <3>4. CASE Drop(r)
        BY <1>1, <3>4, DropKeeps
      <3>5. QED
        BY <2>4, <3>1, <3>2, <3>3, <3>4 DEF Handle
    <2>5. QED
      BY <1>1, <2>1, <2>2, <2>3, <2>4 DEF Next
  <1>2. Init => IInv
    BY InitHolds
  <1>3. QED
    BY <1>1, <1>2, PTL DEF Spec

(* Every variable of the token store keeps its type (TokenStore, auth.rs). *)
THEOREM TypeCorrect == Spec => []TypeOK
  <1>1. IInv => TypeOK
    BY DEF IInv
  <1>2. QED
    BY <1>1, Invariance, PTL

(* However many exchange requests race between validate_bootstrap and      *)
(* consume_bootstrap, a start of the daemon grants at most one.            *)
THEOREM OneExchange == Spec => []OneExchangePerRun
  <1>1. IInv => OneExchangePerRun
    BY DEF IInv
  <1>2. QED
    BY <1>1, Invariance, PTL

(* No save that overlaps a revocation or a rotation, and no crash in the   *)
(* middle of one, brings a retired session token back (persist_sessions).  *)
THEOREM RetiredForGood == Spec => []RetiredStaysRetired
  <1>1. IInv => RetiredStaysRetired
    BY DEF IInv
  <1>2. QED
    BY <1>1, Invariance, PTL

(* While saves go well, the file has every token a client was given        *)
(* (add_session_token, persist_sessions).                                  *)
THEOREM IssuedIsSaved == Spec => []IssuedSurvivesRestart
  <1>1. IInv => IssuedSurvivesRestart
    <2> SUFFICES ASSUME IInv, ~failed, FileIsWhole
                 PROVE  issued \subseteq file
      BY DEF IssuedSurvivesRestart
    <2>1. ASSUME NEW t \in issued, t \notin file
          PROVE  FALSE
      <3>1. PICK r \in Requests : at[r] = "truncate" /\ new[r] = t
        BY <2>1 DEF IInv, DifferenceIsPending
      <3>2. t # None
        BY <2>1, NoneAssumption DEF IInv, TypeOK
      <3>3. QED
        BY <2>1, <3>1, <3>2 DEF IInv, NewIsPrivate
    <2>2. QED
      BY <2>1
  <1>2. QED
    BY <1>1, Invariance, PTL

(* When no handler runs and saves went well, memory and disk agree, unless *)
(* a handler was dropped between its change and its save and nothing was   *)
(* saved since (add_session_token, revoke_session, rotate_session).        *)
THEOREM QuietIsSaved == Spec => []QuietMeansSaved
  <1>1. IInv => QuietMeansSaved
    BY DEF IInv, DifferenceIsPending, QuietMeansSaved, FileIsWhole
  <1>2. QED
    BY <1>1, Invariance, PTL

-----------------------------------------------------------------------------
(* The pid file.                                                           *)

Place == {"gone", "begun", "read", "stale", "clear", "wrote", "serving", "stopping", "removed", "draining",
          "dying", "signal", "polling", "polled", "killed", "living"}

Process == [kind: Commands \cup Programs, at: Place, sees: Pids \cup {Absent}, wants: Ports \cup {Absent}]

TypeInv ==
  /\ pidFile \in Pids \cup {Absent}
  /\ proc \in [Pids -> Process]
  /\ holder \in [Ports -> Pids \cup {Absent}]
  /\ overlap \in BOOLEAN /\ struck \in BOOLEAN

\* A daemon that answers, or is shutting down and has not removed the file yet.
Up(p) == At(p, {"run"}, "serving") \/ At(p, {"run"}, "stopping")

\* stop between its check of the pid and its last signal.
Checking(s) == proc[s].kind = "stop" /\ proc[s].at \in {"signal", "polling", "polled"}

StartsAlone == \A p, q \in Pids : Starting(p) /\ InProgress(q) => p = q
NamesUp == \A p \in Pids : Up(p) \/ At(p, {"run"}, "wrote") => pidFile = p
SeesUp == \A p, q \in Pids : Up(p) /\ (At(q, Commands, "read") \/ Checking(q)) => proc[q].sees = p
NoneUp == \A p, q \in Pids :
  At(q, Commands, "stale") \/ At(q, {"run"}, "clear") \/ At(q, {"stop"}, "killed") => ~Up(p)

\* A listener belongs to a daemon, and a daemon has a port to listen on.
Listening ==
  /\ \A x \in Ports : holder[x] # Absent =>
       /\ proc[holder[x]].kind = "run"
       /\ proc[holder[x]].at \in {"serving", "stopping", "removed", "dying"}
  /\ \A p \in Pids : proc[p].kind \in {"start", "run"} => proc[p].wants \in Ports

\* The pid that a stop has checked is no program that was there before.
Checked ==
  /\ \A s \in Pids : Checking(s) =>
       /\ proc[s].sees \in Pids
       /\ ~(proc[proc[s].sees].kind = "other" /\ IsAlive(proc[s].sees))
  /\ ~struck

Alone == StartsAlone /\ NamesUp /\ SeesUp /\ NoneUp

DaemonInv == TypeInv /\ Listening /\ Checked /\ (~overlap => Alone)
-----------------------------------------------------------------------------

USE AbsentIsNoPid DEF Process, Place, Commands, Programs, IsAlive, At, GoesTo, Gone, Nobody, Released

\* A new process has its own pid, so nobody else's place changes, and it either meets a starting
\* daemon (overlap) or leaves StartsAlone as it was.
LEMMA BeginKeeps ==
  ASSUME NEW p \in Pids, NEW what \in Commands, NEW x \in Ports \cup {Absent},
              what \in {"start", "run"} => x \in Ports, DaemonInv, Begin(what, p, x)
  PROVE  DaemonInv'
<1>1. TypeInv' /\ Listening' /\ Checked'
  BY DEF Begin, Born, Meets, DaemonInv, TypeInv, Listening, Checked, Checking
<1>2. ASSUME ~overlap' PROVE Alone'
  <2>1. ~overlap /\ Alone
    BY <1>2 DEF Begin, Born, Meets, DaemonInv
  <2> USE <1>2, <2>1 DEF Begin, Born, Meets, DaemonInv, TypeInv, Up, Checking, Starting, InProgress
  <2>2. StartsAlone'
    BY DEF Alone, StartsAlone
  <2>3. NamesUp' /\ NoneUp'
    BY DEF Alone, NamesUp, NoneUp
  <2>4. SeesUp'
    BY DEF Alone, SeesUp
  <2> QED
    BY <2>2, <2>3, <2>4 DEF Alone
<1> QED
  BY <1>1, <1>2 DEF DaemonInv

\* The pid that is read is the pid of whoever is up (NamesUp), so SeesUp holds of the reader from here on.
LEMMA ReadKeeps ==
  ASSUME NEW p \in Pids, DaemonInv, Read(p)
  PROVE  DaemonInv'
<1>1. TypeInv' /\ Listening' /\ Checked'
  BY DEF Read, DaemonInv, TypeInv, Listening, Checked, Checking
<1>2. ASSUME ~overlap' PROVE Alone'
  BY <1>2 DEF Read, DaemonInv, TypeInv, Alone, StartsAlone, NamesUp, SeesUp, NoneUp,
     Up, Checking, Starting, InProgress
<1> QED
  BY <1>1, <1>2 DEF DaemonInv

LEMMA BailKeeps ==
  ASSUME NEW p \in Pids, DaemonInv, Bail(p)
  PROVE  DaemonInv'
<1>1. TypeInv' /\ Listening' /\ Checked'
  BY DEF Bail, DaemonInv, TypeInv, Listening, Checked, Checking
<1>2. ASSUME ~overlap' PROVE Alone'
  BY <1>2 DEF Bail, DaemonInv, TypeInv, Alone, StartsAlone, NamesUp, SeesUp, NoneUp,
     Up, Checking, Starting, InProgress
<1> QED
  BY <1>1, <1>2 DEF DaemonInv

\* A pid that is not found was of no daemon: whoever is up has been seen (SeesUp) and would be found.
LEMMA FindsStaleKeeps ==
  ASSUME NEW p \in Pids, DaemonInv, FindsStale(p)
  PROVE  DaemonInv'
<1>1. TypeInv' /\ Listening' /\ Checked'
  BY DEF FindsStale, Found, LooksLikeLoopwired, DaemonInv, TypeInv, Listening, Checked, Checking
<1>2. ASSUME ~overlap' PROVE Alone'
  BY <1>2 DEF FindsStale, Found, LooksLikeLoopwired, DaemonInv, TypeInv, Alone, StartsAlone, NamesUp, SeesUp, NoneUp,
     Up, Checking, Starting, InProgress
<1> QED
  BY <1>1, <1>2 DEF DaemonInv

\* None is up (NoneUp), so nobody's name is removed.
LEMMA CleanUpKeeps ==
  ASSUME NEW p \in Pids, DaemonInv, CleanUp(p)
  PROVE  DaemonInv'
<1>1. TypeInv' /\ Listening' /\ Checked'
  BY DEF CleanUp, DaemonInv, TypeInv, Listening, Checked, Checking
<1>2. ASSUME ~overlap' PROVE Alone'
  BY <1>2 DEF CleanUp, DaemonInv, TypeInv, Alone, StartsAlone, NamesUp, SeesUp, NoneUp,
     Up, Checking, Starting, InProgress
<1> QED
  BY <1>1, <1>2 DEF DaemonInv

\* Nothing was read, and whoever is up would have been (SeesUp): none is.
LEMMA NoPidKeeps ==
  ASSUME NEW p \in Pids, DaemonInv, NoPid(p)
  PROVE  DaemonInv'
<1>1. TypeInv' /\ Listening' /\ Checked'
  BY DEF NoPid, DaemonInv, TypeInv, Listening, Checked, Checking
<1>2. ASSUME ~overlap' PROVE Alone'
  BY <1>2 DEF NoPid, DaemonInv, TypeInv, Alone, StartsAlone, NamesUp, SeesUp, NoneUp,
     Up, Checking, Starting, InProgress
<1> QED
  BY <1>1, <1>2 DEF DaemonInv

\* The run takes the place of the start that spawns it.
LEMMA SpawnKeeps ==
  ASSUME NEW p \in Pids, NEW q \in Pids, DaemonInv, Spawn(p, q)
  PROVE  DaemonInv'
<1>1. TypeInv' /\ Listening' /\ Checked'
  BY DEF Spawn, Born, Meets, DaemonInv, TypeInv, Listening, Checked, Checking
<1>2. ASSUME ~overlap' PROVE Alone'
  <2>1. ~overlap /\ Alone
    BY <1>2 DEF Spawn, Born, Meets, DaemonInv
  <2> USE <1>2, <2>1 DEF Spawn, Born, Meets, DaemonInv, TypeInv, Up, Checking, Starting, InProgress
  <2>2. StartsAlone'
    BY ZenonT(60) DEF Alone, StartsAlone
  <2>3. NamesUp' /\ NoneUp'
    BY DEF Alone, NamesUp, NoneUp
  <2>4. SeesUp'
    BY DEF Alone, SeesUp
  <2> QED
    BY <2>2, <2>3, <2>4 DEF Alone
<1> QED
  BY <1>1, <1>2 DEF DaemonInv

\* None is up (NoneUp) and no other is starting (StartsAlone): nobody else's name is lost.
LEMMA WritePidKeeps ==
  ASSUME NEW p \in Pids, DaemonInv, WritePid(p)
  PROVE  DaemonInv'
<1>1. TypeInv' /\ Listening' /\ Checked'
  BY DEF WritePid, DaemonInv, TypeInv, Listening, Checked, Checking
<1>2. ASSUME ~overlap' PROVE Alone'
  BY <1>2 DEF WritePid, DaemonInv, TypeInv, Alone, StartsAlone, NamesUp, SeesUp, NoneUp,
     Up, Checking, Starting, InProgress
<1> QED
  BY <1>1, <1>2 DEF DaemonInv

LEMMA WriteTornKeeps ==
  ASSUME NEW p \in Pids, DaemonInv, WriteTorn(p)
  PROVE  DaemonInv'
<1>1. TypeInv' /\ Listening' /\ Checked'
  BY DEF WriteTorn, DaemonInv, TypeInv, Listening, Checked, Checking
<1>2. ASSUME ~overlap' PROVE Alone'
  BY <1>2 DEF WriteTorn, DaemonInv, TypeInv, Alone, StartsAlone, NamesUp, SeesUp, NoneUp,
     Up, Checking, Starting, InProgress
<1> QED
  BY <1>1, <1>2 DEF DaemonInv

\* The file names the daemon that binds (NamesUp), and no other command is there to have missed it (StartsAlone).
LEMMA BindKeeps ==
  ASSUME NEW p \in Pids, DaemonInv, Bind(p)
  PROVE  DaemonInv'
<1>1. TypeInv' /\ Listening' /\ Checked'
  BY DEF Bind, DaemonInv, TypeInv, Listening, Checked, Checking
<1>2. ASSUME ~overlap' PROVE Alone'
  BY <1>2 DEF Bind, DaemonInv, TypeInv, Alone, StartsAlone, NamesUp, SeesUp, NoneUp,
     Up, Checking, Starting, InProgress
<1> QED
  BY <1>1, <1>2 DEF DaemonInv

LEMMA BindFailsKeeps ==
  ASSUME NEW p \in Pids, DaemonInv, BindFails(p)
  PROVE  DaemonInv'
<1>1. TypeInv' /\ Listening' /\ Checked'
  BY DEF BindFails, DaemonInv, TypeInv, Listening, Checked, Checking
<1>2. ASSUME ~overlap' PROVE Alone'
  BY <1>2 DEF BindFails, DaemonInv, TypeInv, Alone, StartsAlone, NamesUp, SeesUp, NoneUp,
     Up, Checking, Starting, InProgress
<1> QED
  BY <1>1, <1>2 DEF DaemonInv

LEMMA InterruptKeeps ==
  ASSUME NEW p \in Pids, DaemonInv, Interrupt(p)
  PROVE  DaemonInv'
<1>1. TypeInv' /\ Listening' /\ Checked'
  BY DEF Interrupt, DaemonInv, TypeInv, Listening, Checked, Checking
<1>2. ASSUME ~overlap' PROVE Alone'
  BY <1>2 DEF Interrupt, DaemonInv, TypeInv, Alone, StartsAlone, NamesUp, SeesUp, NoneUp,
     Up, Checking, Starting, InProgress
<1> QED
  BY <1>1, <1>2 DEF DaemonInv

\* Whoever else is up would be named by the file too (NamesUp): there is none.
LEMMA RemovePidKeeps ==
  ASSUME NEW p \in Pids, DaemonInv, RemovePid(p)
  PROVE  DaemonInv'
<1>1. TypeInv' /\ Listening' /\ Checked'
  BY DEF RemovePid, DaemonInv, TypeInv, Listening, Checked, Checking
<1>2. ASSUME ~overlap' PROVE Alone'
  BY <1>2 DEF RemovePid, DaemonInv, TypeInv, Alone, StartsAlone, NamesUp, SeesUp, NoneUp,
     Up, Checking, Starting, InProgress
<1> QED
  BY <1>1, <1>2 DEF DaemonInv

LEMMA CloseListenerKeeps ==
  ASSUME NEW p \in Pids, DaemonInv, CloseListener(p)
  PROVE  DaemonInv'
<1>1. TypeInv' /\ Listening' /\ Checked'
  BY DEF CloseListener, DaemonInv, TypeInv, Listening, Checked, Checking
<1>2. ASSUME ~overlap' PROVE Alone'
  BY <1>2 DEF CloseListener, DaemonInv, TypeInv, Alone, StartsAlone, NamesUp, SeesUp, NoneUp,
     Up, Checking, Starting, InProgress
<1> QED
  BY <1>1, <1>2 DEF DaemonInv

LEMMA DrainedKeeps ==
  ASSUME NEW p \in Pids, DaemonInv, Drained(p)
  PROVE  DaemonInv'
<1>1. TypeInv' /\ Listening' /\ Checked'
  BY DEF Drained, DaemonInv, TypeInv, Listening, Checked, Checking
<1>2. ASSUME ~overlap' PROVE Alone'
  BY <1>2 DEF Drained, DaemonInv, TypeInv, Alone, StartsAlone, NamesUp, SeesUp, NoneUp,
     Up, Checking, Starting, InProgress
<1> QED
  BY <1>1, <1>2 DEF DaemonInv

\* What is killed or crashes takes its listener with it.
LEMMA CrashKeeps ==
  ASSUME NEW p \in Pids, DaemonInv, Crash(p)
  PROVE  DaemonInv'
<1>1. TypeInv' /\ Listening' /\ Checked'
  BY DEF Crash, LooksLikeLoopwired, DaemonInv, TypeInv, Listening, Checked, Checking
<1>2. ASSUME ~overlap' PROVE Alone'
  BY <1>2 DEF Crash, LooksLikeLoopwired, DaemonInv, TypeInv, Alone, StartsAlone, NamesUp, SeesUp, NoneUp,
     Up, Checking, Starting, InProgress
<1> QED
  BY <1>1, <1>2 DEF DaemonInv

\* What is found is a process of loopwired, so no program that was there before.
LEMMA StopFindsKeeps ==
  ASSUME NEW p \in Pids, DaemonInv, StopFinds(p)
  PROVE  DaemonInv'
<1>1. TypeInv' /\ Listening' /\ Checked'
  BY DEF StopFinds, Found, LooksLikeLoopwired, DaemonInv, TypeInv, Listening, Checked, Checking
<1>2. ASSUME ~overlap' PROVE Alone'
  BY <1>2 DEF StopFinds, Found, LooksLikeLoopwired, DaemonInv, TypeInv, Alone, StartsAlone, NamesUp, SeesUp, NoneUp,
     Up, Checking, Starting, InProgress
<1> QED
  BY <1>1, <1>2 DEF DaemonInv

\* What SIGTERM leaves of each process: as it was, gone, or one step further.
Leaving == {"serving", "stopping", "removed", "draining", "dying"}

Outcome(p, r) ==
  \/ proc'[r] = proc[r]
  \/ proc'[r] = Nobody /\ (r = p \/ proc[r].at \notin Leaving)
  \/ r = p /\ proc'[r] = [proc[r] EXCEPT !.at = "polling"]
  \/ proc[r].at = "serving" /\ proc'[r] = [proc[r] EXCEPT !.at = "stopping"]

\* By the state of the process that stop has checked.
LEMMA Felled ==
  ASSUME NEW p \in Pids, DaemonInv, StopTerminates(p)
  PROVE  /\ proc' \in [Pids -> Process]
         /\ ~struck'
         /\ \A r \in Pids : Outcome(p, r)
<1> USE DEF Outcome, Leaving
<1> DEFINE t == proc[p].sees
<1>1. t \in Pids /\ ~struck /\ proc[t].kind # "other"
  BY DEF StopTerminates, DaemonInv, TypeInv, Checked, Checking
<1>2. ~struck' /\ At(p, {"stop"}, "signal") /\ proc \in [Pids -> Process]
  BY <1>1 DEF StopTerminates, DaemonInv, TypeInv
<1>3. CASE t = p
  BY <1>1, <1>2, <1>3 DEF StopTerminates
<1>4. CASE t # p /\ proc[t].at = "serving"
  <2>1. proc' = [proc EXCEPT ![p].at = "polling", ![t].at = "stopping"]
    BY <1>1, <1>2, <1>4 DEF StopTerminates
  <2> QED
    BY <1>1, <1>2, <1>4, <2>1
<1>5. CASE t # p /\ proc[t].at \in {"stopping", "removed", "draining", "dying"}
  <2>1. proc' = [proc EXCEPT ![p].at = "polling"]
    BY <1>1, <1>2, <1>5 DEF StopTerminates
  <2> QED
    BY <1>1, <1>2, <2>1
<1>6. CASE t # p /\ proc[t].at \notin {"serving", "stopping", "removed", "draining", "dying"}
  <2>1. proc' = [proc EXCEPT ![p].at = "polling", ![t] = Nobody]
    BY <1>1, <1>2, <1>6 DEF StopTerminates
  <2> QED
    BY <1>1, <1>2, <1>6, <2>1
<1> QED
  BY <1>1, <1>2, <1>3, <1>4, <1>5, <1>6

\* A daemon that serves becomes one that stops, no other is up, and stop goes on with the same pid.
LEMMA StopTerminatesKeeps ==
  ASSUME NEW p \in Pids, DaemonInv, StopTerminates(p)
  PROVE  DaemonInv'
<1>1. At(p, {"stop"}, "signal") /\ pidFile' = pidFile /\ holder' = holder /\ overlap' = overlap
  BY DEF StopTerminates
<1>2. proc' \in [Pids -> Process] /\ ~struck' /\ \A r \in Pids : Outcome(p, r)
  BY Felled
<1> USE DEF Outcome, Leaving
<1>3. TypeInv'
  <2>1. struck' \in BOOLEAN
    BY DEF StopTerminates
  <2>2. pidFile' \in Pids \cup {Absent} /\ holder' \in [Ports -> Pids \cup {Absent}] /\ overlap' \in BOOLEAN
    BY <1>1 DEF DaemonInv, TypeInv
  <2> QED
    BY <1>2, <2>1, <2>2 DEF TypeInv
<1>4. \A x \in Ports : holder[x] # Absent =>
       proc'[holder[x]].kind = "run" /\ proc'[holder[x]].at \in {"serving", "stopping", "removed", "dying"}
  <2> SUFFICES ASSUME NEW x \in Ports, NEW h \in Pids, h = holder[x], h # Absent
               PROVE  proc'[h].kind = "run" /\ proc'[h].at \in {"serving", "stopping", "removed", "dying"}
    BY DEF DaemonInv, TypeInv
  <2>1. proc[h] \in Process /\ proc[h].kind = "run" /\ proc[h].at \in {"serving", "stopping", "removed", "dying"}
    BY DEF DaemonInv, TypeInv, Listening
  <2>2. h # p /\ Outcome(p, h)
    BY <1>1, <1>2, <2>1
  <2> QED
    BY <2>1, <2>2
<1>5. \A r \in Pids : proc'[r].kind \in {"start", "run"} => proc'[r].wants \in Ports
  <2> SUFFICES ASSUME NEW r \in Pids PROVE proc'[r].kind \in {"start", "run"} => proc'[r].wants \in Ports
    OBVIOUS
  <2>1. proc[r] \in Process /\ (proc[r].kind \in {"start", "run"} => proc[r].wants \in Ports) /\ Outcome(p, r)
    BY <1>2 DEF DaemonInv, TypeInv, Listening
  <2> QED
    BY <2>1
<1>6. TypeInv' /\ Listening'
  BY <1>1, <1>3, <1>4, <1>5 DEF Listening
<1>7. Checked'
  BY <1>1, <1>2 DEF DaemonInv, TypeInv, Checked, Checking
<1>8. ASSUME ~overlap' PROVE Alone'
  <2> USE <1>1, <1>2, <1>8 DEF DaemonInv, TypeInv, Alone, Up, Checking, Starting, InProgress
  <2>1. StartsAlone'
    BY DEF StartsAlone
  <2>2. NamesUp' /\ NoneUp'
    BY DEF NamesUp, NoneUp
  <2>3. SeesUp'
    BY DEF SeesUp
  <2> QED
    BY <2>1, <2>2, <2>3
<1> QED
  BY <1>6, <1>7, <1>8 DEF DaemonInv

LEMMA StopFailsKeeps ==
  ASSUME NEW p \in Pids, DaemonInv, StopFails(p)
  PROVE  DaemonInv'
<1>1. TypeInv' /\ Listening' /\ Checked'
  BY DEF StopFails, DaemonInv, TypeInv, Listening, Checked, Checking
<1>2. ASSUME ~overlap' PROVE Alone'
  BY <1>2 DEF StopFails, DaemonInv, TypeInv, Alone, StartsAlone, NamesUp, SeesUp, NoneUp,
     Up, Checking, Starting, InProgress
<1> QED
  BY <1>1, <1>2 DEF DaemonInv

\* Polling looks at nothing but the pid.
LEMMA StopPolledKeeps ==
  ASSUME NEW p \in Pids, DaemonInv, StopPolled(p)
  PROVE  DaemonInv'
<1>1. TypeInv' /\ Listening' /\ Checked'
  BY DEF StopPolled, DaemonInv, TypeInv, Listening, Checked, Checking
<1>2. ASSUME ~overlap' PROVE Alone'
  BY <1>2 DEF StopPolled, DaemonInv, TypeInv, Alone, StartsAlone, NamesUp, SeesUp, NoneUp,
     Up, Checking, Starting, InProgress
<1> QED
  BY <1>1, <1>2 DEF DaemonInv

\* Whoever is up was seen (SeesUp), so it is the one that is killed, and none is up afterwards (NoneUp).
LEMMA StopKillsKeeps ==
  ASSUME NEW p \in Pids, DaemonInv, StopKills(p)
  PROVE  DaemonInv'
<1>1. TypeInv' /\ Listening' /\ Checked'
  BY DEF StopKills, DaemonInv, TypeInv, Listening, Checked, Checking
<1>2. ASSUME ~overlap' PROVE Alone'
  BY <1>2 DEF StopKills, DaemonInv, TypeInv, Alone, StartsAlone, NamesUp, SeesUp, NoneUp,
     Up, Checking, Starting, InProgress
<1> QED
  BY <1>1, <1>2 DEF DaemonInv

\* None is up (NoneUp): the name that is removed is nobody's.
LEMMA StopEndsKeeps ==
  ASSUME NEW p \in Pids, DaemonInv, StopEnds(p)
  PROVE  DaemonInv'
<1>1. TypeInv' /\ Listening' /\ Checked'
  BY DEF StopEnds, DaemonInv, TypeInv, Listening, Checked, Checking
<1>2. ASSUME ~overlap' PROVE Alone'
  BY <1>2 DEF StopEnds, DaemonInv, TypeInv, Alone, StartsAlone, NamesUp, SeesUp, NoneUp,
     Up, Checking, Starting, InProgress
<1> QED
  BY <1>1, <1>2 DEF DaemonInv

LEMMA DiesKeeps ==
  ASSUME NEW p \in Pids, DaemonInv, Dies(p)
  PROVE  DaemonInv'
<1>1. TypeInv' /\ Listening' /\ Checked'
  BY DEF Dies, DaemonInv, TypeInv, Listening, Checked, Checking
<1>2. ASSUME ~overlap' PROVE Alone'
  BY <1>2 DEF Dies, DaemonInv, TypeInv, Alone, StartsAlone, NamesUp, SeesUp, NoneUp,
     Up, Checking, Starting, InProgress
<1> QED
  BY <1>1, <1>2 DEF DaemonInv

\* A program that gets a pid which a stop has checked is its heir.
LEMMA StrangerKeeps ==
  ASSUME NEW p \in Pids, DaemonInv, Stranger(p)
  PROVE  DaemonInv'
<1>1. TypeInv' /\ Listening' /\ Checked'
  BY DEF Stranger, DaemonInv, TypeInv, Listening, Checked, Checking
<1>2. ASSUME ~overlap' PROVE Alone'
  BY <1>2 DEF Stranger, DaemonInv, TypeInv, Alone, StartsAlone, NamesUp, SeesUp, NoneUp,
     Up, Checking, Starting, InProgress
<1> QED
  BY <1>1, <1>2 DEF DaemonInv

LEMMA StrangerEndsKeeps ==
  ASSUME NEW p \in Pids, DaemonInv, StrangerEnds(p)
  PROVE  DaemonInv'
<1>1. TypeInv' /\ Listening' /\ Checked'
  BY DEF StrangerEnds, DaemonInv, TypeInv, Listening, Checked, Checking
<1>2. ASSUME ~overlap' PROVE Alone'
  BY <1>2 DEF StrangerEnds, DaemonInv, TypeInv, Alone, StartsAlone, NamesUp, SeesUp, NoneUp,
     Up, Checking, Starting, InProgress
<1> QED
  BY <1>1, <1>2 DEF DaemonInv

-----------------------------------------------------------------------------
\* Before the first command there is no daemon.
LEMMA InitDaemonInv == DaemonInit => DaemonInv
<1> SUFFICES ASSUME DaemonInit PROVE DaemonInv
  OBVIOUS
<1>1. TypeInv
  BY DEF DaemonInit, TypeInv
<1>2. \A p \in Pids : proc[p] = Nobody
  BY DEF DaemonInit
<1>3. Listening /\ Checked
  BY <1>2 DEF DaemonInit, Listening, Checked, Checking
<1>4. Alone
  BY <1>2 DEF Alone, StartsAlone, NamesUp, SeesUp, NoneUp, Up, Checking, Starting, InProgress
<1> QED
  BY <1>1, <1>3, <1>4 DEF DaemonInv

\* One case for each group of actions, by their lemmas.
LEMMA NextDaemonInv == DaemonInv /\ [DaemonNext]_daemonVars => DaemonInv'
<1> SUFFICES ASSUME DaemonInv, [DaemonNext]_daemonVars PROVE DaemonInv'
  OBVIOUS
<1>1. CASE UNCHANGED daemonVars
  BY <1>1 DEF daemonVars, DaemonInv, TypeInv, Listening, Checked, Checking, Alone, StartsAlone, NamesUp, SeesUp, NoneUp,
     Up, Starting, InProgress
<1>2. CASE DaemonNext
  <2>1. PICK p \in Pids :
          \/ \E x \in Ports : Begin("start", p, x) \/ Begin("run", p, x)
          \/ Begin("stop", p, Absent) \/ Begin("status", p, Absent)
          \/ Read(p) \/ Bail(p) \/ FindsStale(p) \/ CleanUp(p) \/ NoPid(p)
          \/ \E q \in Pids : Spawn(p, q)
          \/ WritePid(p) \/ WriteTorn(p) \/ Bind(p) \/ BindFails(p)
          \/ Interrupt(p) \/ RemovePid(p) \/ CloseListener(p) \/ Drained(p) \/ Crash(p)
          \/ StopFinds(p) \/ StopTerminates(p) \/ StopFails(p) \/ StopPolled(p) \/ StopKills(p) \/ StopEnds(p)
          \/ Dies(p) \/ Stranger(p) \/ StrangerEnds(p)
    BY <1>2 DEF DaemonNext
  <2>2. ASSUME NEW x \in Ports, Begin("start", p, x) \/ Begin("run", p, x) PROVE DaemonInv'
    BY <2>2, BeginKeeps DEF Commands
  <2>3. CASE Begin("stop", p, Absent) \/ Begin("status", p, Absent)
    BY <2>3, BeginKeeps DEF Commands
  <2>4. CASE Read(p) \/ Bail(p) \/ FindsStale(p) \/ CleanUp(p) \/ NoPid(p)
    BY <2>4, ReadKeeps, BailKeeps, FindsStaleKeeps, CleanUpKeeps, NoPidKeeps
  <2>5. ASSUME NEW q \in Pids, Spawn(p, q) PROVE DaemonInv'
    BY <2>5, SpawnKeeps
  <2>6. CASE WritePid(p) \/ WriteTorn(p) \/ Bind(p) \/ BindFails(p)
    BY <2>6, WritePidKeeps, WriteTornKeeps, BindKeeps, BindFailsKeeps
  <2>7. CASE Interrupt(p) \/ RemovePid(p) \/ CloseListener(p) \/ Drained(p) \/ Crash(p)
    BY <2>7, InterruptKeeps, RemovePidKeeps, CloseListenerKeeps, DrainedKeeps, CrashKeeps
  <2>8. CASE StopFinds(p) \/ StopTerminates(p) \/ StopFails(p) \/ StopPolled(p) \/ StopKills(p) \/ StopEnds(p)
    BY <2>8, StopFindsKeeps, StopTerminatesKeeps, StopFailsKeeps, StopPolledKeeps, StopKillsKeeps, StopEndsKeeps
  <2>9. CASE Dies(p) \/ Stranger(p) \/ StrangerEnds(p)
    BY <2>9, DiesKeeps, StrangerKeeps, StrangerEndsKeeps
  <2> QED
    BY <2>1, <2>2, <2>3, <2>4, <2>5, <2>6, <2>7, <2>8, <2>9
<1> QED
  BY <1>1, <1>2

\* The inductive invariant holds in every behaviour.
LEMMA DaemonInductive == DaemonSpec => []DaemonInv
  BY InitDaemonInv, NextDaemonInv, PTL DEF DaemonSpec

(* However many commands and daemons there are, as long as none runs while *)
(* a daemon starts, the daemon that serves is the one the pid file names   *)
(* (main.rs:199-470): NamesUp.                                             *)
THEOREM PidFileNamed == DaemonSpec => []PidFileNamesTheDaemon
<1>1. DaemonInv => PidFileNamesTheDaemon
  BY DEF DaemonInv, Alone, NamesUp, Up, PidFileNamesTheDaemon
<1> QED
  BY <1>1, DaemonInductive, PTL

(* A daemon that cannot bind has met one that was leaving (main.rs:361,    *)
(* 447): while it has written its pid no other is up, by NamesUp, and the  *)
(* holder of a port that is not up has removed its pid or been killed.     *)
THEOREM PortLost == DaemonSpec => []PortIsLostToALeaverOnly
<1>1. DaemonInv => PortIsLostToALeaverOnly
  <2> SUFFICES ASSUME DaemonInv, ~overlap, NEW p \in Pids, At(p, {"run"}, "wrote"),
                      NEW q, q = holder[proc[p].wants], q # Absent
               PROVE  proc[q].at \in {"removed", "dying"}
    BY DEF PortIsLostToALeaverOnly
  <2>1. q \in Pids /\ proc[q].kind = "run" /\ proc[q].at \in {"serving", "stopping", "removed", "dying"}
    BY DEF DaemonInv, TypeInv, Listening
  <2>2. pidFile = p /\ (Up(q) => pidFile = q)
    BY <2>1 DEF DaemonInv, Alone, NamesUp
  <2>3. ~Up(q)
    BY <2>1, <2>2 DEF Up
  <2> QED
    BY <2>1, <2>3 DEF Up
<1> QED
  BY <1>1, DaemonInductive, PTL

(* No signal of any stop reaches a program that had its pid when that stop *)
(* looked (main.rs:436-449): what it checked was a process of loopwired,   *)
(* and whoever has the pid since is its heir (Checked).                    *)
THEOREM StrangersSpared == DaemonSpec => []StrangersAreSpared
<1>1. DaemonInv => StrangersAreSpared
  BY DEF DaemonInv, Checked, StrangersAreSpared
<1> QED
  BY <1>1, DaemonInductive, PTL
=============================================================================

----------------------------- MODULE TokenStore -----------------------------
(***************************************************************************)
(* The daemon's bootstrap token and its session tokens: TokenStore of      *)
(* lw-api/src/auth.rs, the exchange, rotate and revoke handlers over it,   *)
(* and the two files that outlive the daemon.                              *)
(*                                                                         *)
(* The set of session tokens sits behind a reader-writer lock that is      *)
(* taken anew for every access: a handler changes the set under the write  *)
(* lock, lets go of it, and then saves the set under the read lock.  In    *)
(* between any other handler may run, and two handlers may save at once.   *)
(* std::fs::write first truncates the file and then writes it, so that a   *)
(* daemon killed in between, or a full disk, leaves a part of the set.     *)
(* A client that goes away drops its handler at an await, so also between  *)
(* the change and the save.                                                *)
(* A token and its hash are one value; tokens are random and never repeat. *)
(***************************************************************************)
EXTENDS Naturals

CONSTANTS
    Requests,    \* handlers that run at the same time
    Tokens,      \* the session tokens generate_token can return (a bound)
    BootTokens,  \* the bootstrap tokens it can return (a bound)
    None

ASSUME NoneAssumption == None \notin Tokens /\ None \notin BootTokens

VARIABLES
    bootFile,    \* the bootstrap token on disk
    bootMem,     \* TokenStore::bootstrap_token_hash
    bootMade,    \* every bootstrap token generated so far
    exchanges,   \* exchanges granted since the daemon was started
    tokens,      \* TokenStore::session_token_hashes
    file,        \* the session tokens on disk
    failed,      \* the last save to end failed: only a warning says so
    dropped,     \* a handler was dropped between its change of the set and
                 \* the save of it, and no save has ended since
    generated,   \* every session token generated so far
    issued,      \* live tokens a response handed to a client
    retired,     \* tokens revoked or rotated away, the removal saved
    at,          \* the next step of each handler
    kind,        \* what it was asked: "add", "rotate" or "revoke"
    tok,         \* the bearer token of a rotate or a revoke
    new,         \* the token it is about to hand out
    content      \* what it is writing to the file

boot == <<bootFile, bootMem, bootMade, exchanges>>
saved == <<file, failed, dropped>>
ghosts == <<issued, retired>>
asked == <<kind, tok>>
vars == <<boot, tokens, saved, generated, ghosts, at, asked, new, content>>

Kinds == {"add", "rotate", "revoke"}

(* The steps left in a handler: consume the bootstrap token, take the old  *)
(* token out, put a new token in, open and truncate the file, write it.    *)
Steps == {"idle", "consume", "remove", "insert", "truncate", "write"}

(***************************************************************************)
(* Starting the daemon.  The bootstrap token is read back from its file,   *)
(* or made and written there; nothing looks at how that write went.        *)
(***************************************************************************)
LoadOrCreate ==
    \/ /\ bootFile # None
       /\ bootMem' = bootFile
       /\ UNCHANGED <<bootFile, bootMade>>
    \/ /\ bootFile = None
       /\ \E b \in BootTokens \ bootMade :
             /\ bootMem' = b
             /\ bootFile' \in {b, None}
             /\ bootMade' = bootMade \cup {b}

(* The first start: there was no file. *)
Init ==
    /\ bootMem \in BootTokens
    /\ bootFile \in {bootMem, None} /\ bootMade = {bootMem}
    /\ exchanges = 0
    /\ tokens = {} /\ file = {} /\ failed = FALSE /\ dropped = FALSE
    /\ generated = {} /\ issued = {} /\ retired = {}
    /\ at = [r \in Requests |-> "idle"]
    /\ kind = [r \in Requests |-> "add"]
    /\ tok = [r \in Requests |-> None]
    /\ new = [r \in Requests |-> None]
    /\ content = [r \in Requests |-> {}]

(* What is left of the file when the process dies: a handler that has      *)
(* truncated it may have written any part, and the set has no order.       *)
Torn == IF \E r \in Requests : at[r] = "write"
          THEN UNION {SUBSET content[r] : r \in {q \in Requests : at[q] = "write"}}
          ELSE {file}

(* The daemon stops, whatever its handlers were doing, and is started.     *)
Restart ==
    /\ LoadOrCreate
    /\ exchanges' = 0
    /\ \E left \in Torn :
          /\ file' = left
          /\ tokens' = left
          /\ issued' = issued \cap left
    /\ failed' = FALSE /\ dropped' = FALSE
    /\ at' = [r \in Requests |-> "idle"]
    /\ kind' = [r \in Requests |-> "add"]
    /\ tok' = [r \in Requests |-> None]
    /\ new' = [r \in Requests |-> None]
    /\ content' = [r \in Requests |-> {}]
    /\ UNCHANGED <<generated, retired>>

(* `loopwired token`, another process, replaces the file under a running   *)
(* daemon, which keeps the token it started with.                          *)
Regenerate ==
    /\ \E b \in BootTokens \ bootMade :
          /\ bootFile' \in {b, None}
          /\ bootMade' = bootMade \cup {b}
    /\ UNCHANGED <<bootMem, exchanges, tokens, saved, generated, ghosts,
                   at, asked, new, content>>

Goto(r, step) == at' = [at EXCEPT ![r] = step]

(***************************************************************************)
(* The exchange handler checks the token under the read lock and consumes  *)
(* it under the write lock; the second may find it gone.                   *)
(***************************************************************************)
BeginExchange(r) ==
    /\ at[r] = "idle"
    /\ bootMem # None
    /\ Goto(r, "consume")
    /\ kind' = [kind EXCEPT ![r] = "add"]
    /\ UNCHANGED <<boot, tokens, saved, generated, ghosts, tok, new, content>>

(* Mutant: the caller trusts the check it made before.                     *)
ConsumeUnchecked(r) ==
    /\ at[r] = "consume"
    /\ bootMem' = None
    /\ exchanges' = exchanges + 1
    /\ Goto(r, "insert")
    /\ UNCHANGED <<bootFile, bootMade, tokens, saved, generated, ghosts,
                   asked, new, content>>

Consume(r) ==
    /\ at[r] = "consume"
    /\ \/ /\ bootMem # None
          /\ bootMem' = None
          /\ exchanges' = exchanges + 1
          /\ Goto(r, "insert")
       \/ /\ bootMem = None
          /\ Goto(r, "idle")
          /\ UNCHANGED <<bootMem, exchanges>>
    /\ UNCHANGED <<bootFile, bootMade, tokens, saved, generated, ghosts,
                   asked, new, content>>

(* An accepted invite of a remote share is handed a session token too.     *)
BeginInvite(r) ==
    /\ at[r] = "idle"
    /\ Goto(r, "insert")
    /\ kind' = [kind EXCEPT ![r] = "add"]
    /\ UNCHANGED <<boot, tokens, saved, generated, ghosts, tok, new, content>>

(* A rotate or a revoke passed the middleware: a client sent a token it    *)
(* was given and the set has it.                                           *)
BeginRemoval(r) ==
    /\ at[r] = "idle"
    /\ \E k \in {"rotate", "revoke"}, t \in issued \cap tokens :
          /\ kind' = [kind EXCEPT ![r] = k]
          /\ tok' = [tok EXCEPT ![r] = t]
    /\ Goto(r, "remove")
    /\ UNCHANGED <<boot, tokens, saved, generated, ghosts, new, content>>

(* Mutant: the set is copied, and the lock dropped, before the file is     *)
(* written.                                                                *)
UnlockedAlways == TRUE

(* The write lock is free when nobody is saving under the read lock.       *)
Unlocked == \A r \in Requests : at[r] # "write"

(* Mutant: the removal is not saved.                                       *)
RemoveUnsaved(r) ==
    /\ at[r] = "remove"
    /\ Unlocked
    /\ tokens' = tokens \ {tok[r]}
    /\ issued' = issued \ {tok[r]}
    /\ Goto(r, IF kind[r] = "rotate" THEN "insert" ELSE "idle")
    /\ tok' = [tok EXCEPT ![r] = None]
    /\ UNCHANGED <<boot, saved, generated, retired, kind, new, content>>

(* Only the request that really removed the token goes on.                 *)
Remove(r) ==
    /\ at[r] = "remove"
    /\ Unlocked
    /\ \/ /\ tok[r] \in tokens
          /\ tokens' = tokens \ {tok[r]}
          /\ issued' = issued \ {tok[r]}
          /\ Goto(r, "truncate")
          /\ UNCHANGED tok
       \/ /\ tok[r] \notin tokens
          /\ Goto(r, "idle")
          /\ tok' = [tok EXCEPT ![r] = None]
          /\ UNCHANGED <<tokens, issued>>
    /\ UNCHANGED <<boot, saved, generated, retired, kind, new, content>>

(* Mutant: the new token is handed out without being saved.                *)
InsertUnsaved(r) ==
    /\ at[r] = "insert"
    /\ Unlocked
    /\ \E t \in Tokens \ generated :
          /\ tokens' = tokens \cup {t}
          /\ generated' = generated \cup {t}
          /\ issued' = issued \cup {t}
    /\ Goto(r, "idle")
    /\ tok' = [tok EXCEPT ![r] = None]
    /\ UNCHANGED <<boot, saved, retired, kind, new, content>>

Insert(r) ==
    /\ at[r] = "insert"
    /\ Unlocked
    /\ \E t \in Tokens \ generated :
          /\ tokens' = tokens \cup {t}
          /\ generated' = generated \cup {t}
          /\ new' = [new EXCEPT ![r] = t]
    /\ Goto(r, "truncate")
    /\ UNCHANGED <<boot, saved, ghosts, asked, content>>

(***************************************************************************)
(* persist_sessions.  Truncate takes the read lock, joins the tokens and   *)
(* opens the file; Write ends it and lets go.                              *)
(***************************************************************************)
Done(r) ==
    /\ Goto(r, "idle")
    /\ tok' = [tok EXCEPT ![r] = None]
    /\ new' = [new EXCEPT ![r] = None]
    /\ UNCHANGED kind

(* Mutant: after any save of a rotation, a new token is issued.            *)
ContinueForgetful(r, ok) ==
    /\ content' = [content EXCEPT ![r] = {}]
    /\ failed' = ~ok /\ dropped' = FALSE
    /\ retired' = IF ok /\ new[r] = None THEN retired \cup {tok[r]} ELSE retired
    /\ issued' = issued \cup ({new[r]} \ {None})
    /\ IF kind[r] = "rotate"
         THEN Goto(r, "insert") /\ UNCHANGED <<asked, new>>
         ELSE Done(r)
    /\ UNCHANGED <<boot, tokens, generated>>

(* What the handler does once the save has ended, well or not.             *)
Continue(r, ok) ==
    /\ content' = [content EXCEPT ![r] = {}]
    /\ failed' = ~ok /\ dropped' = FALSE
    /\ \/ /\ new[r] # None                       \* the response goes out
          /\ Done(r)
          /\ issued' = issued \cup {new[r]}
          /\ UNCHANGED retired
       \/ /\ new[r] = None                       \* the old token is gone
          /\ retired' = IF ok THEN retired \cup {tok[r]} ELSE retired
          /\ IF kind[r] = "rotate"
               THEN Goto(r, "insert") /\ UNCHANGED <<asked, new>>
               ELSE Done(r)
          /\ UNCHANGED issued
    /\ UNCHANGED <<boot, tokens, generated>>

Truncate(r) ==
    /\ at[r] = "truncate"
    /\ Goto(r, "write")
    /\ content' = [content EXCEPT ![r] = tokens]
    /\ file' = {}
    /\ UNCHANGED <<boot, tokens, failed, dropped, generated, ghosts, asked, new>>

OpenFails(r) ==
    /\ at[r] = "truncate"
    /\ Continue(r, FALSE)
    /\ UNCHANGED file

Write(r) ==
    /\ at[r] = "write"
    /\ file' = content[r]
    /\ Continue(r, TRUE)

WriteFails(r) ==
    /\ at[r] = "write"
    /\ file' \in SUBSET content[r]
    /\ Continue(r, FALSE)

(***************************************************************************)
(* The client has gone away and the handler is dropped while it waits for  *)
(* a lock.  A save that has its lock runs to its end without an await.     *)
(***************************************************************************)
Drop(r) ==
    /\ at[r] \in {"consume", "remove", "insert", "truncate"}
    /\ dropped' = (dropped \/ at[r] = "truncate")
    /\ Done(r)
    /\ UNCHANGED <<boot, tokens, file, failed, generated, ghosts, content>>

Handle(r) ==
    \/ BeginExchange(r) \/ Consume(r) \/ BeginInvite(r) \/ BeginRemoval(r)
    \/ Remove(r) \/ Insert(r)
    \/ Truncate(r) \/ OpenFails(r) \/ Write(r) \/ WriteFails(r)
    \/ Drop(r)

Next == Restart \/ Regenerate \/ \E r \in Requests : Handle(r)

Spec == Init /\ [][Next]_vars

-----------------------------------------------------------------------------
(***************************************************************************)
(* Every variable has its type, and a handler holds a new token exactly    *)
(* after it put it in and until its response went out.                     *)
(***************************************************************************)
TypeOK ==
    /\ bootFile \in BootTokens \cup {None}
    /\ bootMem \in BootTokens \cup {None}
    /\ bootMade \subseteq BootTokens
    /\ exchanges \in Nat
    /\ tokens \subseteq generated /\ file \subseteq generated
    /\ issued \subseteq generated /\ retired \subseteq generated
    /\ generated \subseteq Tokens
    /\ failed \in BOOLEAN /\ dropped \in BOOLEAN
    /\ at \in [Requests -> Steps]
    /\ kind \in [Requests -> Kinds]
    /\ tok \in [Requests -> generated \cup {None}]
    /\ new \in [Requests -> generated \cup {None}]
    /\ content \in [Requests -> SUBSET generated]
    /\ \A r \in Requests : at[r] \notin {"truncate", "write"} => new[r] = None

(***************************************************************************)
(* However many requests present the bootstrap token at once, and however  *)
(* their checks and their consumptions interleave, one start of the daemon *)
(* grants at most one exchange (validate_bootstrap, consume_bootstrap).    *)
(***************************************************************************)
OneExchangePerRun ==
    /\ exchanges <= 1
    /\ bootMem # None => exchanges = 0

(***************************************************************************)
(* A token whose removal was saved opens nothing again: no save of another *)
(* handler, finished, failed or torn by a crash, and no restart brings it  *)
(* back (revoke_session, rotate_session, persist_sessions).                *)
(***************************************************************************)
RetiredStaysRetired == retired \cap (tokens \cup file) = {}

(* Nobody is between the truncation of the file and its end. *)
FileIsWhole == \A r \in Requests : at[r] # "write"

(***************************************************************************)
(* Once no save is running and the last one to end went well, every token  *)
(* a client holds is in the file: a restart then logs nobody out.          *)
(***************************************************************************)
IssuedSurvivesRestart == ~failed /\ FileIsWhole => issued \subseteq file

(***************************************************************************)
(* When no handler runs and the last save went well, memory and disk       *)
(* agree, whatever order the saves were in (the lock is dropped between    *)
(* the change and the save in all three methods); unless a handler was     *)
(* dropped between its change and the save of it, and nothing was saved    *)
(* since.                                                                  *)
(***************************************************************************)
QuietMeansSaved ==
    (/\ ~failed /\ ~dropped
     /\ \A r \in Requests : at[r] = "idle")
    => tokens = file
=============================================================================

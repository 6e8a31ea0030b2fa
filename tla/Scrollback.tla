----------------------------- MODULE Scrollback -----------------------------
(***************************************************************************)
(* Paging backwards through a session's output: the reader thread pushes   *)
(* into the OutputHistory, the scrollback endpoint (lw-api rest/agent.rs,  *)
(* lw-agent capture_scrollback_raw) cuts pages out of it, and the overlay  *)
(* of the web client (useScrollback.ts) asks for them one at a time while  *)
(* the history keeps moving, or is replaced by that of a new PTY.          *)
(*                                                                         *)
(*   hist, produced  the history of the live PTY, the bytes pushed so far  *)
(*   epoch           which PTY of the session that is                      *)
(*   open            the overlay is mounted                                *)
(*   pages, more     the hook's state: pages in order, the hasMore flag    *)
(*   rendered        the pages of the last render, which is what the       *)
(*                   fetchMore closure sees                                *)
(*   requested       requestedBeforeOffsetsRef                             *)
(*   call            the request in flight (loadingRef is call # None)     *)
(***************************************************************************)
EXTENDS OutputHistory, Sequences

CONSTANTS
    PageBytes,    \* max_bytes of a request
    ChunkSizes,   \* sizes of the reads of the reader thread
    MaxStream,    \* bound: bytes a PTY writes
    MaxEpoch      \* bound: times the PTY is replaced

ASSUME ScrollbackAssumption ==
    /\ PageBytes \in Nat \ {0}
    /\ ChunkSizes \subseteq Nat
    /\ MaxStream \in Nat
    /\ MaxEpoch \in Nat

VARIABLES hist, produced, epoch, open, pages, rendered, more, requested, call

daemon == <<hist, produced, epoch>>
client == <<open, pages, rendered, more, requested, call>>
vars == <<hist, produced, epoch, open, pages, rendered, more, requested, call>>

Before == Nat \cup {None}

Page == [data: SUBSET Nat, start: Nat, end: Nat, more: BOOLEAN, epoch: Nat]

Call == [before: Before, reply: Page \cup {None}]

ASSUME NoneIsNoRecord == None \notin Page \cup Call

TypeOK ==
    /\ hist \in History
    /\ produced \in Nat
    /\ epoch \in Nat
    /\ open \in BOOLEAN
    /\ pages \in Seq(Page)
    /\ rendered \in Seq(Page)
    /\ more \in BOOLEAN
    /\ requested \subseteq Nat
    /\ call \in Call \cup {None}

Init ==
    /\ hist = EmptyHistory
    /\ produced = 0
    /\ epoch = 0
    /\ open = FALSE
    /\ pages = << >>
    /\ rendered = << >>
    /\ more = FALSE
    /\ requested = {}
    /\ call = None

-----------------------------------------------------------------------------
\* The reader thread pushes the n bytes it read.
Read(n) ==
    /\ produced + n =< MaxStream
    /\ hist' \in Pushed(hist, [from |-> produced, to |-> produced + n])
    /\ produced' = produced + n
    /\ UNCHANGED <<epoch, client>>

\* The session gets a new PTY, with a history of its own.
Respawn ==
    /\ epoch < MaxEpoch
    /\ epoch' = epoch + 1
    /\ hist' = EmptyHistory
    /\ produced' = 0
    /\ UNCHANGED client

\* The overlay is mounted: fetchInitial.
FetchInitial ==
    /\ ~open
    /\ open' = TRUE
    /\ pages' = << >>
    /\ rendered' = << >>
    /\ more' = FALSE
    /\ requested' = {}
    /\ call' = [before |-> None, reply |-> None]
    /\ UNCHANGED daemon

\* Mutant of FetchMore: does not remember the cursors it asked for.
FetchMoreAgain ==
    /\ open
    /\ call = None
    /\ rendered # << >>
    /\ rendered[1].more
    /\ requested' = requested \cup {rendered[1].start}
    /\ call' = [before |-> rendered[1].start, reply |-> None]
    /\ UNCHANGED <<daemon, open, pages, rendered, more>>

\* fetchMore, called with the pages of the last render.
FetchMore ==
    /\ open
    /\ call = None
    /\ rendered # << >>
    /\ rendered[1].more
    /\ rendered[1].start \notin requested
    /\ requested' = requested \cup {rendered[1].start}
    /\ call' = [before |-> rendered[1].start, reply |-> None]
    /\ UNCHANGED <<daemon, open, pages, rendered, more>>

\* The page that the PTY of the session, whichever it is now, has for a request.
CaptureScrollbackRaw(before) ==
    LET slice == SliceBefore(hist, before, PageBytes)
    IN  [data |-> slice.data, start |-> slice.start, end |-> slice.end,
         more |-> slice.more, epoch |-> epoch]

\* The daemon answers the request out of the history it has now.
Serve ==
    /\ call # None
    /\ call.reply = None
    /\ call' = [call EXCEPT !.reply = CaptureScrollbackRaw(call.before)]
    /\ UNCHANGED <<daemon, open, pages, rendered, more, requested>>

\* A page that only repeats one already shown means there is no progress.
Repeats(page) ==
    \E i \in DOMAIN rendered :
        rendered[i].start = page.start /\ rendered[i].end = page.end
\* The first page replaces what is shown, a later one goes in front of it.
Receive ==
    /\ call # None
    /\ call.reply # None
    /\ call' = None
    /\ LET page == call.reply
       IN  IF call.before # None /\ Repeats(page)
           THEN more' = FALSE /\ UNCHANGED pages
           ELSE /\ pages' = IF call.before = None
                            THEN <<page>> ELSE <<page>> \o pages
                /\ more' = page.more
    /\ UNCHANGED <<daemon, open, rendered, requested>>

\* The request fails; a failed fetchMore may be asked for again.
Fail ==
    /\ call # None
    /\ call' = None
    /\ requested' = requested \ {call.before}
    /\ UNCHANGED <<daemon, open, pages, rendered, more>>

\* React renders the hook's state.
Render ==
    /\ rendered # pages
    /\ rendered' = pages
    /\ UNCHANGED <<daemon, open, pages, more, requested, call>>

\* The overlay is dismissed; an answer still under way finds nobody.
Dismiss ==
    /\ open
    /\ open' = FALSE
    /\ pages' = << >>
    /\ rendered' = << >>
    /\ more' = FALSE
    /\ requested' = {}
    /\ call' = None
    /\ UNCHANGED daemon

Next ==
    \/ \E n \in ChunkSizes : Read(n)
    \/ Respawn
    \/ FetchInitial
    \/ FetchMore
    \/ Serve
    \/ Receive
    \/ Fail
    \/ Render
    \/ Dismiss

Spec == Init /\ [][Next]_vars

-----------------------------------------------------------------------------
\* The offsets of the history name the bytes its chunks hold, whatever was
\* pushed and evicted: it is a suffix of the stream, within the capacity.
HistoryIsSuffix ==
    /\ WellFormed(hist)
    /\ hist.end = produced
    /\ Retained(hist) = hist.start .. (produced - 1)

\* Every page holds exactly the bytes of the interval it claims, although
\* slice_before walks chunks whose borders never are those of the page.
PagesHoldTheirBytes ==
    \A i \in DOMAIN pages : pages[i].data = pages[i].start .. (pages[i].end - 1)

\* Pages of one PTY join without a hole and without a repeated byte, although
\* history is evicted between two requests and fetchMore may run with the
\* pages of an earlier render.
PagesJoin ==
    \A i \in 1 .. (Len(pages) - 1) :
        /\ pages[i].epoch = pages[i + 1].epoch
        /\ pages[i].start < pages[i].end
        => pages[i].end = pages[i + 1].start

\* When the overlay says there is nothing older, nothing older is retained:
\* the oldest byte shown is at or before the oldest one the history has.
EndIsReal ==
    (open /\ call = None /\ pages # << >> /\ ~more /\ pages[1].epoch = epoch)
        => pages[1].start =< hist.start
=============================================================================

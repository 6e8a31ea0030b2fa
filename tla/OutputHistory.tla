---------------------------- MODULE OutputHistory ----------------------------
(***************************************************************************)
(* The bounded output history of a PTY session (lw-pty, history.rs): the   *)
(* reader thread pushes what it reads, terminal sockets take a snapshot    *)
(* when they attach, and the scrollback endpoint reads pages backwards.    *)
(*                                                                         *)
(* A byte is identified with its position in the stream the process wrote, *)
(* so a chunk is an interval [from, to) of positions.  The offsets the     *)
(* code keeps (start, end, total) are fields of their own: that they name  *)
(* the bytes the chunks really hold is what has to be shown, not assumed.  *)
(* The arithmetic saturates at the machine word in the code; offsets here  *)
(* are unbounded naturals (a session would need 2^64 bytes of output).     *)
(***************************************************************************)
EXTENDS Naturals

CONSTANTS
    MaxBytes,   \* capacity: OUTPUT_HISTORY_MAX_BYTES
    None        \* the absent before_offset of slice_before

ASSUME MaxBytesAssumption == MaxBytes \in Nat
ASSUME NoneAssumption == None \notin Nat

Chunk == {c \in [from: Nat, to: Nat] : c.from < c.to}

\* The VecDeque of chunks is a set: its order is the order of the positions.
History == [chunks: SUBSET Chunk, total: Nat, start: Nat, end: Nat]

EmptyHistory == [chunks |-> {}, total |-> 0, start |-> 0, end |-> 0]

Size(c) == c.to - c.from

\* Saturating subtraction.
Minus(a, b) == IF a > b THEN a - b ELSE 0

Lesser(a, b) == IF a < b THEN a ELSE b

Greater(a, b) == IF a < b THEN b ELSE a

\* The fronts the queue has while it is popped: the first position of each
\* chunk, and the end of the last chunk once the queue is empty.
CutPoints(chunks, last) == {c.from : c \in chunks} \cup {last}
\* `while total_bytes > max_bytes { pop_front }` stops at the first cut that
\* leaves at most MaxBytes.
StopsAt(cuts, total, first, keep) ==
    /\ Minus(total, keep - first) =< MaxBytes
    /\ \A cut \in cuts : cut < keep => Minus(total, cut - first) > MaxBytes

\* Mutant of Pushed: eviction forgets to advance the start offset.
PushedStartKept(h, data) ==
    IF data.from = data.to THEN {h}
    ELSE LET all   == h.chunks \cup {data}
             total == h.total + Size(data)
             cuts  == CutPoints(all, data.to)
         IN  {[chunks |-> {c \in all : c.from >= p[2]},
               total  |-> Minus(total, p[2] - p[1]),
               start  |-> h.start,
               end    |-> h.end + Size(data)] :
                 p \in {q \in cuts \X cuts :
                          /\ \A cut \in cuts : q[1] =< cut
                          /\ StopsAt(cuts, total, q[1], q[2])}}

\* The history after push(data).  A set with one element; an empty buffer
\* leaves the history as it is.
Pushed(h, data) ==
    IF data.from = data.to THEN {h}
    ELSE LET all   == h.chunks \cup {data}
             total == h.total + Size(data)
             cuts  == CutPoints(all, data.to)
         IN  {[chunks |-> {c \in all : c.from >= p[2]},
               total  |-> Minus(total, p[2] - p[1]),
               start  |-> h.start + (p[2] - p[1]),
               end    |-> h.end + Size(data)] :
                 p \in {q \in cuts \X cuts :
                          /\ \A cut \in cuts : q[1] =< cut
                          /\ StopsAt(cuts, total, q[1], q[2])}}

-----------------------------------------------------------------------------
\* The position of the first byte of the front chunk.
Front(h) == CHOOSE f \in {d.from : d \in h.chunks} : \A d \in h.chunks : f =< d.from

\* The cursor of slice_before when it reaches chunk c: the start offset plus
\* the sizes of the chunks before c.
Cursor(h, c) == h.start + (c.from - Front(h))

\* Mutant of CopiedFrom: copies to the end of the chunk, not of the page.
CopiedFromToChunkEnd(h, start, end, c) ==
    LET from == Minus(start, Cursor(h, c))
        to   == Size(c)
    IN  IF from < to /\ to =< Size(c)
        THEN (c.from + from) .. ((c.from + to) - 1)
        ELSE {}

\* What the copying loop of slice_before takes out of the chunks, as the set
\* of stream positions of the bytes copied.
CopiedFrom(h, start, end, c) ==
    LET from == Minus(start, Cursor(h, c))
        to   == Minus(Lesser(end, Cursor(h, c) + Size(c)), Cursor(h, c))
    IN  IF from < to /\ to =< Size(c)
        THEN (c.from + from) .. ((c.from + to) - 1)
        ELSE {}

Copied(h, start, end) == UNION {CopiedFrom(h, start, end, c) : c \in h.chunks}

ClampedEnd(h, before) ==
    Greater(Lesser(IF before = None THEN h.end ELSE before, h.end), h.start)

NothingToSlice(h, before, max) ==
    \/ h.total = 0 \/ max = 0 \/ h.start >= h.end
    \/ ClampedEnd(h, before) =< h.start

\* Mutant of SliceBefore: takes max bytes even when fewer are available.
SliceBeforeFullPage(h, before, max) ==
    IF NothingToSlice(h, before, max)
    THEN [data |-> {}, start |-> h.start, end |-> h.start, more |-> FALSE]
    ELSE LET end   == ClampedEnd(h, before)
             start == end - max
         IN  [data |-> Copied(h, start, end), start |-> start, end |-> end,
              more |-> start > h.start]

\* Mutant of SliceBefore: has_more looks at the wrong end of the history.
SliceBeforeNewer(h, before, max) ==
    IF NothingToSlice(h, before, max)
    THEN [data |-> {}, start |-> h.start, end |-> h.start, more |-> FALSE]
    ELSE LET end   == ClampedEnd(h, before)
             start == end - Lesser(end - h.start, max)
         IN  [data |-> Copied(h, start, end), start |-> start, end |-> end,
              more |-> end < h.end]

\* slice_before(before, max): the page of at most max bytes that ends at
\* `before`, with the offsets it claims to cover.
SliceBefore(h, before, max) ==
    IF NothingToSlice(h, before, max)
    THEN [data |-> {}, start |-> h.start, end |-> h.start, more |-> FALSE]
    ELSE LET end   == ClampedEnd(h, before)
             start == end - Lesser(end - h.start, max)
         IN  [data |-> Copied(h, start, end), start |-> start, end |-> end,
              more |-> start > h.start]

\* The stream positions snapshot() and snapshot_chunked() concatenate.
Retained(h) == UNION {c.from .. (c.to - 1) : c \in h.chunks}

\* snapshot_chunked(max): the retained bytes, cut anew into pieces of max
\* bytes, the last one shorter.
SnapshotChunked(h, max) ==
    IF max = 0 \/ h.total = 0 THEN << >>
    ELSE [i \in 1 .. ((h.total + (max - 1)) \div max) |->
            [from |-> Front(h) + (i - 1) * max,
             to   |-> Front(h) + Lesser(i * max, h.total)]]

-----------------------------------------------------------------------------
\* A history is well formed when its chunks lie end to end over exactly the
\* interval its offsets name.
Accounted(h) ==
    /\ h.start =< h.end
    /\ h.total = h.end - h.start

EndToEnd(h) ==
    /\ \A c \in h.chunks : h.start =< c.from /\ c.from < c.to /\ c.to =< h.end
    /\ \A c, d \in h.chunks : c = d \/ c.to =< d.from \/ d.to =< c.from
    /\ \A p \in h.start .. (h.end - 1) : \E c \in h.chunks : c.from =< p /\ p < c.to

WellFormed(h) ==
    /\ h \in History
    /\ h.total =< MaxBytes
    /\ Accounted(h)
    /\ EndToEnd(h)
=============================================================================

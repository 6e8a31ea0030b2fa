-------------------------- MODULE ScrollbackProofs --------------------------
(***************************************************************************)
(* Proofs about the output history and the pages cut out of it, for every  *)
(* capacity, page size and read size.                                      *)
(***************************************************************************)
EXTENDS Scrollback, SequenceTheorems, TLAPS

(* A well-formed history starts where its first chunk does: eviction and   *)
(* the cursor of slice_before may count from either.                       *)
LEMMA FirstCut ==
    ASSUME NEW h, WellFormed(h), NEW last \in Nat, h.end =< last,
           NEW first \in CutPoints(h.chunks, last),
           \A cut \in CutPoints(h.chunks, last) : first =< cut,
           h.start = h.end => last = h.start
    PROVE  first = h.start
  <1>1. h.start \in Nat /\ h.end \in Nat /\ h.start =< h.end
    BY DEF WellFormed, History, Accounted
  <1>2. \A c \in h.chunks : c.from \in Nat /\ c.to \in Nat /\ h.start =< c.from /\ c.from < c.to
    BY DEF WellFormed, EndToEnd, History, Chunk
  <1>3. CASE h.start = h.end
    <2>1. \A c \in h.chunks : FALSE
      BY <1>1, <1>2, <1>3 DEF WellFormed, EndToEnd
    <2>2. first = last
      BY <2>1 DEF CutPoints
    <2>3. QED
      BY <2>2, <1>3
  <1>4. CASE h.start < h.end
    <2>1. h.start \in h.start .. (h.end - 1)
      BY <1>1, <1>4
    <2>2. PICK c \in h.chunks : c.from =< h.start /\ h.start < c.to
      BY <2>1 DEF WellFormed, EndToEnd
    <2>3. c.from = h.start
      BY <1>1, <1>2, <2>2
    <2>4. first =< h.start
      BY <2>3 DEF CutPoints
    <2>5. first \in Nat /\ h.start =< first
      BY <1>1, <1>2 DEF CutPoints
    <2>6. QED
      BY <1>1, <2>4, <2>5
  <1>5. QED
    BY <1>1, <1>3, <1>4

(* Every push keeps the history well formed, whatever it evicts, and moves *)
(* its end by the bytes pushed; its start never goes back.                 *)
LEMMA PushKeepsWellFormed ==
    ASSUME NEW h, WellFormed(h), NEW data \in [from : Nat, to : Nat],
           data.from = h.end, data.from =< data.to,
           NEW k \in Pushed(h, data)
    PROVE  WellFormed(k) /\ k.end = data.to /\ h.start =< k.start
  <1> DEFINE all   == h.chunks \cup {data}
             total == h.total + Size(data)
             cuts  == CutPoints(all, data.to)
  <1> USE MaxBytesAssumption
  <1>0. h \in History /\ h.start \in Nat /\ h.end \in Nat /\ h.total \in Nat
        /\ data.from \in Nat /\ data.to \in Nat
    BY DEF WellFormed, History
  <1>1. CASE data.from = data.to
    <2>1. k = h
      BY <1>1 DEF Pushed
    <2>2. QED
      BY <2>1, <1>0, <1>1
  <1>2. CASE data.from # data.to
    <2>1. data.from < data.to
      BY <1>0, <1>2
    <2>2. total = data.to - h.start /\ h.start =< h.end /\ total \in Nat
      BY <1>0, <2>1 DEF WellFormed, Accounted, Size
    <2>3. PICK p \in cuts \X cuts :
              /\ \A cut \in cuts : p[1] =< cut
              /\ StopsAt(cuts, total, p[1], p[2])
              /\ k = [chunks |-> {c \in all : c.from >= p[2]},
                      total  |-> Minus(total, p[2] - p[1]),
                      start  |-> h.start + (p[2] - p[1]),
                      end    |-> h.end + Size(data)]
      BY <1>2 DEF Pushed
    <2> DEFINE first == p[1]
               keep  == p[2]
    <2>4. first \in cuts /\ keep \in cuts /\ first =< keep /\ \A cut \in cuts : first =< cut
      BY <2>3
    <2>5. \A c \in all : c.from \in Nat /\ c.to \in Nat /\ h.start =< c.from
                         /\ c.from < c.to /\ c.to =< data.to
      BY <1>0, <2>1, <2>2 DEF WellFormed, EndToEnd, History, Chunk
    <2>6. first = h.start
      <3>1. CASE h.start = h.end
        <4>1. \A c \in h.chunks : FALSE
          BY <1>0, <3>1 DEF WellFormed, EndToEnd, History, Chunk
        <4>2. cuts = {data.from, data.to}
          BY <4>1 DEF CutPoints
        <4>3. QED
          BY <4>2, <2>4, <2>1, <1>0, <3>1
      <3>2. CASE h.start # h.end
        <4>1. cuts = CutPoints(h.chunks, data.from) \cup {data.to}
          BY DEF CutPoints
        <4>2. data.from \in cuts /\ first =< data.from
          BY <4>1, <2>4 DEF CutPoints
        <4>3. first \in CutPoints(h.chunks, data.from)
          BY <4>1, <4>2, <2>4, <2>1, <1>0
        <4>4. QED
          BY <4>1, <4>3, <2>4, <1>0, <3>2, FirstCut
      <3>3. QED
        BY <3>1, <3>2
    <2>7. keep \in Nat /\ h.start =< keep /\ keep =< data.to
      BY <2>4, <2>5, <2>6, <1>0 DEF CutPoints
    <2>8. k.start = keep /\ k.end = data.to /\ k.chunks = {c \in all : c.from >= keep}
      BY <2>3, <2>6, <2>7, <1>0, <2>1 DEF Size
    <2>9. k.total = data.to - keep /\ k.total =< MaxBytes
      <3>1. Minus(total, keep - first) = data.to - keep
        BY <2>2, <2>6, <2>7, <1>0 DEF Minus
      <3>2. QED
        BY <3>1, <2>3 DEF StopsAt
    <2>10. k \in History
      <3>1. all \subseteq Chunk
        BY <2>5, <1>0 DEF WellFormed, History, Chunk
      <3>2. k = [chunks |-> k.chunks, total |-> k.total, start |-> k.start, end |-> k.end]
        BY <2>3
      <3>3. QED
        BY <3>1, <3>2, <2>7, <2>8, <2>9, <1>0 DEF History
    <2>11. EndToEnd(k)
      <3>1. \A c \in k.chunks : k.start =< c.from /\ c.from < c.to /\ c.to =< k.end
        BY <2>5, <2>7, <2>8
      <3>2. \A c, d \in all : c = d \/ c.to =< d.from \/ d.to =< c.from
        BY <1>0 DEF WellFormed, EndToEnd
      <3>3. ASSUME NEW q \in k.start .. (k.end - 1)
            PROVE  \E c \in k.chunks : c.from =< q /\ q < c.to
        <4>1. q \in Nat /\ keep =< q /\ q < data.to
          BY <2>7, <2>8, <1>0
        <4>2. PICK c \in all : c.from =< q /\ q < c.to
          <5>1. CASE q < h.end
            <6>1. q \in h.start .. (h.end - 1)
              BY <5>1, <4>1, <2>7, <1>0
            <6>2. QED
              BY <6>1 DEF WellFormed, EndToEnd
          <5>2. CASE h.end =< q
            BY <5>2, <4>1
          <5>3. QED
            BY <5>1, <5>2, <4>1, <1>0
        <4>3. keep # data.to
          BY <4>1, <1>0
        <4>4. PICK d \in all : d.from = keep
          BY <4>3, <2>4 DEF CutPoints
        <4>5. keep =< c.from
          BY <4>1, <4>2, <4>4, <3>2, <2>5, <2>7
        <4>6. QED
          BY <4>2, <4>5, <2>5, <2>7, <2>8
      <3>4. QED
        BY <3>1, <3>2, <3>3, <2>8 DEF EndToEnd
    <2>12. QED
      BY <2>7, <2>8, <2>9, <2>10, <2>11 DEF WellFormed, Accounted
  <1>3. QED
    BY <1>1, <1>2

(* In a well-formed history the cursor of slice_before is the position of  *)
(* the chunk it stands at.                                                 *)
LEMMA CursorIsPosition ==
    ASSUME NEW h, WellFormed(h), NEW c \in h.chunks
    PROVE  Cursor(h, c) = c.from
  <1>1. \A d \in h.chunks : d.from \in Nat /\ d.to \in Nat /\ h.start =< d.from
                            /\ d.from < d.to /\ d.to =< h.end
    BY DEF WellFormed, EndToEnd, History, Chunk
  <1>2. h.start \in Nat /\ h.end \in Nat
    BY DEF WellFormed, History
  <1>3. h.start \in h.start .. (h.end - 1)
    BY <1>1, <1>2
  <1>4. PICK d \in h.chunks : d.from =< h.start /\ h.start < d.to
    BY <1>3 DEF WellFormed, EndToEnd
  <1>5. d.from = h.start
    BY <1>1, <1>2, <1>4
  <1>6. Front(h) \in {e.from : e \in h.chunks} /\ \A e \in h.chunks : Front(h) =< e.from
    BY <1>1, <1>5 DEF Front
  <1>7. Front(h) = h.start
    BY <1>1, <1>2, <1>5, <1>6
  <1>8. Cursor(h, c) = h.start + (c.from - Front(h))
    BY DEF Cursor
  <1>9. QED
    BY <1>1, <1>2, <1>7, <1>8

(* The copying loop takes exactly the bytes of the interval, wherever the  *)
(* chunk borders are.                                                      *)
LEMMA CopiedIsInterval ==
    ASSUME NEW h, WellFormed(h), NEW start \in Nat, NEW end \in Nat,
           h.start =< start, start < end, end =< h.end
    PROVE  Copied(h, start, end) = start .. (end - 1)
  <1>1. \A c \in h.chunks : c.from \in Nat /\ c.to \in Nat /\ c.from < c.to
    BY DEF WellFormed, History, Chunk
  <1>2. ASSUME NEW c \in h.chunks
        PROVE  CopiedFrom(h, start, end, c) =
                 {p \in start .. (end - 1) : c.from =< p /\ p < c.to}
    <2>1. Cursor(h, c) = c.from /\ c.from \in Nat /\ c.to \in Nat /\ c.from < c.to
      BY <1>1, CursorIsPosition
    <2> DEFINE from == Minus(start, c.from)
               to   == Minus(Lesser(end, c.from + Size(c)), c.from)
    <2>2. CopiedFrom(h, start, end, c) =
             IF from < to /\ to =< Size(c)
             THEN (c.from + from) .. ((c.from + to) - 1) ELSE {}
      BY <2>1 DEF CopiedFrom
    <2>3. from = (IF start > c.from THEN start - c.from ELSE 0)
      BY DEF Minus
    <2>4. c.from + Size(c) = c.to /\ Size(c) = c.to - c.from
      BY <2>1 DEF Size
    <2>5. to = (IF end < c.to
                THEN (IF end > c.from THEN end - c.from ELSE 0)
                ELSE c.to - c.from)
      BY <2>1, <2>4 DEF Minus, Lesser
    <2> HIDE DEF from, to
    <2>6. CASE start < c.to /\ c.from < end
      <3>1. from < to /\ to =< Size(c)
        BY <2>1, <2>3, <2>4, <2>5, <2>6
      <3>2. c.from + from = (IF start > c.from THEN start ELSE c.from)
        BY <2>1, <2>3
      <3>3. c.from + to = (IF end < c.to THEN end ELSE c.to)
        BY <2>1, <2>5, <2>6
      <3>4. CopiedFrom(h, start, end, c) = (c.from + from) .. ((c.from + to) - 1)
        BY <2>2, <3>1, Zenon
      <3>5. c.from + from \in Nat /\ c.from + to \in Nat
        BY <2>1, <3>2, <3>3
      <3>6. \A p : p \in CopiedFrom(h, start, end, c) <=>
                   p \in start .. (end - 1) /\ c.from =< p /\ p < c.to
        <4> DEFINE lo == c.from + from
                   hi == c.from + to
        <4>1. lo \in Nat /\ hi \in Nat
          BY <3>5
        <4>2. CopiedFrom(h, start, end, c) = lo .. (hi - 1)
          BY <3>4
        <4>3. lo = (IF start > c.from THEN start ELSE c.from)
              /\ hi = (IF end < c.to THEN end ELSE c.to)
          BY <3>2, <3>3
        <4> HIDE DEF lo, hi
        <4>4. QED
          BY <2>1, <4>1, <4>2, <4>3
      <3>7. QED
        BY <3>6
    <2>7. CASE ~(start < c.to /\ c.from < end)
      <3>1. ~(from < to)
        BY <2>1, <2>3, <2>5, <2>7
      <3>2. CopiedFrom(h, start, end, c) = {}
        BY <2>2, <3>1
      <3>3. QED
        BY <2>1, <2>7, <3>2
    <2>8. QED
      BY <2>6, <2>7
  <1>3. \A p \in start .. (end - 1) : p \in h.start .. (h.end - 1)
    BY DEF WellFormed, History
  <1>4. \A p \in start .. (end - 1) : \E c \in h.chunks : c.from =< p /\ p < c.to
    BY <1>3 DEF WellFormed, EndToEnd
  <1>5. QED
    BY <1>2, <1>4 DEF Copied

(* slice_before returns the bytes its offsets name, ends where it was      *)
(* asked to when that is retained, and denies more only at the start.      *)
LEMMA SliceOfWellFormed ==
    ASSUME NEW h, WellFormed(h), NEW before \in Before, NEW max \in Nat,
           NEW s, s = SliceBefore(h, before, max)
    PROVE  /\ s.start \in Nat /\ s.end \in Nat /\ s.more \in BOOLEAN
           /\ s.data = s.start .. (s.end - 1)
           /\ h.start =< s.start /\ s.start =< s.end /\ s.end =< h.end
           /\ (before # None /\ before =< h.end /\ s.start < s.end) => s.end = before
           /\ (before # None /\ s.start < s.end) => s.end =< before
           /\ s.more => s.start < s.end
           /\ ~s.more => s.start = h.start
  <1>1. h.start \in Nat /\ h.end \in Nat /\ h.start =< h.end
    BY DEF WellFormed, History, Accounted
  <1> DEFINE end   == ClampedEnd(h, before)
             start == end - Lesser(end - h.start, max)
             older == start > h.start
  <1>2. CASE NothingToSlice(h, before, max)
    <2>1. s = [data |-> {}, start |-> h.start, end |-> h.start, more |-> FALSE]
      BY <1>2 DEF SliceBefore
    <2>2. {} = h.start .. (h.start - 1)
      BY <1>1
    <2>3. QED
      BY <1>1, <2>1, <2>2
  <1>3. CASE ~NothingToSlice(h, before, max)
    <2>1. s = [data |-> Copied(h, start, end), start |-> start, end |-> end,
               more |-> older]
      BY <1>3 DEF SliceBefore
    <2>2. end \in Nat /\ h.start < end /\ end =< h.end
          /\ ((before # None /\ before =< h.end) => end = before)
          /\ (before # None => end =< before)
      BY <1>1, <1>3, NoneAssumption DEF ClampedEnd, Greater, Lesser, Before, NothingToSlice
    <2>3. max > 0
      BY <1>3 DEF NothingToSlice
    <2> HIDE DEF end
    <2>4. start \in Nat /\ h.start =< start /\ start < end
      BY <1>1, <2>2, <2>3 DEF Lesser
    <2> HIDE DEF start
    <2>5. Copied(h, start, end) = start .. (end - 1)
      BY <2>2, <2>4, CopiedIsInterval
    <2>6. s.start = start /\ s.end = end /\ s.data = Copied(h, start, end)
      BY <2>1
    <2>7. older \in BOOLEAN /\ (older <=> start > h.start)
      OBVIOUS
    <2> HIDE DEF older
    <2>8. s.more = older
      BY <2>1
    <2>9. QED
      BY <1>1, <2>2, <2>4, <2>5, <2>6, <2>7, <2>8
  <1>4. QED
    BY <1>2, <1>3

-----------------------------------------------------------------------------
(* The inductive invariant.  What makes the pages join is not a guard of   *)
(* fetchMore alone: the render the closure sees is either the current one  *)
(* or lacks exactly the newest page, and then its cursor has been asked    *)
(* for; so a request is always for what lies before the first page.        *)
Sound(page) ==
    /\ page.start =< page.end
    /\ page.data = page.start .. (page.end - 1)
    /\ page.epoch =< epoch
    /\ page.epoch = epoch => page.end =< hist.end

RenderLags ==
    \/ rendered = pages
    \/ /\ pages # << >>
       /\ rendered = Tail(pages)
       /\ rendered # << >> => rendered[1].start \in requested

AsksForThePast ==
    call # None =>
        /\ rendered = pages
        /\ call.before = None => pages = << >>
        /\ call.before # None =>
              /\ pages # << >>
              /\ call.before = pages[1].start
              /\ call.before \in requested

ReplyFits ==
    (call # None /\ call.reply # None) =>
        /\ Sound(call.reply)
        /\ (/\ call.before # None
            /\ call.reply.epoch = pages[1].epoch
            /\ call.reply.start < call.reply.end) => call.reply.end = pages[1].start

IInv ==
    /\ TypeOK
    /\ WellFormed(hist)
    /\ hist.end = produced
    /\ \A i \in DOMAIN pages : Sound(pages[i])
    /\ PagesJoin
    /\ RenderLags
    /\ AsksForThePast
    /\ ReplyFits

(* What putting a page in front of the others does to the sequence.        *)
LEMMA PagePrepended ==
    ASSUME NEW s \in Seq(Page), NEW page \in Page
    PROVE  /\ <<page>> \o s \in Seq(Page)
           /\ <<page>> \o s # << >>
           /\ Len(<<page>> \o s) = Len(s) + 1
           /\ (<<page>> \o s)[1] = page
           /\ \A i \in 1 .. Len(s) : (<<page>> \o s)[i + 1] = s[i]
           /\ Tail(<<page>> \o s) = s
  <1> DEFINE t == <<page>> \o s
  <1>1. <<page>> \in Seq(Page) /\ Len(<<page>>) = 1 /\ <<page>>[1] = page /\ Len(s) \in Nat
    BY LenProperties
  <1>2. /\ t \in Seq(Page)
        /\ Len(t) = 1 + Len(s)
        /\ \A i \in 1 .. 1 + Len(s) : t[i] = IF i =< 1 THEN <<page>>[i] ELSE s[i - 1]
    BY <1>1, ConcatProperties
  <1> HIDE DEF t
  <1>3. t[1] = page /\ \A i \in 1 .. Len(s) : t[i + 1] = s[i]
    BY <1>1, <1>2
  <1>4. t # << >>
    BY <1>1, <1>2, EmptySeq
  <1>5. /\ Tail(t) \in Seq(Page)
        /\ Len(Tail(t)) = Len(t) - 1
        /\ \A i \in 1 .. Len(Tail(t)) : Tail(t)[i] = t[i + 1]
    BY <1>2, <1>4, HeadTailProperties
  <1>6. Tail(t) = s
    BY <1>1, <1>2, <1>3, <1>5, SeqEqual
  <1>7. QED
    BY <1>1, <1>2, <1>3, <1>4, <1>6 DEF t

LEMMA InitHolds == Init => IInv
  <1> SUFFICES ASSUME Init PROVE IInv
    OBVIOUS
  <1>1. EmptyHistory \in History /\ WellFormed(EmptyHistory)
    BY MaxBytesAssumption DEF EmptyHistory, History, WellFormed, Accounted, EndToEnd
  <1>2. hist.end = produced
    BY DEF Init, EmptyHistory
  <1>3. TypeOK
    BY <1>1, EmptySeq DEF Init, TypeOK
  <1>4. QED
    BY <1>1, <1>2, <1>3 DEF Init, IInv, PagesJoin, RenderLags, AsksForThePast, ReplyFits

(* The daemon's own steps leave every page sound.                          *)
LEMMA DaemonStepKeepsPages ==
    ASSUME IInv, hist' \in History, WellFormed(hist)', hist'.end = produced', produced' \in Nat,
           UNCHANGED client,
           \/ epoch' = epoch /\ hist.end =< hist'.end
           \/ epoch' = epoch + 1
    PROVE  IInv'
  <1>1. TypeOK'
    BY DEF IInv, TypeOK, client
  <1>2. hist.end \in Nat /\ hist'.end \in Nat /\ epoch \in Nat /\ epoch' \in Nat
    BY DEF IInv, TypeOK, History
  <1>3. ASSUME NEW page \in Page, Sound(page)
        PROVE  Sound(page)'
    <2>1. page.epoch \in Nat /\ page.end \in Nat
      BY DEF Page
    <2>2. QED
      BY <1>2, <1>3, <2>1 DEF Sound
  <1>4. \A i \in DOMAIN pages : pages[i] \in Page
    BY ElementOfSeq, LenProperties DEF IInv, TypeOK
  <1>5. (\A i \in DOMAIN pages : Sound(pages[i]))'
    BY <1>3, <1>4 DEF IInv, client
  <1>6. PagesJoin'
    BY DEF IInv, PagesJoin, client
  <1>7. RenderLags' /\ AsksForThePast'
    BY DEF IInv, RenderLags, AsksForThePast, client
  <1>8. ReplyFits'
    <2>1. SUFFICES ASSUME call # None, call.reply # None
                   PROVE  Sound(call.reply)'
                          /\ ((/\ call.before # None
                               /\ call.reply.epoch = pages[1].epoch
                               /\ call.reply.start < call.reply.end)
                                => call.reply.end = pages[1].start)
      BY DEF ReplyFits, client, Sound
    <2>2. call.reply \in Page
      BY <2>1 DEF IInv, TypeOK, Call
    <2>3. Sound(call.reply)
      BY <2>1 DEF IInv, ReplyFits
    <2>4. call.reply.epoch \in Nat /\ call.reply.end \in Nat /\ call' = call
      BY <2>2 DEF Page, client
    <2>5. Sound(call.reply)'
      BY <1>2, <2>3, <2>4 DEF Sound
    <2>6. QED
      BY <2>1, <2>5 DEF IInv, ReplyFits
  <1>9. QED
    BY <1>1, <1>5, <1>6, <1>7, <1>8 DEF IInv

LEMMA ReceiveKeepsIInv == IInv /\ Receive => IInv'
  <1> SUFFICES ASSUME IInv, Receive PROVE IInv'
    OBVIOUS
  <1> DEFINE page == call.reply
  <1>1. call # None /\ page # None /\ call' = None /\ UNCHANGED <<hist, produced, epoch, open, rendered, requested>>
    BY DEF Receive, daemon
  <1>2. page \in Page /\ Sound(page) /\ pages \in Seq(Page) /\ rendered = pages
    BY <1>1 DEF IInv, TypeOK, Call, ReplyFits, AsksForThePast
  <1>3. page.start \in Nat /\ page.end \in Nat /\ page.epoch \in Nat /\ page.more \in BOOLEAN
    BY <1>2 DEF Page
  <1>4. CASE call.before # None /\ Repeats(page)
    <2>1. pages' = pages /\ more' = FALSE
      BY <1>4 DEF Receive
    <2>2. TypeOK'
      BY <1>1, <2>1 DEF IInv, TypeOK
    <2>3. QED
      BY <1>1, <1>2, <2>1, <2>2
      DEF IInv, PagesJoin, RenderLags, AsksForThePast, ReplyFits, Sound, WellFormed
  <1>5. CASE ~(call.before # None /\ Repeats(page))
    <2>1. pages' = (IF call.before = None THEN <<page>> ELSE <<page>> \o pages) /\ more' = page.more
      BY <1>5 DEF Receive
    <2>2. call.before = None => pages = << >>
      BY <1>1 DEF IInv, AsksForThePast
    <2>3. pages' = <<page>> \o pages
      BY <1>2, <2>1, <2>2, ConcatEmptySeq, PagePrepended, <<page>> \in Seq(Page)
    <2>4. /\ pages' \in Seq(Page)
          /\ pages' # << >>
          /\ Len(pages') = Len(pages) + 1
          /\ pages'[1] = page
          /\ \A i \in 1 .. Len(pages) : pages'[i + 1] = pages[i]
          /\ Tail(pages') = pages
      BY <1>2, <2>3, PagePrepended
    <2>5. Len(pages) \in Nat /\ DOMAIN pages = 1 .. Len(pages)
          /\ DOMAIN pages' = 1 .. (Len(pages) + 1)
      BY <1>2, <2>4, LenProperties
    <2>6. TypeOK'
      BY <1>1, <1>3, <2>1, <2>4 DEF IInv, TypeOK
    <2>7. \A i \in DOMAIN pages' : Sound(pages'[i])
      <3> SUFFICES ASSUME NEW i \in 1 .. (Len(pages) + 1) PROVE Sound(pages'[i])
        BY <2>5
      <3>1. CASE i = 1
        BY <1>2, <2>4, <3>1
      <3>2. CASE i > 1
        <4>1. i - 1 \in 1 .. Len(pages) /\ pages'[i] = pages[i - 1]
          BY <2>4, <2>5, <3>2
        <4>2. QED
          BY <4>1, <2>5 DEF IInv
      <3>3. QED
        BY <2>5, <3>1, <3>2
    <2>8. PagesJoin'
      <3> SUFFICES ASSUME NEW i \in 1 .. (Len(pages') - 1),
                          pages'[i].epoch = pages'[i + 1].epoch,
                          pages'[i].start < pages'[i].end
                   PROVE  pages'[i].end = pages'[i + 1].start
        BY DEF PagesJoin
      <3>1. CASE i = 1
        <4>1. Len(pages) >= 1 /\ pages'[2] = pages[1] /\ pages'[1] = page
          BY <2>4, <2>5, <3>1
        <4>2. pages # << >>
          BY <4>1, EmptySeq
        <4>3. call.before # None
          BY <2>2, <4>2
        <4>4. QED
          BY <1>1, <3>1, <4>1, <4>3 DEF IInv, ReplyFits
      <3>2. CASE i > 1
        <4>1. i - 1 \in 1 .. (Len(pages) - 1) /\ i - 1 \in 1 .. Len(pages) /\ i \in 1 .. Len(pages)
          BY <2>4, <2>5, <3>2
        <4>2. pages'[i] = pages[i - 1] /\ pages'[i + 1] = pages[(i - 1) + 1]
          BY <2>4, <4>1
        <4>3. QED
          BY <4>1, <4>2 DEF IInv, PagesJoin
      <3>3. QED
        BY <2>4, <2>5, <3>1, <3>2
    <2>9. RenderLags'
      <3>1. rendered # << >> => rendered[1].start \in requested
        <4>1. pages # << >> => call.before = pages[1].start /\ call.before \in requested
          BY <1>1, <2>2 DEF IInv, AsksForThePast
        <4>2. QED
          BY <1>2, <4>1
      <3>2. QED
        BY <1>1, <1>2, <2>4, <3>1 DEF RenderLags
    <2>10. QED
      BY <1>1, <2>4, <2>6, <2>7, <2>8, <2>9
      DEF IInv, AsksForThePast, ReplyFits, Sound, WellFormed
  <1>6. QED
    BY <1>4, <1>5

LEMMA ServeKeepsIInv == IInv /\ Serve => IInv'
  <1> SUFFICES ASSUME IInv, Serve PROVE IInv'
    OBVIOUS
  <1> DEFINE slice == SliceBefore(hist, call.before, PageBytes)
             page  == [data |-> slice.data, start |-> slice.start, end |-> slice.end,
                       more |-> slice.more, epoch |-> epoch]
  <1>1. call # None /\ call' = [call EXCEPT !.reply = page]
        /\ UNCHANGED <<hist, produced, epoch, open, pages, rendered, more, requested>>
    BY DEF Serve, CaptureScrollbackRaw, daemon
  <1>2. call \in Call /\ call.before \in Before /\ WellFormed(hist) /\ epoch \in Nat /\ PageBytes \in Nat
    BY <1>1, ScrollbackAssumption DEF IInv, TypeOK, Call
  <1>3. call'.before = call.before /\ call'.reply = page
    BY <1>1, <1>2 DEF Call
  <1>4. /\ slice.start \in Nat /\ slice.end \in Nat /\ slice.more \in BOOLEAN
        /\ slice.data = slice.start .. (slice.end - 1)
        /\ hist.start =< slice.start /\ slice.start =< slice.end /\ slice.end =< hist.end
        /\ (call.before # None /\ call.before =< hist.end /\ slice.start < slice.end)
              => slice.end = call.before
    BY <1>2, SliceOfWellFormed
  <1> HIDE DEF slice
  <1>5. page \in Page
    BY <1>2, <1>4 DEF Page
  <1>6. Sound(page)
    BY <1>2, <1>4 DEF Sound
  <1>7. call' \in Call /\ call' # None
    <2>1. call' = [before |-> call.before, reply |-> page]
      BY <1>1, <1>2 DEF Call
    <2>2. QED
      BY <1>2, <1>5, <2>1, NoneIsNoRecord DEF Call
  <1> HIDE DEF page
  <1>8. TypeOK'
    BY <1>1, <1>7 DEF IInv, TypeOK
  <1>9. ReplyFits'
    <2>1. call.before # None => pages # << >> /\ call.before = pages[1].start
      BY <1>1 DEF IInv, AsksForThePast
    <2>2. ASSUME call.before # None, page.epoch = pages[1].epoch, page.start < page.end
          PROVE  page.end = pages[1].start
      <3>1. 1 \in DOMAIN pages /\ pages[1] \in Page
        BY <2>1, <2>2, LenProperties, EmptySeq, ElementOfSeq DEF IInv, TypeOK
      <3>2. Sound(pages[1]) /\ pages[1].start \in Nat /\ pages[1].end \in Nat
        BY <3>1 DEF IInv, Page
      <3>3. pages[1].epoch = epoch
        BY <2>2 DEF page
      <3>4. call.before =< hist.end
        BY <1>2, <2>1, <2>2, <3>2, <3>3 DEF Sound, WellFormed, History
      <3>5. QED
        BY <1>4, <2>1, <2>2, <3>4 DEF page
    <2>3. QED
      BY <1>1, <1>3, <1>6, <2>2 DEF ReplyFits, Sound
  <1>10. QED
    BY <1>1, <1>3, <1>7, <1>8, <1>9
    DEF IInv, AsksForThePast, RenderLags, PagesJoin, Sound, WellFormed

LEMMA ReadKeepsIInv == ASSUME NEW n \in ChunkSizes PROVE IInv /\ Read(n) => IInv'
  <1> SUFFICES ASSUME IInv, Read(n) PROVE IInv'
    OBVIOUS
  <1> DEFINE data == [from |-> produced, to |-> produced + n]
  <1>1. n \in Nat /\ produced \in Nat /\ epoch \in Nat /\ WellFormed(hist) /\ hist.end = produced
    BY ScrollbackAssumption DEF IInv, TypeOK
  <1>2. data \in [from : Nat, to : Nat] /\ data.from = hist.end /\ data.from =< data.to
    BY <1>1
  <1>3. hist' \in Pushed(hist, data) /\ produced' = produced + n /\ UNCHANGED <<epoch, client>>
    BY DEF Read
  <1>4. \A k \in Pushed(hist, data) : WellFormed(k) /\ k.end = data.to
    BY <1>1, <1>2, PushKeepsWellFormed
  <1>5. WellFormed(hist') /\ hist'.end = data.to
    BY <1>3, <1>4
  <1>6. hist' \in History /\ hist.end =< hist'.end /\ hist'.end = produced' /\ produced' \in Nat
    BY <1>1, <1>3, <1>5 DEF WellFormed
  <1>7. QED
    BY <1>3, <1>5, <1>6, DaemonStepKeepsPages DEF WellFormed, Accounted, EndToEnd

LEMMA RespawnKeepsIInv == IInv /\ Respawn => IInv'
  <1> SUFFICES ASSUME IInv, Respawn PROVE IInv'
    OBVIOUS
  <1>1. hist' = EmptyHistory /\ produced' = 0 /\ epoch' = epoch + 1 /\ UNCHANGED client
    BY DEF Respawn
  <1>2. hist' \in History /\ WellFormed(hist)' /\ hist'.end = produced' /\ produced' \in Nat
    BY <1>1, MaxBytesAssumption DEF EmptyHistory, History, WellFormed, Accounted, EndToEnd
  <1>3. QED
    BY <1>1, <1>2, DaemonStepKeepsPages

(* The overlay's steps that start, end or abandon a request.               *)
LEMMA ClientStepsKeepIInv ==
    IInv /\ (FetchInitial \/ FetchMore \/ Fail \/ Render \/ Dismiss) => IInv'
  <1> SUFFICES ASSUME IInv PROVE (FetchInitial \/ FetchMore \/ Fail \/ Render \/ Dismiss) => IInv'
    OBVIOUS
  <1> USE DEF daemon
  <1>1. << >> \in Seq(Page) /\ DOMAIN << >> = {} /\ Len(<< >>) = 0
    BY EmptySeq
  <1>2. CASE FetchInitial
    <2>1. call' = [before |-> None, reply |-> None] /\ call' # None /\ call' \in Call
      BY <1>2, NoneIsNoRecord DEF FetchInitial, Call, Before
    <2>2. TypeOK'
      BY <1>1, <1>2, <2>1 DEF FetchInitial, IInv, TypeOK
    <2>3. PagesJoin'
      BY <1>1, <1>2 DEF FetchInitial, PagesJoin
    <2>4. QED
      BY <1>1, <1>2, <2>1, <2>2, <2>3
      DEF FetchInitial, IInv, RenderLags, AsksForThePast, ReplyFits, Sound, WellFormed
  <1>3. CASE FetchMore
    <2>1. rendered = pages
      BY <1>3 DEF FetchMore, IInv, RenderLags
    <2>2. rendered[1] \in Page /\ rendered[1].start \in Nat
      <3>1. 1 \in 1 .. Len(rendered)
        BY <1>3, LenProperties, EmptySeq DEF FetchMore, IInv, TypeOK
      <3>2. rendered[1] \in Page
        BY <3>1, ElementOfSeq DEF IInv, TypeOK
      <3>3. QED
        BY <3>2 DEF Page
    <2>3. call' = [before |-> rendered[1].start, reply |-> None] /\ call' # None /\ call' \in Call
      BY <1>3, <2>2, NoneIsNoRecord DEF FetchMore, Call, Before
    <2>4. TypeOK'
      BY <1>3, <2>2, <2>3 DEF FetchMore, IInv, TypeOK
    <2>5. QED
      BY <1>3, <2>1, <2>2, <2>3, <2>4, NoneAssumption
      DEF FetchMore, IInv, PagesJoin, RenderLags, AsksForThePast, ReplyFits, Sound, WellFormed
  <1>4. CASE Fail
    <2>1. TypeOK'
      BY <1>4 DEF Fail, IInv, TypeOK
    <2>2. RenderLags'
      BY <1>4 DEF Fail, IInv, RenderLags, AsksForThePast
    <2>3. QED
      BY <1>4, <2>1, <2>2
      DEF Fail, IInv, PagesJoin, AsksForThePast, ReplyFits, Sound, WellFormed
  <1>5. CASE Render
    <2>1. TypeOK'
      BY <1>5 DEF Render, IInv, TypeOK
    <2>2. QED
      BY <1>5, <2>1
      DEF Render, IInv, PagesJoin, RenderLags, AsksForThePast, ReplyFits, Sound, WellFormed
  <1>6. CASE Dismiss
    <2>1. TypeOK'
      BY <1>1, <1>6 DEF Dismiss, IInv, TypeOK
    <2>2. PagesJoin'
      BY <1>1, <1>6 DEF Dismiss, PagesJoin
    <2>3. QED
      BY <1>1, <1>6, <2>1, <2>2
      DEF Dismiss, IInv, RenderLags, AsksForThePast, ReplyFits, Sound, WellFormed
  <1>7. QED
    BY <1>2, <1>3, <1>4, <1>5, <1>6

LEMMA StutterKeepsIInv == IInv /\ UNCHANGED vars => IInv'
  BY DEF vars, IInv, TypeOK, PagesJoin, RenderLags, AsksForThePast, ReplyFits, Sound,
         WellFormed, Accounted, EndToEnd, History

-----------------------------------------------------------------------------
(* The inductive invariant holds in every reachable state.                 *)
THEOREM Invariance == Spec => []IInv
  <1>1. Init => IInv
    BY InitHolds
  <1>2. IInv /\ [Next]_vars => IInv'
    BY ReadKeepsIInv, RespawnKeepsIInv, ServeKeepsIInv, ReceiveKeepsIInv,
       ClientStepsKeepIInv, StutterKeepsIInv DEF Next
  <1>3. QED
    BY <1>1, <1>2, PTL DEF Spec

(* Every variable keeps its type.                                          *)
THEOREM TypeCorrect == Spec => []TypeOK
  <1>1. IInv => TypeOK
    BY DEF IInv
  <1>2. QED
    BY <1>1, Invariance, PTL

(* For every capacity and every sequence of reads the history is a suffix  *)
(* of the process's output, within the capacity, under the right offsets.  *)
THEOREM HistorySuffix == Spec => []HistoryIsSuffix
  <1>1. IInv => HistoryIsSuffix
    <2> SUFFICES ASSUME IInv PROVE HistoryIsSuffix
      OBVIOUS
    <2>1. WellFormed(hist) /\ hist.end = produced /\ hist.start \in Nat /\ hist.end \in Nat
      BY DEF IInv, WellFormed, History
    <2>2. \A c \in hist.chunks : c.from \in Nat /\ c.to \in Nat /\ hist.start =< c.from /\ c.to =< hist.end
      BY <2>1 DEF WellFormed, EndToEnd, History, Chunk
    <2>3. \A p \in hist.start .. (hist.end - 1) : \E c \in hist.chunks : c.from =< p /\ p < c.to
      BY <2>1 DEF WellFormed, EndToEnd
    <2>4. Retained(hist) = hist.start .. (hist.end - 1)
      BY <2>1, <2>2, <2>3 DEF Retained
    <2>5. QED
      BY <2>1, <2>4 DEF HistoryIsSuffix
  <1>2. QED
    BY <1>1, Invariance, PTL

(* A page always holds exactly the bytes its offsets name.                 *)
THEOREM PagesCarryTheirBytes == Spec => []PagesHoldTheirBytes
  <1>1. IInv => PagesHoldTheirBytes
    BY DEF IInv, Sound, PagesHoldTheirBytes
  <1>2. QED
    BY <1>1, Invariance, PTL

(* Pages of one PTY always join, whatever is evicted between the requests  *)
(* and however late React renders.                                         *)
THEOREM PagesAlwaysJoin == Spec => []PagesJoin
  <1>1. IInv => PagesJoin
    BY DEF IInv
  <1>2. QED
    BY <1>1, Invariance, PTL
-----------------------------------------------------------------------------
(* What makes the end real: a page without older ones starts where the     *)
(* history of its PTY does, and that only moves on; and the page that is   *)
(* first says what `more` says, for a page that repeats one already shown  *)
(* never comes: whatever is asked for ends before all that is shown.       *)
Told(page) == ~page.more /\ page.epoch = epoch => page.start =< hist.start

Answered ==
    (call # None /\ call.reply # None) =>
        /\ Told(call.reply)
        /\ call.reply.more => call.reply.start < call.reply.end
        /\ (call.before # None /\ call.reply.start < call.reply.end)
              => call.reply.end =< call.before

Ends ==
    /\ pages # << >> => more = pages[1].more
    /\ (call # None /\ call.before # None) => pages[1].more
    /\ \A i \in DOMAIN pages : Told(pages[i]) /\ (i # 1 => pages[i].more)
    /\ \A i, j \in DOMAIN pages : i =< j /\ pages[i].more => pages[i].start < pages[j].end
    /\ Answered

LEMMA FirstOfPages ==
    ASSUME IInv, pages # << >>
    PROVE  1 \in DOMAIN pages /\ Len(pages) \in Nat /\ DOMAIN pages = 1 .. Len(pages)
  BY EmptySeq, LenProperties DEF IInv, TypeOK

LEMMA PageTypes ==
    ASSUME IInv
    PROVE  /\ \A i \in DOMAIN pages : /\ pages[i].start \in Nat /\ pages[i].end \in Nat
                                      /\ pages[i].epoch \in Nat /\ pages[i].more \in BOOLEAN
                                      /\ pages[i].epoch =< epoch
           /\ (call # None /\ call.reply # None) =>
                 /\ call.reply.start \in Nat /\ call.reply.end \in Nat
                 /\ call.reply.epoch \in Nat /\ call.reply.more \in BOOLEAN
                 /\ call.reply.epoch =< epoch
           /\ epoch \in Nat /\ hist.start \in Nat
  <1>1. ASSUME NEW i \in DOMAIN pages PROVE pages[i] \in Page /\ Sound(pages[i])
    BY <1>1, LenProperties, ElementOfSeq DEF IInv, TypeOK
  <1>2. (call # None /\ call.reply # None) => call.reply \in Page /\ Sound(call.reply)
    BY DEF IInv, TypeOK, Call, ReplyFits
  <1>3. QED
    BY <1>1, <1>2 DEF Page, Sound, IInv, TypeOK, History

(* A history that moves on, or a new one, leaves the ends as real as they  *)
(* were.                                                                   *)
LEMMA DaemonStepKeepsEnds ==
    ASSUME IInv, Ends, UNCHANGED client, hist'.start \in Nat,
           \/ epoch' = epoch /\ hist.start =< hist'.start
           \/ epoch' = epoch + 1
    PROVE  Ends'
  <1>1. ASSUME NEW page, page.epoch \in Nat, page.start \in Nat, page.epoch =< epoch, Told(page)
        PROVE  Told(page)'
    BY <1>1, PageTypes DEF Told
  <1>2. \A i \in DOMAIN pages : Told(pages[i])'
    BY <1>1, PageTypes DEF Ends, client
  <1>3. Answered'
    <2>1. CASE call # None /\ call.reply # None
      <3>1. Told(call.reply)'
        BY <1>1, <2>1, PageTypes DEF Ends, Answered, client
      <3>2. QED
        BY <2>1, <3>1 DEF Ends, Answered, client
    <2>2. CASE ~(call # None /\ call.reply # None)
      BY <2>2 DEF Answered, client
    <2>3. QED
      BY <2>1, <2>2
  <1>4. QED
    BY <1>2, <1>3 DEF Ends, client

LEMMA ReadKeepsEnds == ASSUME NEW n \in ChunkSizes PROVE IInv /\ Ends /\ Read(n) => Ends'
  <1> SUFFICES ASSUME IInv, Ends, Read(n) PROVE Ends'
    OBVIOUS
  <1> DEFINE data == [from |-> produced, to |-> produced + n]
  <1>1. n \in Nat /\ produced \in Nat /\ WellFormed(hist) /\ hist.end = produced
    BY ScrollbackAssumption DEF IInv, TypeOK
  <1>2. data \in [from : Nat, to : Nat] /\ data.from = hist.end /\ data.from =< data.to
    BY <1>1
  <1>3. hist' \in Pushed(hist, data) /\ epoch' = epoch /\ UNCHANGED client
    BY DEF Read
  <1>4. \A k \in Pushed(hist, data) : WellFormed(k) /\ hist.start =< k.start
    BY <1>1, <1>2, PushKeepsWellFormed
  <1>5. hist'.start \in Nat /\ hist.start =< hist'.start
    BY <1>3, <1>4 DEF WellFormed, History
  <1>6. QED
    BY <1>3, <1>5, DaemonStepKeepsEnds

LEMMA ServeKeepsEnds == IInv /\ Ends /\ Serve => Ends'
  <1> SUFFICES ASSUME IInv, Ends, Serve PROVE Ends'
    OBVIOUS
  <1>1. PICK slice : slice = SliceBefore(hist, call.before, PageBytes)
    OBVIOUS
  <1>2. PICK page : page = [data |-> slice.data, start |-> slice.start, end |-> slice.end,
                            more |-> slice.more, epoch |-> epoch]
    OBVIOUS
  <1>3. call # None /\ call' = [call EXCEPT !.reply = page]
        /\ UNCHANGED <<hist, produced, epoch, open, pages, rendered, more, requested>>
    BY <1>1, <1>2 DEF Serve, CaptureScrollbackRaw, daemon
  <1>4. call \in Call /\ call.before \in Before /\ WellFormed(hist) /\ PageBytes \in Nat
    BY <1>3, ScrollbackAssumption DEF IInv, TypeOK, Call
  <1>5. call'.before = call.before /\ call'.reply = page
    BY <1>3, <1>4 DEF Call
  <1>6. /\ slice.start \in Nat /\ slice.end \in Nat
        /\ (call.before # None /\ slice.start < slice.end) => slice.end =< call.before
        /\ slice.more => slice.start < slice.end
        /\ ~slice.more => slice.start = hist.start
    BY <1>1, <1>4, SliceOfWellFormed
  <1>7. Told(page)'
    BY <1>2, <1>3, <1>6 DEF Told
  <1>8. Answered'
    BY <1>2, <1>5, <1>6, <1>7 DEF Answered, Told
  <1>9. \A i \in DOMAIN pages : Told(pages[i])'
    BY <1>3 DEF Ends, Told
  <1>10. QED
    BY <1>3, <1>5, <1>8, <1>9 DEF Ends

LEMMA ReceiveKeepsEnds == IInv /\ Ends /\ Receive => Ends'
  <1> SUFFICES ASSUME IInv, Ends, Receive PROVE Ends'
    OBVIOUS
  <1>1. PICK page : page = call.reply
    OBVIOUS
  <1>2. /\ call # None /\ call.reply # None /\ call' = None
        /\ UNCHANGED <<hist, produced, epoch, open, rendered, requested>>
    BY DEF Receive, daemon
  <1>3. /\ page \in Page /\ pages \in Seq(Page) /\ rendered = pages
        /\ call.before = None => pages = << >>
        /\ call.before # None => pages # << >> /\ call.before = pages[1].start
    BY <1>1, <1>2 DEF IInv, TypeOK, Call, AsksForThePast
  <1>4. /\ page.start \in Nat /\ page.end \in Nat /\ page.epoch \in Nat /\ page.more \in BOOLEAN
        /\ Told(page) /\ (page.more => page.start < page.end)
        /\ (call.before # None /\ page.start < page.end) => page.end =< call.before
    BY <1>1, <1>2, PageTypes DEF Ends, Answered
  <1>5. ASSUME call.before # None
        PROVE  /\ 1 \in DOMAIN pages /\ pages[1].more
               /\ \A i \in DOMAIN pages : /\ 1 =< i /\ pages[i].more
                                          /\ pages[i].start < pages[i].end
                                          /\ pages[1].start < pages[i].end
    <2>1. 1 \in DOMAIN pages /\ DOMAIN pages = 1 .. Len(pages) /\ Len(pages) \in Nat
      BY <1>3, <1>5, FirstOfPages
    <2>2. pages[1].more
      BY <1>2, <1>5 DEF Ends
    <2>3. ASSUME NEW i \in DOMAIN pages
          PROVE  1 =< i /\ pages[i].more /\ pages[i].start < pages[i].end /\ pages[1].start < pages[i].end
      <3>1. 1 =< i /\ i =< i /\ pages[i].more
        BY <2>1, <2>2 DEF Ends
      <3>2. QED
        BY <2>1, <2>2, <3>1 DEF Ends
    <2>4. QED
      BY <2>1, <2>2, <2>3
  <1>6. ~(call.before # None /\ Repeats(page))
    <2> SUFFICES ASSUME call.before # None, NEW i \in DOMAIN pages,
                        pages[i].start = page.start, pages[i].end = page.end
                 PROVE  FALSE
      BY <1>3 DEF Repeats
    <2>1. pages[i].start < pages[i].end /\ pages[1].start < pages[i].end
      BY <1>5
    <2>2. pages[1].start \in Nat
      BY <1>5, PageTypes
    <2>3. QED
      BY <1>3, <1>4, <2>1, <2>2
  <1>7. pages' = <<page>> \o pages /\ more' = page.more
    <2>1. pages' = (IF call.before = None THEN <<page>> ELSE <<page>> \o pages) /\ more' = page.more
      BY <1>1, <1>6 DEF Receive
    <2>2. QED
      BY <1>3, <2>1, ConcatEmptySeq, <<page>> \in Seq(Page)
  <1>8. PICK new : new = pages'
    OBVIOUS
  <1>9. /\ new[1] = page /\ Len(pages) \in Nat
        /\ DOMAIN new = 1 .. (Len(pages) + 1) /\ DOMAIN pages = 1 .. Len(pages)
        /\ \A i \in 1 .. Len(pages) : new[i + 1] = pages[i]
    <2>1. new \in Seq(Page) /\ Len(new) = Len(pages) + 1
      BY <1>3, <1>7, <1>8, PagePrepended
    <2>2. QED
      BY <1>3, <1>7, <1>8, <2>1, PagePrepended, LenProperties
  <1>10. ASSUME NEW i \in DOMAIN new, i # 1
         PROVE  /\ i - 1 \in DOMAIN pages /\ i - 1 \in Nat /\ new[i] = pages[i - 1]
                /\ call.before # None
    <2>1. i - 1 \in 1 .. Len(pages)
      BY <1>9, <1>10
    <2>2. new[(i - 1) + 1] = pages[i - 1] /\ (i - 1) + 1 = i
      BY <1>9, <2>1, <1>10
    <2>3. pages # << >>
      BY <1>9, <2>1, EmptySeq
    <2>4. QED
      BY <1>3, <1>9, <2>1, <2>2, <2>3
  <1>11. \A i \in DOMAIN new : Told(new[i]) /\ (i # 1 => new[i].more)
    <2>1. ASSUME NEW i \in DOMAIN new, i # 1 PROVE Told(new[i]) /\ new[i].more
      BY <1>5, <1>10, <2>1 DEF Ends
    <2>2. QED
      BY <1>4, <1>9, <2>1
  <1>12. ASSUME NEW i \in DOMAIN new, NEW j \in DOMAIN new, i =< j, new[i].more
         PROVE  new[i].start < new[j].end
    <2>1. CASE j = 1
      BY <1>4, <1>9, <1>12, <2>1
    <2>2. CASE i = 1 /\ j # 1
      <3>1. /\ page.start < page.end /\ page.end =< pages[1].start
            /\ pages[1].start < pages[j - 1].end /\ new[j] = pages[j - 1] /\ new[i] = page
        BY <1>3, <1>4, <1>5, <1>9, <1>10, <1>12, <2>2
      <3>2. pages[1].start \in Nat /\ pages[j - 1].end \in Nat
        BY <1>5, <1>10, <2>2, PageTypes
      <3>3. QED
        BY <1>4, <3>1, <3>2
    <2>3. CASE i # 1 /\ j # 1
      <3>1. i - 1 =< j - 1
        BY <1>9, <1>12
      <3>2. QED
        BY <1>10, <1>12, <2>3, <3>1 DEF Ends
    <2>4. QED
      BY <1>9, <2>1, <2>2, <2>3
  <1>13. \A i \in DOMAIN new : Told(new[i])'
    BY <1>2, <1>11 DEF Told
  <1>14. Answered'
    BY <1>2 DEF Answered
  <1>15. QED
    BY <1>2, <1>7, <1>8, <1>9, <1>11, <1>12, <1>13, <1>14 DEF Ends

LEMMA ClientStepsKeepEnds ==
    IInv /\ Ends /\ (FetchInitial \/ FetchMore \/ Fail \/ Render \/ Dismiss) => Ends'
  <1> SUFFICES ASSUME IInv, Ends
               PROVE (FetchInitial \/ FetchMore \/ Fail \/ Render \/ Dismiss) => Ends'
    OBVIOUS
  <1> USE DEF daemon
  <1>1. DOMAIN << >> = {}
    BY EmptySeq
  <1>2. CASE FetchInitial \/ Dismiss
    <2>1. /\ pages' = << >> /\ UNCHANGED <<hist, epoch>>
          /\ call' = None \/ (call'.before = None /\ call'.reply = None)
      BY <1>2 DEF FetchInitial, Dismiss
    <2>2. QED
      BY <1>1, <2>1 DEF Ends, Answered, Told
  <1>3. CASE FetchMore
    <2>1. /\ call'.reply = None /\ UNCHANGED <<hist, epoch, pages, more>>
          /\ rendered = pages /\ rendered[1].more
      BY <1>3 DEF FetchMore, IInv, RenderLags
    <2>2. QED
      BY <2>1 DEF Ends, Answered, Told
  <1>4. CASE Fail \/ Render
    <2>1. /\ call' = None \/ call' = call
          /\ UNCHANGED <<hist, epoch, pages, more>>
      BY <1>4 DEF Fail, Render
    <2>2. QED
      BY <2>1 DEF Ends, Answered, Told
  <1>5. QED
    BY <1>2, <1>3, <1>4

(* When the overlay says that nothing older is retained, nothing is,       *)
(* although the history evicts, or is replaced, between question and       *)
(* answer, and an answer that repeats a page would end the paging.         *)
THEOREM EndsAreReal == Spec => []EndIsReal
  <1>1. Init => Ends
    BY EmptySeq DEF Init, Ends, Answered
  <1>2. IInv /\ Ends /\ [Next]_vars => Ends'
    <2> SUFFICES ASSUME IInv, Ends, [Next]_vars PROVE Ends'
      OBVIOUS
    <2>1. CASE Respawn
      <3>1. hist'.start = 0 /\ epoch' = epoch + 1 /\ UNCHANGED client
        BY <2>1 DEF Respawn, EmptyHistory
      <3>2. QED
        BY <3>1, DaemonStepKeepsEnds
    <2>2. CASE UNCHANGED vars
      BY <2>2 DEF vars, Ends, Answered, Told
    <2>3. QED
      BY <2>1, <2>2, ReadKeepsEnds, ServeKeepsEnds, ReceiveKeepsEnds, ClientStepsKeepEnds DEF Next
  <1>3. ASSUME IInv, Ends PROVE EndIsReal
    <2> SUFFICES ASSUME pages # << >>, ~more, pages[1].epoch = epoch
                 PROVE  pages[1].start =< hist.start
      BY DEF EndIsReal
    <2>1. 1 \in DOMAIN pages
      BY <1>3, FirstOfPages
    <2>2. QED
      BY <1>3, <2>1 DEF Ends, Told
  <1>4. QED
    BY <1>1, <1>2, <1>3, Invariance, PTL DEF Spec
=============================================================================

------------------------- MODULE TerminalStreamProofs -------------------------
(***************************************************************************)
(* What a terminal shows, for every size of the history, the channel, the  *)
(* transport and the reads.                                                *)
(*                                                                         *)
(* The browser is shown what it has on the screen and what it holds back   *)
(* (together: what is due), then what is on the wire, then the queue, then *)
(* the frames from rx on.  Along that line each frame starts no later than *)
(* one before it ends (Links, Queued, Sound), unless a note of the loss    *)
(* comes first; and what is still to come starts where the shown part ends *)
(* (Caught).  All history comes before anything live (HistoryFirst), so    *)
(* that what is held back follows what is on the screen (Whole).           *)
(***************************************************************************)
EXTENDS TerminalStream, SequenceTheorems, TLAPS

(* The history holds the stream from its start up to what was produced. *)
Tidy(h, n) ==
    /\ h \in History /\ h.end = n /\ h.start + h.total = n
    /\ \A c \in h.chunks : h.start =< c.from /\ c.to =< n
    /\ h.chunks = {} => h.total = 0
    /\ h.chunks # {} => \E c \in h.chunks : c.from = h.start

(* Where the frame with index k starts, or will start. *)
Upcoming(p, k) == IF k =< Len(p.frames) THEN p.frames[k].from
                  ELSE IF p.pending # None THEN p.pending.from ELSE p.produced

Sound(p) ==
    /\ Tidy(p.hist, p.produced)
    /\ p.reader = "pushed" <=> p.pending # None
    /\ p.pending # None => p.pending.from =< p.pending.to /\ p.pending.to = p.produced
    /\ \A k \in DOMAIN p.frames :
          /\ p.frames[k].from =< p.frames[k].to /\ p.frames[k].to =< p.produced
          /\ p.frames[k].to = Upcoming(p, k + 1)

Frames == {"history", "live"}
Message == [kind : Frames \cup {"ready", "lagged", "exit", "unwritten"}, from : Nat, to : Nat]

TypeOK ==
    /\ ptys \in [Places -> Pty \cup {None}] /\ ptys["now"] \in Pty
    /\ sock \in {"none", "attached", "output", "subscribed", "ready", "history", "loop"}
    /\ rx \in Nat \ {0} /\ queue \in Seq(Piece) /\ wire \in Seq(Message)
    /\ conn \in {"opening", "open", "none"} /\ timer \in BOOLEAN /\ shouldReconnect \in BOOLEAN
    /\ screen \in Screen \cup {None} /\ due \in Screen \cup {None}
    /\ writing \in BOOLEAN /\ told \in BOOLEAN /\ shed \in BOOLEAN

(* A connection is between one browser and one task, and starts anew. *)
Connected ==
    /\ conn # "open" => sock = "none" /\ wire = << >>
    /\ timer => conn = "none"
    /\ ptys["old"] # None => sock = "loop"
    /\ sock \in {"attached", "output", "subscribed"} => wire = << >>
    /\ sock \notin {"none", "attached"} => rx =< Len(Heard.frames) + 1
    /\ sock # "history" => queue = << >>
    /\ \A i \in DOMAIN wire : wire[i].kind = "ready" => i = 1

(* The screen is about to be cleared. *)
Ready == wire # << >> /\ wire[1].kind = "ready"

Clean == (\A j \in DOMAIN wire : wire[j].kind \notin Frames) /\ (Ready \/ due = None)

(* A loss is told of, or was caused by an error event. *)
ToldOfLoss == (\E j \in DOMAIN wire : wire[j].kind = "lagged") \/ ((told \/ shed) /\ ~Ready)

ShownFrom(x) ==
    \/ \E j \in DOMAIN wire : wire[j].kind \in Frames /\ wire[j].from =< x
    \/ ~Ready /\ due # None /\ due.from =< x

ShownTo(x) ==
    \/ \E j \in DOMAIN wire : wire[j].kind \in Frames /\ x =< wire[j].to
    \/ ~Ready /\ due # None /\ x =< due.to

Bounded(n) ==
    /\ \A j \in DOMAIN wire : wire[j].kind \in Frames => wire[j].to =< n
    /\ ~Ready /\ due # None => due.to =< n
    /\ ~Ready /\ screen # None => screen.to =< n

(* After n messages of the wire, a frame that starts at x leaves no hole,  *)
(* or none that the client is not told of.                                 *)
Meets(n, x) ==
    \/ \E j \in 1 .. n : wire[j].kind = "lagged" \/ (wire[j].kind \in Frames /\ x =< wire[j].to)
    \/ ~Ready /\ (told \/ shed \/ (due # None /\ x =< due.to))
    \/ (\A j \in 1 .. n : wire[j].kind \notin Frames) /\ (Ready \/ due = None)

Links == \A i \in DOMAIN wire : wire[i].kind \in Frames => Meets(i - 1, wire[i].from)

(* What is sent after the k-th piece of the queue. *)
After(k) == IF k < Len(queue) THEN queue[k + 1].from ELSE Upcoming(Heard, rx)

Queued == \A k \in DOMAIN queue : After(k) =< queue[k].to /\ queue[k].to =< Heard.produced

Caught ==
    \/ ToldOfLoss
    \/ Clean /\ After(0) =< Heard.hist.start
    \/ ShownFrom(Heard.hist.start) /\ ShownTo(After(0))

(* What is shown, and what will be once nothing is held back any more. *)
Whole ==
    /\ NoSilentHole
    /\ due # None /\ due.hole => told \/ shed
    /\ ~writing => screen = due
    /\ due = None => screen = None

(* No history comes after a live frame, and none while one is held back. *)
HistoryFirst ==
    /\ \A i, j \in DOMAIN wire : i < j /\ wire[i].kind = "live" => wire[j].kind # "history"
    /\ sock \in {"ready", "history"} => \A i \in DOMAIN wire : wire[i].kind # "live"
    /\ sock \in {"ready", "history"} \/ (\E i \in DOMAIN wire : wire[i].kind = "history")
       => Ready \/ screen = due

Line ==
    /\ TypeOK /\ Connected /\ Links /\ Whole
    /\ \A w \in Places : ptys[w] # None => Sound(ptys[w])
    /\ sock \in {"ready", "history", "loop"} => Bounded(Heard.produced)
    /\ sock = "ready" => Clean
    /\ sock = "history" => Queued
    /\ sock \in {"history", "loop"} => Caught

IInv == Line /\ HistoryFirst
-----------------------------------------------------------------------------
(***************************************************************************)
(* The history.                                                            *)
(***************************************************************************)
LEMMA PushedIsTidy ==
  ASSUME NEW h, NEW n \in Nat, Tidy(h, n), NEW m \in Nat, n < m,
         NEW k \in Pushed(h, [from |-> n, to |-> m])
  PROVE  Tidy(k, m) /\ h.start =< k.start
<1>. DEFINE data == [from |-> n, to |-> m]
            all == h.chunks \cup {data}
            total == h.total + (m - n)
            cuts == CutPoints(all, m)
<1>1. /\ h.chunks \subseteq Chunk /\ h.start \in Nat /\ h.total \in Nat /\ h.end = n
      /\ h.start + h.total = n
      /\ \A c \in h.chunks : c.from \in Nat /\ c.to \in Nat /\ c.from < c.to
      /\ \A c \in h.chunks : h.start =< c.from /\ c.to =< n
  BY DEF Tidy, History, Chunk
<1>2. PICK p \in cuts \X cuts :
         /\ \A cut \in cuts : p[1] =< cut
         /\ k = [chunks |-> {c \in all : c.from >= p[2]},
                 total  |-> Minus(total, p[2] - p[1]),
                 start  |-> h.start + (p[2] - p[1]),
                 end    |-> h.end + Size(data)]
  <2>1. data.from = n /\ data.to = m /\ Size(data) = m - n /\ n # m
    BY DEF Size
  <2> QED
    BY <2>1 DEF Pushed, StopsAt
<1>3. /\ data \in Chunk /\ data.from = n /\ data.to = m /\ Size(data) = m - n
  BY DEF Chunk, Size
<1>4. \A c \in all : c \in Chunk /\ c.from \in Nat /\ c.to \in Nat /\ c.from < m /\ c.to =< m /\ h.start =< c.from
  BY <1>1, <1>3
<1>. HIDE DEF data, all
<1>5. PICK first \in cuts, keep \in cuts : first = p[1] /\ keep = p[2]
  BY <1>2
<1>6. cuts \subseteq Nat /\ m \in cuts /\ \A c \in all : c.from \in cuts
  BY <1>4 DEF CutPoints
<1>7. first \in Nat /\ keep \in Nat /\ first =< keep /\ keep =< m
  BY <1>2, <1>4, <1>5, <1>6 DEF CutPoints
<1>8. first = h.start
  <2>1. h.start \in cuts
    <3>1. CASE h.chunks = {}
      BY <1>1, <1>3, <1>6, <3>1 DEF Tidy, all
    <3>2. CASE h.chunks # {}
      BY <1>6, <3>2 DEF Tidy, all
    <3> QED
      BY <3>1, <3>2
  <2>2. \A cut \in cuts : h.start =< cut
    BY <1>1, <1>4 DEF CutPoints
  <2> QED
    BY <1>1, <1>2, <1>5, <1>6, <2>1, <2>2
<1>9. k.start = keep /\ k.end = m /\ k.total = m - keep /\ k.chunks = {c \in all : c.from >= keep}
  <2>1. total = m - first
    BY <1>1, <1>8
  <2>2. Minus(total, keep - first) = m - keep
    BY <1>7, <2>1 DEF Minus
  <2> QED
    BY <1>1, <1>2, <1>3, <1>5, <1>7, <1>8, <2>2
<1>10. k = [chunks |-> k.chunks, total |-> k.total, start |-> k.start, end |-> k.end]
  BY <1>2
<1>11. k.chunks = {} => keep = m
  BY <1>4, <1>5, <1>6, <1>7, <1>9 DEF CutPoints
<1>12. k.chunks # {} => \E c \in k.chunks : c.from = keep
  BY <1>4, <1>5, <1>6, <1>7, <1>9 DEF CutPoints
<1>13. k \in History
  BY <1>4, <1>7, <1>9, <1>10 DEF History
<1> QED
  BY <1>1, <1>4, <1>7, <1>8, <1>9, <1>11, <1>12, <1>13 DEF Tidy

LEMMA Division ==
  ASSUME NEW a \in Nat, NEW b \in Nat \ {0}
  PROVE  a \div b \in Nat /\ (a \div b) * b =< a /\ a < (a \div b) * b + b
  OBVIOUS

LEMMA Multiples ==
  ASSUME NEW i \in Nat, NEW j \in Nat, NEW b \in Nat
  PROVE  /\ i * b \in Nat /\ 0 * b = 0 /\ (i + 1) * b = i * b + b
         /\ i =< j => i * b =< j * b
  OBVIOUS

\* The snapshot is the retained bytes in order.
LEMMA SnapshotInOrder ==
  ASSUME NEW h, NEW n \in Nat, Tidy(h, n), NEW max \in Nat \ {0},
         NEW q, q = SnapshotChunked(h, max)
  PROVE  /\ q \in Seq(Piece)
         /\ q = << >> => h.start = n
         /\ q # << >> => q[1].from = h.start /\ q[Len(q)].to = n
         /\ \A k \in 1 .. Len(q) : q[k].to =< n /\ (k < Len(q) => q[k + 1].from = q[k].to)
<1>1. h.start \in Nat /\ h.total \in Nat /\ h.start + h.total = n
  BY DEF Tidy, History
<1>2. CASE h.total = 0
  BY <1>1, <1>2, EmptySeq DEF SnapshotChunked
<1>3. CASE h.total # 0
  <2>1. Front(h) = h.start
    <3>1. PICK c \in h.chunks : c.from = h.start
      BY <1>3 DEF Tidy
    <3>2. h.start \in {d.from : d \in h.chunks} /\ \A d \in h.chunks : h.start =< d.from
      BY <3>1 DEF Tidy
    <3>3. \A f \in {d.from : d \in h.chunks} : f \in Nat
      BY DEF Tidy, History, Chunk
    <3> QED
      BY <1>1, <3>2, <3>3 DEF Front
  <2>2. PICK total \in Nat \ {0} : total = h.total
    BY <1>1, <1>3
  <2>3. PICK last \in Nat : /\ last + 1 = (total + (max - 1)) \div max
                            /\ last * max < total /\ total =< (last + 1) * max
    <3>. DEFINE pieces == (total + (max - 1)) \div max
    <3>1. total + (max - 1) \in Nat
      OBVIOUS
    <3>2. pieces \in Nat /\ pieces * max =< total + (max - 1) /\ total + (max - 1) < pieces * max + max
      BY <3>1, Division
    <3>. HIDE DEF pieces
    <3>3. pieces # 0
      BY <3>2, Multiples
    <3>4. pieces - 1 \in Nat /\ pieces = (pieces - 1) + 1
      BY <3>2, <3>3
    <3>5. pieces * max = (pieces - 1) * max + max /\ pieces * max \in Nat /\ (pieces - 1) * max \in Nat
      BY <3>2, <3>4, Multiples
    <3>6. (pieces - 1) * max < total /\ total =< pieces * max
      BY <3>2, <3>5
    <3> QED
      BY <3>4, <3>6 DEF pieces
  <2>. DEFINE lo(i) == (i - 1) * max
              hi(i) == Lesser(i * max, total)
  <2>4. q = [i \in 1 .. last + 1 |-> [from |-> h.start + lo(i), to |-> h.start + hi(i)]]
    BY <1>3, <2>1, <2>2, <2>3 DEF SnapshotChunked
  <2>5. ASSUME NEW i \in 1 .. last + 1
        PROVE  /\ lo(i) \in Nat /\ hi(i) \in Nat /\ hi(i) =< total
               /\ i < last + 1 => hi(i) = lo(i + 1)
               /\ i = last + 1 => hi(i) = total
               /\ i = 1 => lo(i) = 0
    <3>1. i \in Nat /\ i - 1 \in Nat /\ last + 1 \in Nat /\ (i + 1) - 1 = i
      BY <2>3
    <3>2. i * max \in Nat /\ (i - 1) * max \in Nat /\ 0 * max = 0
      BY <3>1, Multiples
    <3>3. i < last + 1 => i * max < total
      <4>1. i < last + 1 => i * max =< last * max
        BY <2>3, <3>1, Multiples
      <4> QED
        BY <2>3, <3>2, <4>1
    <3> QED
      BY <2>3, <3>1, <3>2, <3>3 DEF Lesser
  <2>. HIDE DEF lo, hi
  <2>6. \A i \in 1 .. last + 1 : q[i] \in Piece /\ q[i].from = h.start + lo(i)
                                 /\ q[i].to = h.start + hi(i)
    BY SMTT(30), <1>1, <2>3, <2>4, <2>5 DEF Piece
  <2>7. q \in Seq(Piece) /\ Len(q) = last + 1
    <3>1. q \in [1 .. last + 1 -> Piece] /\ last + 1 \in Nat
      BY <2>4, <2>6
    <3>2. q \in Seq(Piece)
      BY <3>1, SeqDef
    <3>3. PICK len \in Nat : len = Len(q) /\ 1 .. len = 1 .. last + 1
      BY <3>1, <3>2, LenProperties
    <3>4. len = last + 1
      <4>1. last + 1 \in 1 .. len
        BY <2>3, <3>3
      <4>2. len \in 1 .. last + 1
        BY <3>3, <4>1
      <4> QED
        BY <2>3, <4>1, <4>2
    <3> QED
      BY <3>2, <3>3, <3>4
  <2>8. q # << >>
    BY <2>3, <2>7, EmptySeq
  <2>9. q[1].from = h.start /\ q[Len(q)].to = n
    <3>1. 1 \in 1 .. last + 1 /\ last + 1 \in 1 .. last + 1
      BY <2>3
    <3> QED
      BY <1>1, <2>2, <2>5, <2>6, <2>7, <3>1
  <2>10. ASSUME NEW k \in 1 .. Len(q)
         PROVE  q[k].to =< n /\ (k < Len(q) => q[k + 1].from = q[k].to)
    <3>1. k \in 1 .. last + 1
      BY <2>3, <2>7
    <3>2. q[k].to = h.start + hi(k) /\ hi(k) \in Nat /\ hi(k) =< total
      BY <2>5, <2>6, <3>1
    <3>3. q[k].to =< n
      BY <1>1, <2>2, <3>2
    <3>4. ASSUME k < Len(q) PROVE q[k + 1].from = q[k].to
      <4>1. k < last + 1 /\ k + 1 \in 1 .. last + 1
        BY <2>3, <2>7, <3>1, <3>4
      <4>2. q[k + 1].from = h.start + lo(k + 1)
        BY <2>6, <4>1
      <4>3. hi(k) = lo(k + 1)
        BY <2>5, <3>1, <4>1
      <4> QED
        BY <3>2, <4>2, <4>3
    <3> QED
      BY <3>3, <3>4
  <2> QED
    BY <2>7, <2>8, <2>9, <2>10
<1> QED
  BY <1>2, <1>3
-----------------------------------------------------------------------------
(***************************************************************************)
(* The wire.                                                               *)
(***************************************************************************)
\* A message goes onto the wire: what was shown before it stays shown.
LEMMA Appended ==
  ASSUME IInv, NEW m \in Message, wire' = Append(wire, m), UNCHANGED <<screen, due, writing, told, shed>>,
         m.kind # "ready", m.kind \in Frames => ToldOfLoss \/ Clean \/ ShownTo(m.from)
  PROVE  /\ wire' \in Seq(Message) /\ Links' /\ Whole'
         /\ \A i \in DOMAIN wire' : wire'[i].kind = "ready" => i = 1
         /\ ToldOfLoss \/ m.kind = "lagged" => ToldOfLoss'
         /\ \A x \in Nat : ShownFrom(x) \/ (m.kind \in Frames /\ m.from =< x) => ShownFrom(x)'
         /\ \A x \in Nat : ShownTo(x) \/ (m.kind \in Frames /\ x =< m.to) => ShownTo(x)'
         /\ m.kind \notin Frames /\ Clean => Clean'
         /\ \A n \in Nat : Bounded(n) /\ (m.kind \in Frames => m.to =< n) => Bounded(n)'
<1>1. PICK len \in Nat : len = Len(wire) /\ DOMAIN wire = 1 .. len
  BY LenProperties DEF IInv, Line, TypeOK
<1>2. /\ wire' \in Seq(Message) /\ Len(wire') = len + 1 /\ wire'[len + 1] = m
      /\ \A i \in 1 .. len : wire'[i] = wire[i]
  BY <1>1, AppendProperties DEF IInv, Line, TypeOK
<1>3. DOMAIN wire' = 1 .. len + 1
  BY <1>2, LenProperties
<1>4. wire' # << >>
  BY <1>1, <1>2, EmptySeq
<1>5. wire = << >> <=> len = 0
  BY <1>1, EmptySeq DEF IInv, Line, TypeOK
<1>6. 1 .. len + 1 = 1 .. len \cup {len + 1} /\ (len # 0 => 1 \in 1 .. len)
  BY <1>1
<1>7. Ready' = Ready
  BY <1>1, <1>2, <1>4, <1>5, <1>6 DEF Ready
<1>8. ASSUME NEW n \in 0 .. len, NEW x \in Nat
      PROVE  Meets(n, x)' = Meets(n, x)
  <2>1. \A j \in 1 .. n : wire'[j] = wire[j]
    BY <1>1, <1>2
  <2> QED
    BY <1>7, <2>1 DEF Meets
<1>9. Links'
  <2> SUFFICES ASSUME NEW i \in 1 .. len + 1, wire'[i].kind \in Frames,
                      NEW n \in 0 .. len, NEW x \in Nat, n = i - 1, x = wire'[i].from
               PROVE  Meets(n, x)'
    <3>1. \A i \in 1 .. len + 1 : wire'[i] \in Message /\ i - 1 \in 0 .. len
      BY <1>1, <1>2, <1>3
    <3>2. \A i \in 1 .. len + 1 : wire'[i].from \in Nat
      BY <3>1 DEF Message
    <3> QED
      BY <1>3, <3>1, <3>2 DEF Links
  <2>1. n = i - 1 /\ x = wire'[i].from
    OBVIOUS
  <2>2. CASE i \in 1 .. len
    <3>1. Meets(n, x)
      BY <1>1, <1>2, <2>1, <2>2 DEF IInv, Line, Links
    <3> QED
      BY <1>8, <2>1, <3>1
  <2>3. CASE i = len + 1
    <3>1. n = len /\ m.kind \in Frames /\ x = m.from
      BY <1>1, <1>2, <2>1, <2>3
    <3>2. Meets(n, x)
      <4>1. CASE ToldOfLoss
        BY <1>1, <3>1, <4>1 DEF ToldOfLoss, Meets
      <4>2. CASE Clean
        BY <1>1, <3>1, <4>2 DEF Clean, Meets
      <4>3. CASE ShownTo(x)
        BY <1>1, <3>1, <4>3 DEF ShownTo, Meets
      <4> QED
        BY <3>1, <4>1, <4>2, <4>3
    <3> QED
      BY <1>8, <2>1, <3>2
  <2> QED
    BY <1>6, <2>2, <2>3
<1>10. \A i \in DOMAIN wire' : wire'[i].kind = "ready" => i = 1
  BY <1>1, <1>2, <1>3, <1>6 DEF IInv, Line, Connected
<1>11. ToldOfLoss \/ m.kind = "lagged" => ToldOfLoss'
  BY <1>1, <1>2, <1>3, <1>6, <1>7 DEF ToldOfLoss
<1>12. \A x \in Nat : ShownFrom(x) \/ (m.kind \in Frames /\ m.from =< x) => ShownFrom(x)'
  BY <1>1, <1>2, <1>3, <1>6, <1>7 DEF ShownFrom
<1>13. \A x \in Nat : ShownTo(x) \/ (m.kind \in Frames /\ x =< m.to) => ShownTo(x)'
  BY <1>1, <1>2, <1>3, <1>6, <1>7 DEF ShownTo
<1>14. m.kind \notin Frames /\ Clean => Clean'
  BY <1>1, <1>2, <1>3, <1>6, <1>7 DEF Clean
<1>15. \A n \in Nat : Bounded(n) /\ (m.kind \in Frames => m.to =< n) => Bounded(n)'
  BY <1>1, <1>2, <1>3, <1>6, <1>7 DEF Bounded
<1>16. Whole'
  BY DEF IInv, Line, Whole, NoSilentHole
<1> QED
  BY <1>2, <1>9, <1>10, <1>11, <1>12, <1>13, <1>14, <1>15, <1>16

\* The browser handles a message: what was shown stays shown, and there is
\* no hole that it was not told of.
LEMMA Handled ==
  ASSUME IInv, Handle
  PROVE  /\ wire' \in Seq(Message) /\ screen' \in Screen \cup {None} /\ due' \in Screen \cup {None}
         /\ writing' \in BOOLEAN /\ told' \in BOOLEAN /\ shed' \in BOOLEAN
         /\ Links' /\ Whole'
         /\ \A i \in DOMAIN wire' : wire'[i].kind = "ready" => i = 1
         /\ ToldOfLoss => ToldOfLoss'
         /\ \/ ToldOfLoss'
            \/ \A x \in Nat : (ShownFrom(x) => ShownFrom(x)') /\ (ShownTo(x) => ShownTo(x)')
         /\ Clean => Clean'
         /\ \A n \in Nat : Bounded(n) => Bounded(n)'
<1>1. wire # << >> /\ wire' = Tail(wire) /\ (HandleReady \/ HandleFrame \/ HandleError \/ HandleExit)
  BY DEF Handle
<1>2. PICK len \in Nat \ {0} : len = Len(wire) /\ DOMAIN wire = 1 .. len
  BY <1>1, LenProperties, EmptySeq DEF IInv, Line, TypeOK
<1>3. PICK m \in Message : m = Head(wire) /\ m = wire[1]
  <2>1. Head(wire) \in Message /\ wire[1] \in Message
    BY <1>1, <1>2, HeadTailProperties DEF IInv, Line, TypeOK
  <2> QED
    BY <2>1
<1>4. /\ wire' \in Seq(Message) /\ Len(wire') = len - 1
      /\ \A i \in 1 .. len - 1 : wire'[i] = wire[i + 1]
  BY <1>1, <1>2, HeadTailProperties DEF IInv, Line, TypeOK
<1>5. DOMAIN wire' = 1 .. len - 1
  BY <1>4, LenProperties
<1>6. /\ \A i \in 1 .. len - 1 : i + 1 \in 1 .. len /\ i + 1 # 1
      /\ \A j \in 1 .. len : j = 1 \/ (j - 1 \in 1 .. len - 1 /\ wire[j] = wire'[j - 1])
  BY <1>2, <1>4
<1>7. \A i \in 1 .. len : wire[i].kind = "ready" => i = 1
  BY <1>2 DEF IInv, Line, Connected
<1>8. \A i \in 1 .. len - 1 : wire'[i].kind # "ready"
  BY <1>4, <1>6, <1>7
<1>9. ~ Ready' /\ (Ready <=> m.kind = "ready")
  <2>1. wire' # << >> => 1 \in 1 .. len - 1
    BY <1>2, <1>4, EmptySeq
  <2> QED
    BY <1>1, <1>3, <1>8, <2>1 DEF Ready
<1>10. /\ m.kind = "ready" => screen' = None /\ due' = None /\ ~writing' /\ ~told' /\ ~shed'
       /\ m.kind \in Frames => /\ due' = Written(due, m) /\ told' = told /\ shed' = shed
                               /\ writing' = (writing \/ m.kind = "history")
                               /\ screen' = IF writing /\ m.kind = "live" THEN screen
                                            ELSE Written(screen, m)
       /\ m.kind = "exit" => UNCHANGED <<screen, due, writing, told, shed>>
       /\ m.kind \in {"lagged", "unwritten"} =>
             /\ screen' = screen /\ due' = screen /\ ~writing'
             /\ told' = (told \/ m.kind = "lagged") /\ shed' = (shed \/ due # screen)
  BY <1>1, <1>3 DEF HandleReady, HandleFrame, HandleError, HandleExit, PagingReset, paging,
     Frames, IInv, Line, TypeOK
<1>11. /\ screen \in Screen \cup {None} /\ due \in Screen \cup {None} /\ writing \in BOOLEAN
       /\ told \in BOOLEAN /\ shed \in BOOLEAN /\ m.from \in Nat /\ m.to \in Nat
  BY DEF IInv, Line, TypeOK, Message
<1>12. m.kind \in Frames =>
         /\ due' \in Screen
         /\ due'.from =< m.from /\ m.to =< due'.to
         /\ due = None => ~ due'.hole /\ due'.to = m.to
         /\ due # None => /\ due'.from =< due.from /\ due.to =< due'.to
                          /\ due'.to \in {due.to, m.to}
                          /\ due'.hole => due.hole \/ m.from > due.to
  <2> SUFFICES ASSUME m.kind \in Frames
               PROVE  /\ Written(due, m) \in Screen
                      /\ Written(due, m).from =< m.from /\ m.to =< Written(due, m).to
                      /\ due = None => ~ Written(due, m).hole /\ Written(due, m).to = m.to
                      /\ due # None =>
                            /\ Written(due, m).from =< due.from /\ due.to =< Written(due, m).to
                            /\ Written(due, m).to \in {due.to, m.to}
                            /\ Written(due, m).hole => due.hole \/ m.from > due.to
    BY <1>10
  <2>1. CASE due = None
    BY <1>11, <2>1 DEF Written, Screen
  <2>2. CASE due # None
    <3>1. due.from \in Nat /\ due.to \in Nat /\ due.hole \in BOOLEAN
      BY <1>11, <2>2 DEF Screen
    <3> QED
      BY <1>11, <2>2, <3>1 DEF Written, Screen, Lesser, Greater
  <2> QED
    BY <2>1, <2>2
<1>13. None \notin Screen
  BY NoneIsNoRecord
\* A frame is due at once; it is on the screen, or held back behind it.
<1>22. m.kind \in Frames => screen' \in {screen, due'} /\ (~writing' => screen' = due')
  <2>1. CASE m.kind = "history"
    <3>1. screen = due
      <4>1. wire[1].kind = "history" /\ 1 \in DOMAIN wire
        BY <1>2, <1>3, <2>1
      <4>2. ~ Ready
        BY <1>3, <1>9, <2>1
      <4> QED
        BY <4>1, <4>2 DEF IInv, HistoryFirst
    <3> QED
      BY <1>10, <2>1, <3>1 DEF Frames
  <2>2. CASE m.kind = "live"
    <3>1. screen' = (IF writing THEN screen ELSE Written(screen, m)) /\ writing' = writing
      BY <1>10, <1>11, <2>2 DEF Frames
    <3>2. due' = Written(due, m) /\ (~ writing => screen = due)
      BY <1>10, <2>2 DEF Frames, IInv, Line, Whole
    <3> QED
      BY <1>11, <3>1, <3>2
  <2> QED
    BY <2>1, <2>2 DEF Frames
\* A message that is no frame leaves what is due, or throws some of it away.
<1>23. m.kind \notin Frames \cup {"ready"} =>
         /\ screen' = screen
         /\ due' = due \/ (due' = screen /\ (shed' \/ due = screen))
         /\ (told \/ shed) \/ m.kind = "lagged" => told' \/ shed'
  <2>1. m.kind \in Frames \cup {"ready", "exit", "lagged", "unwritten"}
    BY DEF Message
  <2> QED
    BY <1>10, <2>1
<1>14. /\ screen' \in Screen \cup {None} /\ due' \in Screen \cup {None} /\ writing' \in BOOLEAN
       /\ told' \in BOOLEAN /\ shed' \in BOOLEAN
  <2>1. m.kind \in Frames \cup {"ready", "exit", "lagged", "unwritten"}
    BY DEF Message
  <2>2. screen' \in Screen \cup {None} /\ due' \in Screen \cup {None}
    BY <1>10, <1>11, <1>12, <1>22, <1>23, <2>1
  <2>3. writing' \in BOOLEAN /\ told' \in BOOLEAN /\ shed' \in BOOLEAN
    BY <1>1, <1>11 DEF HandleReady, HandleFrame, HandleError, HandleExit, PagingReset, paging
  <2> QED
    BY <2>2, <2>3
<1>15. ToldOfLoss => ToldOfLoss'
  BY <1>2, <1>3, <1>5, <1>6, <1>9, <1>10, <1>23 DEF ToldOfLoss, Frames
<1>16. ASSUME ~ ToldOfLoss', NEW x \in Nat, ShownFrom(x) PROVE ShownFrom(x)'
  <2>1. CASE ~ Ready /\ due # None /\ due.from =< x
    BY <1>9, <1>10, <1>11, <1>12, <1>13, <1>16, <1>23, <2>1 DEF ShownFrom, Screen, ToldOfLoss
  <2>2. CASE \E j \in DOMAIN wire : wire[j].kind \in Frames /\ wire[j].from =< x
    BY SMTT(30), <1>2, <1>3, <1>5, <1>6, <1>9, <1>11, <1>12, <1>13, <2>2 DEF ShownFrom, Screen
  <2> QED
    BY <1>16, <2>1, <2>2 DEF ShownFrom
<1>17. ASSUME ~ ToldOfLoss', NEW x \in Nat, ShownTo(x) PROVE ShownTo(x)'
  <2>1. CASE ~ Ready /\ due # None /\ x =< due.to
    BY <1>9, <1>10, <1>11, <1>12, <1>13, <1>17, <1>23, <2>1 DEF ShownTo, Screen, ToldOfLoss
  <2>2. CASE \E j \in DOMAIN wire : wire[j].kind \in Frames /\ x =< wire[j].to
    BY SMTT(30), <1>2, <1>3, <1>5, <1>6, <1>9, <1>11, <1>12, <1>13, <2>2 DEF ShownTo, Screen
  <2> QED
    BY <1>17, <2>1, <2>2 DEF ShownTo
<1>18. Clean => Clean'
  <2>1. due = None => screen = None
    BY DEF IInv, Line, Whole
  <2> QED
    <3>1. ASSUME Clean PROVE m.kind \notin Frames /\ due' = None
      <4>1. m.kind \notin Frames /\ (m.kind = "ready" \/ due = None)
        BY <1>2, <1>3, <1>9, <3>1 DEF Clean
      <4> QED
        BY <1>10, <1>23, <2>1, <4>1
    <3>2. Clean => \A j \in DOMAIN wire' : wire'[j].kind \notin Frames
      BY <1>2, <1>4, <1>5, <1>6 DEF Clean
    <3> QED
      BY <3>1, <3>2 DEF Clean
<1>19. ASSUME NEW n \in Nat, Bounded(n) PROVE Bounded(n)'
  <2>1. \A j \in DOMAIN wire' : wire'[j].kind \in Frames => wire'[j].to =< n
    BY <1>2, <1>4, <1>5, <1>6, <1>19 DEF Bounded
  <2>2. m.kind \in Frames => m.to =< n
    BY <1>2, <1>3, <1>19 DEF Bounded
  <2>3. /\ m.kind # "ready" /\ due # None => due.to =< n
        /\ m.kind # "ready" /\ screen # None => screen.to =< n
    BY <1>9, <1>19 DEF Bounded
  <2>4. due' # None => due'.to =< n
    BY <1>10, <1>12, <1>23, <2>2, <2>3, <1>13
  <2>5. screen' # None => screen'.to =< n
    BY <1>10, <1>22, <1>23, <2>3, <2>4 DEF Frames
  <2> QED
    BY <2>1, <2>4, <2>5 DEF Bounded
<1>20. Whole'
  <2>1. CASE m.kind = "ready"
    BY <1>10, <2>1 DEF Whole, NoSilentHole
  <2>2. CASE m.kind \in Frames
    <3>1. Meets(0, m.from)
      BY <1>2, <1>3, <2>2 DEF IInv, Line, Links
    <3>2. ~ Ready /\ (told \/ shed \/ due = None \/ (due # None /\ m.from =< due.to))
      BY <1>9, <2>2, <3>1 DEF Meets, Frames
    <3>3. due' # None /\ (due'.hole => told' \/ shed')
      BY <1>10, <1>11, <1>12, <1>13, <2>2, <3>2 DEF IInv, Line, Whole, Screen
    <3>4. NoSilentHole'
      BY <1>10, <1>22, <2>2, <3>3 DEF IInv, Line, Whole, NoSilentHole
    <3> QED
      BY <1>22, <2>2, <3>3, <3>4 DEF Whole
  <2>3. CASE m.kind \in {"exit", "lagged", "unwritten"}
    <3>1. (told \/ shed) => told' \/ shed'
      BY <1>23, <2>3 DEF Frames
    <3>2. UNCHANGED <<screen, due, writing>> \/ (screen' = screen /\ due' = screen)
      BY <1>10, <2>3
    <3> QED
      BY <3>1, <3>2 DEF IInv, Line, Whole, NoSilentHole
  <2>4. m.kind \in Frames \cup {"ready", "exit", "lagged", "unwritten"}
    BY DEF Message
  <2> QED
    BY <2>1, <2>2, <2>3, <2>4
<1>21. Links'
  <2> SUFFICES ASSUME NEW i \in 1 .. len - 1, wire'[i].kind \in Frames,
                      NEW n \in Nat, NEW x \in Nat, n = i - 1, x = wire'[i].from
               PROVE  Meets(n, x)'
    <3>1. \A i \in 1 .. len - 1 : wire'[i] \in Message /\ i - 1 \in Nat
      BY <1>2, <1>4, <1>5
    <3>2. \A i \in 1 .. len - 1 : wire'[i].from \in Nat
      BY <3>1 DEF Message
    <3> QED
      BY <1>5, <3>1, <3>2 DEF Links
  <2>1. n = i - 1 /\ x = wire'[i].from
    OBVIOUS
  <2>2. Meets(n + 1, x)
    BY <1>2, <1>4, <1>6, <2>1 DEF IInv, Line, Links
  <2>3. \A j \in 1 .. n : j + 1 \in 1 .. n + 1 /\ j \in 1 .. len - 1 /\ wire'[j] = wire[j + 1]
    BY <1>4, <2>1
  <2>4. \A j \in 1 .. n + 1 : j = 1 \/ (j - 1 \in 1 .. n /\ wire[j] = wire'[j - 1])
    BY <1>6, <2>1, <2>3
  <2>5. CASE \E j \in 1 .. n + 1 : wire[j].kind = "lagged" \/ (wire[j].kind \in Frames /\ x =< wire[j].to)
    <3>1. PICK j \in 1 .. n + 1 : wire[j].kind = "lagged" \/ (wire[j].kind \in Frames /\ x =< wire[j].to)
      BY <2>5
    <3>2. CASE j = 1
      <4>1. CASE m.kind = "lagged"
        <5>1. told' \/ shed'
          BY <1>23, <4>1 DEF Frames
        <5> QED
          BY <1>9, <5>1 DEF Meets
      <4>2. CASE m.kind \in Frames /\ x =< m.to
        <5>1. x =< due'.to /\ due' # None
          BY <1>11, <1>12, <1>13, <2>1, <4>2 DEF Screen
        <5> QED
          BY <1>9, <5>1 DEF Meets
      <4> QED
        BY <1>3, <3>1, <3>2, <4>1, <4>2
    <3>3. CASE j # 1
      BY <2>4, <3>1, <3>3 DEF Meets
    <3> QED
      BY <3>2, <3>3
  <2>6. CASE ~ Ready /\ (told \/ shed \/ (due # None /\ x =< due.to))
    <3>1. told' \/ shed' \/ (due' # None /\ x =< due'.to)
      BY <1>9, <1>10, <1>11, <1>12, <1>13, <1>23, <2>1, <2>6 DEF Screen
    <3> QED
      BY <1>9, <3>1 DEF Meets
  <2>7. CASE (\A j \in 1 .. n + 1 : wire[j].kind \notin Frames) /\ (Ready \/ due = None)
    <3>1. 1 \in 1 .. n + 1
      BY <2>1
    <3>2. m.kind \notin Frames /\ due' = None
      <4>1. due = None => screen = None
        BY DEF IInv, Line, Whole
      <4> QED
        BY <1>3, <1>9, <1>10, <1>23, <2>7, <3>1, <4>1
    <3> QED
      BY <2>3, <2>7, <3>2 DEF Meets
  <2> QED
    BY <2>2, <2>5, <2>6, <2>7 DEF Meets
<1> QED
  BY <1>4, <1>5, <1>8, <1>14, <1>15, <1>16, <1>17, <1>18, <1>19, <1>20, <1>21
-----------------------------------------------------------------------------
(***************************************************************************)
(* The PTYs.                                                               *)
(***************************************************************************)
\* Where a frame will start is a place in the stream.
LEMMA UpcomingIsProduced ==
  ASSUME NEW p \in Pty, Sound(p), NEW k \in Nat \ {0}
  PROVE  Upcoming(p, k) \in Nat /\ Upcoming(p, k) =< p.produced
<1>1. PICK len \in Nat : len = Len(p.frames) /\ DOMAIN p.frames = 1 .. len
  BY LenProperties DEF Pty
<1>2. \A j \in 1 .. len : p.frames[j].from \in Nat /\ p.frames[j].to \in Nat
  <2>1. p.frames \in Seq(Piece)
    BY DEF Pty
  <2>2. \A j \in 1 .. len : p.frames[j] \in Piece
    BY <1>1, <2>1, ElementOfSeq
  <2> QED
    BY <2>2 DEF Piece
<1>3. p.pending # None => p.pending.from \in Nat /\ p.pending.to \in Nat
  BY DEF Pty, Piece
<1>4. p.produced \in Nat
  BY DEF Pty
<1>5. CASE k =< len
  <2>1. p.frames[k].from =< p.frames[k].to /\ p.frames[k].to =< p.produced
    BY <1>1, <1>5 DEF Sound
  <2> QED
    BY <1>1, <1>2, <1>4, <1>5, <2>1 DEF Upcoming
<1>6. CASE ~(k =< len)
  BY <1>1, <1>3, <1>4, <1>6 DEF Upcoming, Sound
<1> QED
  BY <1>5, <1>6

\* The PTY that the socket listens to.
LEMMA HeardIsSound ==
  ASSUME IInv
  PROVE  /\ Heard \in Pty /\ Sound(Heard) /\ Heard # None
         /\ Heard.produced \in Nat /\ Heard.hist.start \in Nat
         /\ Heard.hist.end = Heard.produced /\ Heard.hist.start =< Heard.produced
<1>1. Heard \in Pty /\ Sound(Heard)
  BY NoneIsNoRecord DEF IInv, Line, TypeOK, Heard, Exists, Places
<1>2. Heard \notin {None}
  BY <1>1, NoneIsNoRecord
<1>3. PICK h \in Pty : h = Heard
  BY <1>1
<1>4. h.produced \in Nat /\ h.hist \in History
  BY DEF Pty
<1>5. h.hist.start \in Nat /\ h.hist.total \in Nat
  BY <1>4 DEF History
<1> QED
  BY <1>1, <1>2, <1>3, <1>4, <1>5 DEF Sound, Tidy

\* Every message, piece and screen has places in the stream.
LEMMA Numbers ==
  ASSUME IInv
  PROVE  /\ \A j \in DOMAIN wire : wire[j].from \in Nat /\ wire[j].to \in Nat
         /\ \A k \in DOMAIN queue : queue[k].from \in Nat /\ queue[k].to \in Nat
         /\ screen # None => screen.from \in Nat /\ screen.to \in Nat
         /\ due # None => due.from \in Nat /\ due.to \in Nat
<1>1. /\ wire \in Seq(Message) /\ queue \in Seq(Piece)
      /\ screen \in Screen \cup {None} /\ due \in Screen \cup {None}
  BY DEF IInv, Line, TypeOK
<1>2. (\A j \in DOMAIN wire : wire[j] \in Message) /\ \A k \in DOMAIN queue : queue[k] \in Piece
  BY <1>1, LenProperties, ElementOfSeq
<1> QED
  BY <1>1, <1>2 DEF Message, Piece, Screen

LEMMA AfterIsNat ==
  ASSUME IInv, NEW k \in Nat
  PROVE  After(k) \in Nat
<1>1. CASE k < Len(queue)
  <2>1. k + 1 \in DOMAIN queue
    BY <1>1, LenProperties DEF IInv, Line, TypeOK
  <2> QED
    BY <1>1, <2>1, Numbers DEF After
<1>2. CASE ~(k < Len(queue))
  <2>1. Upcoming(Heard, rx) \in Nat
    BY HeardIsSound, UpcomingIsProduced DEF IInv, Line, TypeOK
  <2> QED
    BY <1>2, <2>1 DEF After
<1> QED
  BY <1>1, <1>2

\* What is shown from x on is shown from every later place on.
LEMMA ShownOn ==
  ASSUME IInv, NEW x \in Nat, NEW y \in Nat, x =< y
  PROVE  (ShownFrom(x) => ShownFrom(y)) /\ (ShownTo(y) => ShownTo(x))
  BY Numbers DEF ShownFrom, ShownTo

\* A thread of a PTY makes a step: the stream only grows.
LEMMA Stepped ==
  ASSUME IInv, NEW w \in Places, NEW q \in Pty, q = ptys[w], NEW p \in Pty, Becomes(w, p),
         Sound(p), q.produced =< p.produced, q.hist.start =< p.hist.start,
         Len(q.frames) =< Len(p.frames),
         \A k \in 1 .. Len(q.frames) + 1 : Upcoming(p, k) = Upcoming(q, k)
  PROVE  Line'
<1>1. /\ ptys' = [ptys EXCEPT ![w] = p]
      /\ UNCHANGED <<sock, rx, queue, wire, conn, timer, shouldReconnect, screen, due, writing, told, shed>>
  BY DEF Becomes, socket, channel, paging
<1>2. p # None /\ q # None
  BY NoneIsNoRecord
<1>3. TypeOK'
  BY <1>1 DEF IInv, Line, TypeOK, Places
<1>4. \A v \in Places : (ptys'[v] # None <=> ptys[v] # None) /\ ptys'[v] \in {p, ptys[v]}
  BY <1>1, <1>2 DEF IInv, Line, TypeOK
<1>5. PICK a \in Pty : a = Heard /\ Sound(a)
  BY HeardIsSound
<1>6. PICK b \in Pty : b = Heard' /\ (b = a \/ (a = q /\ b = p)) /\ Sound(b)
  <2>1. Heard' = Heard \/ (Heard = q /\ Heard' = p)
    BY <1>1, <1>4 DEF Heard, Exists, Places, IInv, Line, TypeOK
  <2> QED
    BY <1>5, <2>1
<1>7. /\ a.produced \in Nat /\ b.produced \in Nat /\ a.produced =< b.produced
      /\ a.hist.start \in Nat /\ b.hist.start \in Nat /\ a.hist.start =< b.hist.start
      /\ Len(a.frames) \in Nat /\ Len(b.frames) \in Nat /\ Len(a.frames) =< Len(b.frames)
      /\ \A k \in 1 .. Len(a.frames) + 1 : Upcoming(b, k) = Upcoming(a, k)
  <2>1. \A c \in Pty : c.produced \in Nat /\ c.hist.start \in Nat /\ Len(c.frames) \in Nat
    BY LenProperties DEF Pty, History
  <2> QED
    BY <1>6, <2>1
<1>8. rx \in Nat \ {0} /\ (sock \notin {"none", "attached"} => rx =< Len(a.frames) + 1)
  BY <1>5 DEF IInv, Line, TypeOK, Connected
<1>9. Connected'
  BY <1>1, <1>4, <1>5, <1>6, <1>7, <1>8 DEF IInv, Line, Connected, Places
<1>10. Links' /\ Whole'
  BY <1>1 DEF IInv, Line, Links, Meets, Ready, Whole, NoSilentHole
<1>11. (\A v \in Places : ptys[v] # None => Sound(ptys[v]))'
  BY <1>4 DEF IInv, Line
<1>12. (sock \in {"ready", "history", "loop"} => Bounded(Heard.produced))'
  <2> SUFFICES ASSUME sock \in {"ready", "history", "loop"} PROVE Bounded(Heard.produced)'
    BY <1>1
  <2>1. /\ \A j \in DOMAIN wire : wire[j].kind \in Frames => wire[j].to =< a.produced
        /\ ~Ready /\ due # None => due.to =< a.produced
        /\ ~Ready /\ screen # None => screen.to =< a.produced
    BY <1>5 DEF IInv, Line, Bounded
  <2>2. /\ \A j \in DOMAIN wire : wire[j].to \in Nat
        /\ screen # None => screen.to \in Nat
        /\ due # None => due.to \in Nat
    BY Numbers
  <2>3. /\ \A j \in DOMAIN wire : wire[j].kind \in Frames => wire[j].to =< b.produced
        /\ ~Ready /\ due # None => due.to =< b.produced
        /\ ~Ready /\ screen # None => screen.to =< b.produced
    BY <1>7, <2>1, <2>2
  <2> QED
    BY <1>1, <1>6, <2>3 DEF Bounded, Ready
<1>13. (sock = "ready" => Clean)'
  BY <1>1 DEF IInv, Line, Clean, Ready
<1>14. sock \notin {"none", "attached"} => Upcoming(b, rx) = Upcoming(a, rx)
  BY <1>7, <1>8
<1>15. \A k \in Nat : sock \notin {"none", "attached"} => After(k)' = After(k)
  BY <1>1, <1>5, <1>6, <1>14 DEF After
<1>16. (sock = "history" => Queued)'
  <2> SUFFICES ASSUME sock = "history" PROVE Queued'
    BY <1>1
  <2>1. \A k \in DOMAIN queue : After(k) =< queue[k].to /\ queue[k].to =< a.produced
    BY <1>5 DEF IInv, Line, Queued
  <2>2. \A k \in DOMAIN queue : k \in Nat /\ queue[k].to \in Nat
    <3>1. \A k \in DOMAIN queue : queue[k].to \in Nat
      BY Numbers
    <3>2. DOMAIN queue = 1 .. Len(queue)
      BY LenProperties DEF IInv, Line, TypeOK
    <3> QED
      BY <3>1, <3>2
  <2>3. \A k \in DOMAIN queue : After(k)' =< queue[k].to /\ queue[k].to =< b.produced
    BY <1>7, <1>15, <2>1, <2>2
  <2> QED
    BY <1>1, <1>6, <2>3 DEF Queued
<1>17. (sock \in {"history", "loop"} => Caught)'
  <2> SUFFICES ASSUME sock \in {"history", "loop"} PROVE Caught'
    BY <1>1
  <2>1. After(0) \in Nat
    BY AfterIsNat
  <2>2. After(0)' = After(0)
    BY <1>15
  <2>3. \A x \in Nat : (ShownFrom(x)' <=> ShownFrom(x)) /\ (ShownTo(x)' <=> ShownTo(x))
    BY <1>1 DEF ShownFrom, ShownTo, Ready
  <2>4. (ToldOfLoss' <=> ToldOfLoss) /\ (Clean' <=> Clean)
    BY <1>1 DEF ToldOfLoss, Clean, Ready
  <2>5. ToldOfLoss \/ (Clean /\ After(0) =< a.hist.start) \/ (ShownFrom(a.hist.start) /\ ShownTo(After(0)))
    BY <1>5 DEF IInv, Line, Caught
  <2>6. ToldOfLoss' \/ (Clean' /\ After(0)' =< b.hist.start)
          \/ (ShownFrom(b.hist.start)' /\ ShownTo(After(0))')
    <3>1. CASE ToldOfLoss
      BY <2>4, <3>1
    <3>2. CASE Clean /\ After(0) =< a.hist.start
      BY <1>7, <2>1, <2>2, <2>4, <3>2
    <3>3. CASE ShownFrom(a.hist.start) /\ ShownTo(After(0))
      <4>1. ShownFrom(b.hist.start)'
        BY <1>7, <2>3, <3>3, ShownOn
      <4>2. ShownTo(After(0))'
        BY <1>1, <2>2, <3>3 DEF ShownTo, Ready
      <4> QED
        BY <4>1, <4>2
    <3> QED
      BY <2>5, <3>1, <3>2, <3>3
  <2> QED
    BY <1>6, <2>6 DEF Caught, ShownFrom, ShownTo
<1> QED
  BY <1>3, <1>9, <1>10, <1>11, <1>12, <1>13, <1>16, <1>17 DEF IInv, Line

LEMMA ExistsIsPty ==
  ASSUME IInv, NEW w \in Places, Exists(w)
  PROVE  ptys[w] \in Pty /\ Sound(ptys[w])
  BY DEF IInv, Line, TypeOK, Exists

\* A step that leaves the output alone.
LEMMA Flagged ==
  ASSUME IInv, NEW w \in Places, NEW q \in Pty, q = ptys[w], Sound(q), NEW p \in Pty, Becomes(w, p),
         p.hist = q.hist, p.produced = q.produced, p.pending = q.pending, p.frames = q.frames,
         p.reader = "pushed" <=> q.reader = "pushed"
  PROVE  Line'
<1>1. \A k : Upcoming(p, k) = Upcoming(q, k)
  BY DEF Upcoming
<1>2. Sound(p)
  BY <1>1 DEF Sound
<1>3. q.produced \in Nat /\ q.hist.start \in Nat /\ Len(q.frames) \in Nat
  BY LenProperties DEF Pty, History
<1> QED
  BY <1>1, <1>2, <1>3, Stepped

\* read() returned: the bytes are in the history, and will be broadcast.
LEMMA ReadChunkKeeps ==
  ASSUME IInv, NEW w \in Places, NEW n \in ChunkSizes, ReadChunk(w, n)
  PROVE  Line'
<1>1. PICK q \in Pty : q = ptys[w] /\ Sound(q)
  BY ExistsIsPty DEF ReadChunk
<1>2. PICK first \in Nat : first = q.produced
  BY DEF Pty
<1>3. n \in Nat /\ n > 0
  BY TerminalStreamAssumption
<1>4. PICK last \in Nat : last = first + n /\ first < last
  BY <1>2, <1>3
<1>. DEFINE piece == [from |-> first, to |-> last]
<1>5. PICK h \in Pushed(q.hist, piece) :
         Becomes(w, [q EXCEPT !.hist = h, !.produced = last, !.pending = piece, !.reader = "pushed"])
  BY <1>1, <1>2, <1>4 DEF ReadChunk
<1>6. q.reader = "reading" /\ q.pending = None
  BY <1>1 DEF ReadChunk, Sound
<1>7. Tidy(h, last) /\ q.hist.start =< h.start
  BY <1>1, <1>2, <1>4, PushedIsTidy DEF Sound
<1>8. PICK p : p = [q EXCEPT !.hist = h, !.produced = last, !.pending = piece, !.reader = "pushed"]
  OBVIOUS
<1>9. /\ p.hist = h /\ p.produced = last /\ p.pending = piece /\ p.reader = "pushed"
      /\ p.frames = q.frames
  BY <1>8 DEF Pty
<1>10. p \in Pty
  <2>1. h \in History /\ piece \in Piece
    BY <1>7 DEF Tidy, Piece
  <2> QED
    BY <1>8, <2>1 DEF Pty
<1>11. piece # None /\ piece.from = first /\ piece.to = last
  BY NoneIsNoRecord DEF Piece
<1>. HIDE DEF piece
<1>12. PICK len \in Nat : len = Len(q.frames) /\ DOMAIN q.frames = 1 .. len
  BY LenProperties DEF Pty
<1>13. ASSUME NEW k \in 1 .. len + 1 PROVE Upcoming(p, k) = Upcoming(q, k)
  BY <1>2, <1>6, <1>9, <1>11, <1>12 DEF Upcoming
<1>14. Sound(p)
  <2>1. \A k \in 1 .. len : q.frames[k].to \in Nat /\ k + 1 \in 1 .. len + 1
    <3>1. \A k \in 1 .. len : q.frames[k] \in Piece
      BY <1>12, ElementOfSeq DEF Pty
    <3> QED
      BY <3>1 DEF Piece
  <2>2. \A k \in 1 .. len : /\ q.frames[k].from =< q.frames[k].to /\ q.frames[k].to =< first
                            /\ q.frames[k].to = Upcoming(q, k + 1)
    BY <1>1, <1>2, <1>12 DEF Sound
  <2>3. \A k \in 1 .. len : /\ p.frames[k].from =< p.frames[k].to /\ p.frames[k].to =< last
                            /\ p.frames[k].to = Upcoming(p, k + 1)
    BY <1>4, <1>9, <1>13, <2>1, <2>2
  <2> QED
    BY <1>4, <1>7, <1>9, <1>11, <1>12, <2>3 DEF Sound
<1>15. q.hist.start \in Nat
  BY DEF Pty, History
<1>16. Becomes(w, p) /\ q.produced =< p.produced /\ q.hist.start =< p.hist.start
  BY <1>2, <1>4, <1>5, <1>7, <1>8, <1>9
<1>17. Len(q.frames) =< Len(p.frames) /\ \A k \in 1 .. Len(q.frames) + 1 : Upcoming(p, k) = Upcoming(q, k)
  BY <1>9, <1>12, <1>13
<1> QED
  BY <1>1, <1>10, <1>14, <1>16, <1>17, Stepped

\* The chunk is broadcast.
LEMMA SendChunkKeeps ==
  ASSUME IInv, NEW w \in Places, SendChunk(w)
  PROVE  Line'
<1>1. PICK q \in Pty : q = ptys[w] /\ Sound(q)
  BY ExistsIsPty DEF SendChunk
<1>2. q.reader = "pushed" /\ q.pending # None
  BY <1>1 DEF SendChunk, Sound
<1>3. PICK piece \in Piece : piece = q.pending /\ piece.from =< piece.to /\ piece.to = q.produced
  BY <1>1, <1>2 DEF Pty, Sound
<1>4. PICK p : p = [q EXCEPT !.frames = Append(q.frames, piece), !.pending = None, !.reader = "reading"]
  OBVIOUS
<1>5. Becomes(w, p)
  BY <1>1, <1>3, <1>4 DEF SendChunk
<1>6. PICK len \in Nat : len = Len(q.frames) /\ DOMAIN q.frames = 1 .. len
  BY LenProperties DEF Pty
<1>7. /\ p.hist = q.hist /\ p.produced = q.produced /\ p.pending = None /\ p.reader = "reading"
      /\ p.frames = Append(q.frames, piece)
  BY <1>4 DEF Pty
<1>8. /\ p.frames \in Seq(Piece) /\ Len(p.frames) = len + 1 /\ p.frames[len + 1] = piece
      /\ \A k \in 1 .. len : p.frames[k] = q.frames[k]
  BY <1>6, <1>7, AppendProperties DEF Pty
<1>9. DOMAIN p.frames = 1 .. len + 1
  BY <1>8, LenProperties
<1>10. p \in Pty
  <2>1. Append(q.frames, piece) \in Seq(Piece)
    BY <1>7, <1>8
  <2> QED
    BY <1>4, <2>1 DEF Pty
<1>11. \A k \in 1 .. len + 1 : Upcoming(p, k) = Upcoming(q, k)
  BY <1>2, <1>3, <1>6, <1>8 DEF Upcoming
<1>12. Upcoming(p, len + 2) = p.produced
  BY <1>7, <1>8 DEF Upcoming
<1>13. Sound(p)
  <2>1. ASSUME NEW k \in 1 .. len + 1
        PROVE  /\ p.frames[k].from =< p.frames[k].to /\ p.frames[k].to =< p.produced
               /\ p.frames[k].to = Upcoming(p, k + 1)
    <3>1. CASE k = len + 1
      <4>1. k + 1 = len + 2 /\ piece.to \in Nat
        BY <3>1 DEF Piece
      <4> QED
        BY <1>3, <1>7, <1>8, <1>12, <3>1, <4>1
    <3>2. CASE k \in 1 .. len
      <4>1. k + 1 \in 1 .. len + 1
        BY <3>2
      <4>2. /\ q.frames[k].from =< q.frames[k].to /\ q.frames[k].to =< q.produced
            /\ q.frames[k].to = Upcoming(q, k + 1)
        BY <1>1, <1>6, <3>2 DEF Sound
      <4> QED
        BY <1>7, <1>8, <1>11, <3>2, <4>1, <4>2
    <3> QED
      BY <3>1, <3>2
  <2> QED
    BY <1>1, <1>7, <1>9, <2>1 DEF Sound
<1>14. q.produced \in Nat /\ q.hist.start \in Nat
  BY DEF Pty, History
<1> QED
  BY <1>1, <1>5, <1>6, <1>7, <1>8, <1>10, <1>11, <1>13, <1>14, Stepped

\* The other steps of the reader thread, of the process and of kill().
LEMMA PtyStepsKeep ==
  ASSUME IInv, NEW w \in Places,
         \/ ReadEnds(w) \/ StoreStopped(w) \/ WaitChild(w) \/ ChildExits(w)
         \/ KillChild(w) \/ KillFlag(w) \/ KillSend(w) \/ (KillCheck /\ w = "now")
  PROVE  Line'
<1>1. PICK q \in Pty : q = ptys[w] /\ Sound(q)
  <2>1. KillCheck /\ w = "now" => Exists(w)
    BY NoneIsNoRecord DEF IInv, Line, TypeOK, Exists
  <2> QED
    BY <2>1, ExistsIsPty DEF ReadEnds, StoreStopped, WaitChild, ChildExits, KillChild, KillFlag, KillSend
<1>2. \A code \in {"code", "killed"} : Append(q.exits, code) \in Seq({"code", "killed"})
  BY AppendProperties DEF Pty
<1>3. CASE ReadEnds(w)
  <2>1. PICK p : p = [q EXCEPT !.reader = "broke"]
    OBVIOUS
  <2>2. Becomes(w, p) /\ q.reader = "reading"
    BY <1>1, <1>3, <2>1 DEF ReadEnds
  <2>3. p \in Pty /\ p.hist = q.hist /\ p.produced = q.produced /\ p.pending = q.pending
        /\ p.frames = q.frames /\ p.reader = "broke"
    BY <2>1 DEF Pty
  <2> QED
    BY <1>1, <2>2, <2>3, Flagged
<1>4. CASE StoreStopped(w)
  <2>1. PICK p : p = [q EXCEPT !.stopped = TRUE, !.reader = "waiting"]
    OBVIOUS
  <2>2. Becomes(w, p) /\ q.reader = "broke"
    BY <1>1, <1>4, <2>1 DEF StoreStopped
  <2>3. p \in Pty /\ p.hist = q.hist /\ p.produced = q.produced /\ p.pending = q.pending
        /\ p.frames = q.frames /\ p.reader = "waiting"
    BY <2>1 DEF Pty
  <2> QED
    BY <1>1, <2>2, <2>3, Flagged
<1>5. CASE WaitChild(w)
  <2>1. PICK p : p = [q EXCEPT !.exits = Append(@, "code"), !.reader = "done"]
    OBVIOUS
  <2>2. Becomes(w, p) /\ q.reader = "waiting"
    BY <1>1, <1>5, <2>1 DEF WaitChild
  <2>3. p \in Pty /\ p.hist = q.hist /\ p.produced = q.produced /\ p.pending = q.pending
        /\ p.frames = q.frames /\ p.reader = "done"
    BY <1>2, <2>1 DEF Pty
  <2> QED
    BY <1>1, <2>2, <2>3, Flagged
<1>6. CASE ChildExits(w)
  <2>1. PICK p : p = [q EXCEPT !.child = "exited"]
    OBVIOUS
  <2>2. Becomes(w, p)
    BY <1>1, <1>6, <2>1 DEF ChildExits
  <2>3. p \in Pty /\ p.hist = q.hist /\ p.produced = q.produced /\ p.pending = q.pending
        /\ p.frames = q.frames /\ p.reader = q.reader
    BY <2>1 DEF Pty
  <2> QED
    BY <1>1, <2>2, <2>3, Flagged
<1>7. CASE KillChild(w)
  <2>1. PICK p \in {[q EXCEPT !.child = "exited", !.killer = "killed"], [q EXCEPT !.killer = "idle"]} :
           Becomes(w, p)
    BY <1>1, <1>7 DEF KillChild
  <2>2. p \in Pty /\ p.hist = q.hist /\ p.produced = q.produced /\ p.pending = q.pending
        /\ p.frames = q.frames /\ p.reader = q.reader
    BY <2>1 DEF Pty
  <2> QED
    BY <1>1, <2>1, <2>2, Flagged
<1>8. CASE KillFlag(w)
  <2>1. PICK p : p = [q EXCEPT !.stopped = TRUE, !.killer = "flagged"]
    OBVIOUS
  <2>2. Becomes(w, p)
    BY <1>1, <1>8, <2>1 DEF KillFlag
  <2>3. p \in Pty /\ p.hist = q.hist /\ p.produced = q.produced /\ p.pending = q.pending
        /\ p.frames = q.frames /\ p.reader = q.reader
    BY <2>1 DEF Pty
  <2> QED
    BY <1>1, <2>2, <2>3, Flagged
<1>9. CASE KillSend(w)
  <2>1. PICK p : p = [q EXCEPT !.exits = Append(@, "killed"), !.killer = "idle"]
    OBVIOUS
  <2>2. Becomes(w, p)
    BY <1>1, <1>9, <2>1 DEF KillSend
  <2>3. p \in Pty /\ p.hist = q.hist /\ p.produced = q.produced /\ p.pending = q.pending
        /\ p.frames = q.frames /\ p.reader = q.reader
    BY <1>2, <2>1 DEF Pty
  <2> QED
    BY <1>1, <2>2, <2>3, Flagged
<1>10. CASE KillCheck /\ w = "now"
  <2>1. PICK p : p = [q EXCEPT !.killer = "checked"]
    OBVIOUS
  <2>2. Becomes(w, p)
    BY <1>1, <1>10, <2>1 DEF KillCheck
  <2>3. p \in Pty /\ p.hist = q.hist /\ p.produced = q.produced /\ p.pending = q.pending
        /\ p.frames = q.frames /\ p.reader = q.reader
    BY <2>1 DEF Pty
  <2> QED
    BY <1>1, <2>2, <2>3, Flagged
<1> QED
  BY <1>3, <1>4, <1>5, <1>6, <1>7, <1>8, <1>9, <1>10
-----------------------------------------------------------------------------
(***************************************************************************)
(* The socket task.                                                        *)
(***************************************************************************)
LEMMA FreshIsSound == FreshPty \in Pty /\ Sound(FreshPty) /\ FreshPty # None
<1>1. FreshPty \in Pty
  BY EmptySeq DEF FreshPty, Pty, EmptyHistory, History, Chunk
<1>2. DOMAIN FreshPty.frames = {}
  BY DEF FreshPty
<1>3. Sound(FreshPty)
  BY <1>2 DEF FreshPty, Sound, Tidy, EmptyHistory, History, Chunk
<1> QED
  BY <1>1, <1>3, NoneIsNoRecord

LEMMA SameHeard == ASSUME ptys' = ptys PROVE Heard' = Heard
  BY DEF Heard, Exists

\* ensure_pty_attached: the connection starts with nothing on the wire.
LEMMA AttachKeeps == ASSUME IInv, Attach PROVE Line'
<1>1. sock = "none" /\ timer = FALSE /\ ptys["old"] = None /\ queue = << >>
  BY DEF IInv, Line, Connected, Attach, TypeOK
<1>2. /\ conn' = "open" /\ sock' = "attached" /\ wire' = << >>
      /\ UNCHANGED <<rx, queue, timer, shouldReconnect, screen, due, writing, told, shed>>
  BY DEF Attach, paging
<1>3. ptys' = ptys \/ ptys' = [ptys EXCEPT !["now"] = FreshPty]
  BY DEF Attach
<1>4. /\ ptys' \in [Places -> Pty \cup {None}] /\ ptys'["now"] \in Pty /\ ptys'["old"] = None
      /\ \A w \in Places : ptys'[w] # None => Sound(ptys'[w])
  BY <1>1, <1>3, FreshIsSound DEF IInv, Line, TypeOK, Places
<1>5. DOMAIN wire' = {} /\ wire' \in Seq(Message)
  BY <1>2, EmptySeq
<1>6. TypeOK'
  BY <1>2, <1>4, <1>5 DEF IInv, Line, TypeOK
<1>7. Connected'
  BY <1>1, <1>2, <1>4, <1>5 DEF Connected
<1>8. Links' /\ Whole'
  BY <1>2, <1>5 DEF IInv, Line, Links, Whole, NoSilentHole
<1> QED
  BY <1>2, <1>4, <1>6, <1>7, <1>8 DEF IInv, Line

LEMMA SubscribeKeeps == ASSUME IInv, SubscribeOutput \/ SubscribeExit PROVE Line'
<1>1. /\ UNCHANGED <<ptys, queue, wire, conn, timer, shouldReconnect, screen, due, writing, told, shed>>
      /\ \/ sock = "attached" /\ sock' = "output" /\ rx' = Len(Heard.frames) + 1
         \/ sock = "output" /\ sock' = "subscribed" /\ rx' = rx
  BY DEF SubscribeOutput, SubscribeExit, channel, paging
<1>2. Heard' = Heard /\ Len(Heard.frames) \in Nat
  BY <1>1, SameHeard, HeardIsSound, LenProperties DEF Pty
<1>3. TypeOK'
  BY <1>1, <1>2 DEF IInv, Line, TypeOK
<1>4. Connected'
  BY <1>1, <1>2 DEF IInv, Line, Connected, TypeOK
<1>5. Links' /\ Whole'
  BY <1>1 DEF IInv, Line, Links, Meets, Ready, Whole, NoSilentHole
<1> QED
  BY <1>1, <1>3, <1>4, <1>5 DEF IInv, Line

\* The ready event is the first message of a connection.
LEMMA SendReadyKeeps == ASSUME IInv, SendReady PROVE Line'
<1>1. /\ sock = "subscribed" /\ sock' = "ready" /\ wire' = Append(wire, Note("ready"))
      /\ UNCHANGED <<ptys, rx, queue, conn, timer, shouldReconnect, screen, due, writing, told, shed>>
  BY DEF SendReady, channel, paging
<1>2. wire' = <<Note("ready")>>
  <2>1. wire = << >>
    BY <1>1 DEF IInv, Line, Connected
  <2> QED
    BY <1>1, <2>1
<1>3. Note("ready") \in Message /\ Note("ready").kind = "ready"
  BY DEF Note, Message
<1>4. /\ wire' \in Seq(Message) /\ DOMAIN wire' = {1} /\ wire'[1].kind = "ready" /\ wire' # << >>
  BY <1>2, <1>3
<1>5. Heard' = Heard
  BY <1>1, SameHeard
<1>6. TypeOK'
  BY <1>1, <1>4 DEF IInv, Line, TypeOK
<1>7. Connected'
  BY <1>1, <1>4, <1>5 DEF IInv, Line, Connected
<1>8. Links' /\ Whole'
  BY <1>1, <1>4 DEF IInv, Line, Links, Frames, Whole, NoSilentHole
<1>9. Clean' /\ Bounded(Heard.produced)'
  BY <1>4 DEF Clean, Bounded, Ready, Frames
<1> QED
  BY <1>1, <1>6, <1>7, <1>8, <1>9 DEF IInv, Line

\* The history is read after output was subscribed to: the frames that the
\* receiver gets start no later than it ends.
LEMMA TakeSnapshotKeeps == ASSUME IInv, TakeSnapshot PROVE Line'
<1>1. /\ sock = "ready" /\ sock' = "history" /\ queue' = SnapshotChunked(Heard.hist, SnapBytes)
      /\ UNCHANGED <<ptys, rx, wire, conn, timer, shouldReconnect, screen, due, writing, told, shed>>
  BY DEF TakeSnapshot, channel, paging
<1>2. Heard' = Heard
  BY <1>1, SameHeard
<1>3. PICK a \in Pty : a = Heard /\ Sound(a)
  BY HeardIsSound
<1>4. a.produced \in Nat /\ a.hist.start \in Nat /\ Tidy(a.hist, a.produced)
  BY <1>3 DEF Pty, History, Sound
<1>5. PICK q : q = queue'
  OBVIOUS
<1>6. /\ q \in Seq(Piece)
      /\ q = << >> => a.hist.start = a.produced
      /\ q # << >> => q[1].from = a.hist.start /\ q[Len(q)].to = a.produced
      /\ \A k \in 1 .. Len(q) : q[k].to =< a.produced /\ (k < Len(q) => q[k + 1].from = q[k].to)
  BY <1>1, <1>3, <1>4, <1>5, SnapshotInOrder, TerminalStreamAssumption
<1>7. PICK len \in Nat : len = Len(q) /\ DOMAIN q = 1 .. len /\ (q = << >> <=> len = 0)
  BY <1>6, LenProperties, EmptySeq
<1>8. Upcoming(a, rx) \in Nat /\ Upcoming(a, rx) =< a.produced
  BY <1>3, UpcomingIsProduced DEF IInv, Line, TypeOK
<1>9. \A k \in 1 .. len : q[k].to \in Nat
  <2>1. \A k \in 1 .. len : q[k] \in Piece
    BY <1>6, <1>7, ElementOfSeq
  <2> QED
    BY <2>1 DEF Piece
<1>10. Queued'
  <2>1. ASSUME NEW k \in 1 .. len
        PROVE  /\ (IF k < len THEN q[k + 1].from ELSE Upcoming(a, rx)) =< q[k].to
               /\ q[k].to =< a.produced
    <3>1. CASE k < len
      BY <1>6, <1>7, <1>9, <3>1
    <3>2. CASE k = len
      BY <1>6, <1>7, <1>8, <3>2
    <3> QED
      BY <2>1, <3>1, <3>2
  <2>2. \A k : After(k)' = IF k < len THEN q[k + 1].from ELSE Upcoming(a, rx)
    BY <1>1, <1>2, <1>3, <1>5, <1>7 DEF After
  <2>3. \A k \in 1 .. len : After(k)' =< q[k].to /\ q[k].to =< a.produced
    BY <2>1, <2>2
  <2> QED
    BY <1>2, <1>3, <1>5, <1>7, <2>3 DEF Queued
<1>11. Caught'
  <2>1. Clean'
    BY <1>1 DEF IInv, Line, Clean, Ready
  <2>2. (IF 0 < len THEN q[0 + 1].from ELSE Upcoming(a, rx)) =< a.hist.start
    <3>1. CASE len = 0
      BY <1>6, <1>7, <1>8, <3>1
    <3>2. CASE len # 0
      BY <1>4, <1>6, <1>7, <3>2
    <3> QED
      BY <3>1, <3>2
  <2>3. After(0)' = IF 0 < len THEN q[0 + 1].from ELSE Upcoming(a, rx)
    BY <1>1, <1>2, <1>3, <1>5, <1>7 DEF After
  <2>4. After(0)' =< Heard'.hist.start
    BY <1>2, <1>3, <2>2, <2>3
  <2> QED
    BY <2>1, <2>4 DEF Caught
<1>12. TypeOK'
  BY <1>1, <1>5, <1>6 DEF IInv, Line, TypeOK
<1>13. Connected'
  BY <1>1, <1>2 DEF IInv, Line, Connected
<1>14. Links' /\ Whole' /\ Bounded(Heard.produced)'
  BY <1>1, <1>2 DEF IInv, Line, Links, Meets, Ready, Whole, NoSilentHole, Bounded
<1> QED
  BY <1>1, <1>10, <1>11, <1>12, <1>13, <1>14 DEF IInv, Line

LEMMA MessagesAreMessages ==
  /\ \A kind \in {"lagged", "exit", "unwritten"} : Note(kind) \in Message /\ Note(kind).kind = kind
  /\ \A kind \in Frames, piece \in Piece :
        /\ Frame(kind, piece) \in Message /\ Frame(kind, piece).kind = kind
        /\ Frame(kind, piece).from = piece.from /\ Frame(kind, piece).to = piece.to
  BY DEF Note, Frame, Message, Piece, Frames

\* A frame that continues what was sent goes onto the wire.
LEMMA FrameSent ==
  ASSUME IInv, sock \in {"history", "loop"}, sock' = sock, NEW m \in Message, m.kind \in Frames,
         wire' = Append(wire, m), UNCHANGED <<ptys, conn, timer, screen, due, writing, told, shed>>,
         m.from = After(0), NEW next \in Nat, next = After(0)', next =< m.to,
         m.to =< Heard.produced
  PROVE  /\ wire' \in Seq(Message) /\ Links' /\ Whole' /\ Caught'
         /\ \A i \in DOMAIN wire' : wire'[i].kind = "ready" => i = 1
         /\ Bounded(Heard.produced)'
<1>1. Heard' = Heard
  BY SameHeard
<1>2. PICK n \in Nat, start \in Nat : n = Heard.produced /\ start = Heard.hist.start
  BY HeardIsSound
<1>3. m.from \in Nat /\ m.to \in Nat /\ m.kind # "ready" /\ m.kind # "lagged"
  BY DEF Message, Frames
<1>4. \/ ToldOfLoss
      \/ Clean /\ m.from =< start
      \/ ShownFrom(start) /\ ShownTo(m.from)
  <2>1. \/ ToldOfLoss
        \/ Clean /\ After(0) =< Heard.hist.start
        \/ ShownFrom(Heard.hist.start) /\ ShownTo(After(0))
    BY DEF IInv, Line, Caught
  <2> QED
    BY <1>2, <2>1
<1>5. /\ wire' \in Seq(Message) /\ Links' /\ Whole'
      /\ \A i \in DOMAIN wire' : wire'[i].kind = "ready" => i = 1
      /\ ToldOfLoss => ToldOfLoss'
      /\ \A x \in Nat : ShownFrom(x) \/ m.from =< x => ShownFrom(x)'
      /\ \A x \in Nat : ShownTo(x) \/ x =< m.to => ShownTo(x)'
      /\ \A k \in Nat : Bounded(k) /\ m.to =< k => Bounded(k)'
  BY <1>3, <1>4, Appended
<1>6. Bounded(Heard.produced)'
  <2>1. Bounded(n)
    BY <1>2 DEF IInv, Line
  <2>2. Bounded(n)'
    BY <1>2, <1>5, <2>1
  <2> QED
    BY <1>1, <1>2, <2>2 DEF Bounded
<1>7. Caught'
  <2>1. ToldOfLoss' \/ (ShownFrom(start)' /\ ShownTo(next)')
    BY <1>4, <1>5
  <2> QED
    BY <1>1, <1>2, <2>1 DEF Caught, ShownFrom, ShownTo
<1> QED
  BY <1>5, <1>6, <1>7

\* The next piece of the snapshot, or the end of it.
LEMMA SendHistoryKeeps == ASSUME IInv, SendHistory PROVE Line'
<1>1. /\ sock = "history"
      /\ UNCHANGED <<ptys, rx, conn, timer, shouldReconnect, screen, due, writing, told, shed>>
  BY DEF SendHistory, channel, paging
<1>2. Heard' = Heard
  BY <1>1, SameHeard
<1>3. CASE queue = << >>
  <2>1. sock' = "loop" /\ UNCHANGED <<queue, wire>>
    BY <1>3 DEF SendHistory
  <2>2. TypeOK' /\ Connected'
    BY <1>1, <1>2, <1>3, <2>1 DEF IInv, Line, TypeOK, Connected
  <2>3. Links' /\ Whole' /\ Bounded(Heard.produced)'
    BY <1>1, <1>2, <2>1 DEF IInv, Line, Links, Meets, Ready, Whole, NoSilentHole, Bounded
  <2>4. Caught'
    BY <1>1, <1>2, <2>1 DEF IInv, Line, Caught, Clean, Ready, ToldOfLoss, ShownFrom, ShownTo, After
  <2> QED
    BY <1>1, <2>1, <2>2, <2>3, <2>4 DEF IInv, Line
<1>4. CASE queue # << >>
  <2>1. /\ sock' = "history" /\ queue' = Tail(queue)
        /\ wire' = Append(wire, Frame("history", Head(queue)))
    BY <1>1, <1>4 DEF SendHistory
  <2>2. PICK len \in Nat \ {0} : len = Len(queue) /\ DOMAIN queue = 1 .. len
    BY <1>4, LenProperties, EmptySeq DEF IInv, Line, TypeOK
  <2>3. /\ Head(queue) = queue[1] /\ queue[1] \in Piece /\ queue' \in Seq(Piece)
        /\ Len(queue') = len - 1 /\ \A k \in 1 .. len - 1 : queue'[k] = queue[k + 1]
    BY <1>4, <2>1, <2>2, HeadTailProperties DEF IInv, Line, TypeOK
  <2>4. DOMAIN queue' = 1 .. len - 1
    BY <2>3, LenProperties
  <2>5. PICK m \in Message : m = Frame("history", queue[1]) /\ m.kind = "history"
                             /\ m.from = queue[1].from /\ m.to = queue[1].to
    <3>1. "history" \in Frames
      BY DEF Frames
    <3> QED
      BY <2>3, <3>1, MessagesAreMessages
  <2>6. \A k \in 0 .. len - 1 : After(k)' = After(k + 1)
    <3>1. ASSUME NEW k \in 0 .. len - 1, k < len - 1
          PROVE  queue'[k + 1] = queue[k + 2] /\ k + 1 < len
      BY <2>3, <3>1
    <3>2. ASSUME NEW k \in 0 .. len - 1, ~(k < len - 1)
          PROVE  ~(k + 1 < len)
      BY <3>2
    <3>3. \A k \in 0 .. len - 1 :
             After(k)' = IF k < len - 1 THEN queue'[k + 1].from ELSE Upcoming(Heard, rx)
      BY <1>1, <1>2, <2>3 DEF After
    <3>4. \A k \in 0 .. len - 1 :
             After(k + 1) = IF k + 1 < len THEN queue[k + 2].from ELSE Upcoming(Heard, rx)
      BY <2>2 DEF After
    <3> QED
      BY <3>1, <3>2, <3>3, <3>4
  <2>7. \A k \in 1 .. len : After(k) =< queue[k].to /\ queue[k].to =< Heard.produced
    BY <1>1, <2>2 DEF IInv, Line, Queued
  <2>8. m.from = After(0) /\ m.kind \in Frames
    BY <2>2, <2>5 DEF After, Frames
  <2>9. PICK next \in Nat : next = After(1)
    BY AfterIsNat
  <2>10. next = After(0)' /\ next =< m.to /\ m.to =< Heard.produced
    BY <2>2, <2>5, <2>6, <2>7, <2>9
  <2>11. wire' = Append(wire, m)
    BY <2>1, <2>3, <2>5
  <2>12. /\ wire' \in Seq(Message) /\ Links' /\ Whole' /\ Caught'
         /\ \A i \in DOMAIN wire' : wire'[i].kind = "ready" => i = 1
         /\ Bounded(Heard.produced)'
    BY <1>1, <2>1, <2>8, <2>10, <2>11, FrameSent
  <2>13. Queued'
    <3>1. \A k \in 1 .. len - 1 : k + 1 \in 1 .. len
      BY <2>2
    <3>2. \A k \in 1 .. len - 1 : After(k)' =< queue'[k].to /\ queue'[k].to =< Heard.produced
      BY <2>3, <2>6, <2>7, <3>1
    <3> QED
      BY <1>2, <2>4, <3>2 DEF Queued
  <2>14. TypeOK'
    BY <1>1, <2>1, <2>3, <2>12 DEF IInv, Line, TypeOK
  <2>15. Connected'
    BY <1>1, <1>2, <2>1, <2>12 DEF IInv, Line, Connected
  <2> QED
    BY <1>1, <2>1, <2>12, <2>13, <2>14, <2>15 DEF IInv, Line
<1> QED
  BY <1>3, <1>4

\* recv() returned a frame: it starts where the one before it ended.
LEMMA SendLiveKeeps == ASSUME IInv, SendLive PROVE Line'
<1>1. /\ sock = "loop" /\ sock' = "loop" /\ rx =< Len(Heard.frames) /\ rx' = rx + 1
      /\ wire' = Append(wire, Frame("live", Heard.frames[rx]))
      /\ UNCHANGED <<ptys, queue, conn, timer, shouldReconnect, screen, due, writing, told, shed>>
  BY DEF SendLive, channel, paging
<1>2. Heard' = Heard
  BY <1>1, SameHeard
<1>3. PICK a \in Pty : a = Heard /\ Sound(a)
  BY HeardIsSound
<1>4. PICK len \in Nat : len = Len(a.frames) /\ DOMAIN a.frames = 1 .. len
  BY LenProperties DEF Pty
<1>5. rx \in 1 .. len
  BY <1>1, <1>3, <1>4 DEF IInv, Line, TypeOK
<1>6. a.frames[rx] \in Piece /\ a.frames[rx].to =< a.produced /\ a.frames[rx].to = Upcoming(a, rx + 1)
  <2>1. a.frames[rx] \in Piece
    BY <1>4, <1>5, ElementOfSeq DEF Pty
  <2> QED
    BY <1>3, <1>4, <1>5, <2>1 DEF Sound
<1>7. PICK m \in Message : m = Frame("live", a.frames[rx]) /\ m.kind = "live"
                           /\ m.from = a.frames[rx].from /\ m.to = a.frames[rx].to
  <2>1. "live" \in Frames
    BY DEF Frames
  <2> QED
    BY <1>6, <2>1, MessagesAreMessages
<1>8. queue = << >> /\ Len(queue) = 0
  BY <1>1, EmptySeq DEF IInv, Line, Connected
<1>9. After(0) = m.from /\ m.kind \in Frames
  BY <1>3, <1>4, <1>5, <1>7, <1>8 DEF After, Upcoming, Frames
<1>10. PICK next \in Nat : next = Upcoming(a, rx + 1)
  BY <1>6 DEF Piece
<1>11. next = After(0)' /\ next =< m.to /\ m.to =< Heard.produced
  BY <1>1, <1>2, <1>3, <1>6, <1>7, <1>8, <1>10 DEF After
<1>12. /\ wire' \in Seq(Message) /\ Links' /\ Whole' /\ Caught'
       /\ \A i \in DOMAIN wire' : wire'[i].kind = "ready" => i = 1
       /\ Bounded(Heard.produced)'
  BY <1>1, <1>3, <1>7, <1>9, <1>11, FrameSent
<1>13. TypeOK'
  BY <1>1, <1>12 DEF IInv, Line, TypeOK
<1>14. Connected'
  <2>1. rx' =< Len(Heard'.frames) + 1
    BY <1>1, <1>2, <1>3, <1>4, <1>5
  <2> QED
    BY <1>1, <1>2, <1>12, <2>1 DEF IInv, Line, Connected
<1> QED
  BY <1>1, <1>12, <1>13, <1>14 DEF IInv, Line

\* The receiver lagged: frames are skipped, and the note of it is sent first.
LEMMA SendLaggedKeeps == ASSUME IInv, SendLagged PROVE Line'
<1>1. /\ sock = "loop" /\ sock' = "loop" /\ Lagging /\ rx' = Len(Heard.frames) + 1 - Capacity
      /\ wire' = Append(wire, Note("lagged"))
      /\ UNCHANGED <<ptys, queue, conn, timer, shouldReconnect, screen, due, writing, told, shed>>
  BY DEF SendLagged, channel, paging
<1>2. Heard' = Heard
  BY <1>1, SameHeard
<1>3. PICK len \in Nat : len = Len(Heard.frames)
  BY HeardIsSound, LenProperties DEF Pty
<1>4. rx' \in Nat \ {0} /\ rx' =< len + 1
  BY <1>1, <1>3, TerminalStreamAssumption DEF Lagging, IInv, Line, TypeOK
<1>5. PICK m \in Message : m = Note("lagged") /\ m.kind = "lagged"
  BY MessagesAreMessages
<1>6. m.kind \notin Frames /\ m.kind # "ready"
  BY <1>5 DEF Frames
<1>7. /\ wire' \in Seq(Message) /\ Links' /\ Whole' /\ ToldOfLoss'
      /\ \A i \in DOMAIN wire' : wire'[i].kind = "ready" => i = 1
      /\ \A n \in Nat : Bounded(n) => Bounded(n)'
  BY <1>1, <1>5, <1>6, Appended
<1>8. Bounded(Heard.produced)'
  <2>1. PICK n \in Nat : n = Heard.produced
    BY HeardIsSound
  <2>2. Bounded(n)'
    BY <1>1, <1>7, <2>1 DEF IInv, Line
  <2> QED
    BY <1>2, <2>1, <2>2 DEF Bounded
<1>9. TypeOK'
  BY <1>1, <1>4, <1>7 DEF IInv, Line, TypeOK
<1>10. Connected'
  BY <1>1, <1>2, <1>3, <1>4, <1>7 DEF IInv, Line, Connected
<1> QED
  BY <1>1, <1>7, <1>8, <1>9, <1>10 DEF IInv, Line, Caught

\* The task ends: the receivers are gone with it.
LEMMA DetachedKeeps ==
  ASSUME IInv, Detached, wire' \in Seq(Message), Links', Whole',
         \A i \in DOMAIN wire' : wire'[i].kind = "ready" => i = 1,
         conn' \in {"opening", "open", "none"}, timer' \in BOOLEAN, timer' => conn' = "none",
         conn' # "open" => wire' = << >>, shouldReconnect' \in BOOLEAN, screen' = screen,
         due' \in {due, screen}, writing' \in BOOLEAN, told' = told, shed' = shed
  PROVE  Line'
<1>1. sock' = "none" /\ rx' = 1 /\ queue' = << >> /\ ptys' = [ptys EXCEPT !["old"] = None]
  BY DEF Detached
<1>2. /\ ptys' \in [Places -> Pty \cup {None}] /\ ptys'["now"] \in Pty /\ ptys'["old"] = None
      /\ \A w \in Places : ptys'[w] # None => Sound(ptys'[w])
  BY <1>1 DEF IInv, Line, TypeOK, Places
<1>3. TypeOK'
  BY <1>1, <1>2, EmptySeq DEF IInv, Line, TypeOK
<1>4. Connected'
  BY <1>1, <1>2 DEF Connected
<1> QED
  BY <1>1, <1>2, <1>3, <1>4 DEF IInv, Line

LEMMA SendExitKeeps == ASSUME IInv, SendExit PROVE Line'
<1>1. /\ wire' = Append(wire, Note("exit")) /\ Detached
      /\ UNCHANGED <<conn, timer, shouldReconnect, screen, due, writing, told, shed>>
  BY DEF SendExit, channel, paging
<1>2. PICK m \in Message : m = Note("exit") /\ m.kind = "exit"
  BY MessagesAreMessages
<1>3. m.kind \notin Frames /\ m.kind # "ready"
  BY <1>2 DEF Frames
<1>4. /\ wire' \in Seq(Message) /\ Links' /\ Whole'
      /\ \A i \in DOMAIN wire' : wire'[i].kind = "ready" => i = 1
  BY <1>1, <1>2, <1>3, Appended
<1>5. /\ conn' \in {"opening", "open", "none"} /\ timer' \in BOOLEAN /\ (timer' => conn' = "none")
      /\ conn' = "open" /\ shouldReconnect' \in BOOLEAN /\ writing' \in BOOLEAN
  BY <1>1 DEF SendExit, IInv, Line, TypeOK, Connected
<1> QED
  BY <1>1, <1>4, <1>5, DetachedKeeps

\* Input brings a new PTY; the socket stays with the one it listens to.
LEMMA InputKeeps == ASSUME IInv, Input PROVE Line'
<1>1. /\ sock = "loop" /\ ptys' = [now |-> FreshPty, old |-> Heard]
      /\ UNCHANGED <<sock, rx, queue, wire, conn, timer, shouldReconnect, screen, due, writing, told, shed>>
  BY DEF Input, socket, channel, paging
<1>2. PICK a \in Pty : a = Heard /\ Sound(a) /\ a # None
  BY HeardIsSound
<1>3. ptys' = [w \in Places |-> IF w = "now" THEN FreshPty ELSE a]
  BY <1>1, <1>2 DEF Places
<1>4. /\ ptys' \in [Places -> Pty \cup {None}] /\ ptys'["now"] = FreshPty /\ ptys'["old"] = a
      /\ \A w \in Places : Sound(ptys'[w])
  BY <1>2, <1>3, FreshIsSound DEF Places
<1>5. Heard' = Heard
  BY <1>2, <1>4 DEF Heard, Exists
<1>6. TypeOK'
  BY <1>1, <1>4, FreshIsSound DEF IInv, Line, TypeOK
<1>7. Connected'
  BY <1>1, <1>5 DEF IInv, Line, Connected
<1>8. Links' /\ Whole' /\ Bounded(Heard.produced)'
  BY <1>1, <1>5 DEF IInv, Line, Links, Meets, Ready, Whole, NoSilentHole, Bounded
<1>9. Caught'
  BY <1>1, <1>5 DEF IInv, Line, Caught, Clean, Ready, ToldOfLoss, ShownFrom, ShownTo, After
<1> QED
  BY <1>1, <1>4, <1>6, <1>7, <1>8, <1>9 DEF IInv, Line

\* Only the wire and what the browser shows change.
LEMMA WireKeeps ==
  ASSUME IInv, UNCHANGED <<ptys, sock, rx, queue, conn, timer>>, conn = "open",
         wire' \in Seq(Message), screen' \in Screen \cup {None}, due' \in Screen \cup {None},
         writing' \in BOOLEAN, told' \in BOOLEAN, shed' \in BOOLEAN,
         shouldReconnect' \in BOOLEAN, Links', Whole',
         \A i \in DOMAIN wire' : wire'[i].kind = "ready" => i = 1,
         sock \in {"attached", "output", "subscribed"} => wire' = << >>,
         ToldOfLoss => ToldOfLoss', Clean => Clean',
         \/ ToldOfLoss'
         \/ \A x \in Nat : (ShownFrom(x) => ShownFrom(x)') /\ (ShownTo(x) => ShownTo(x)'),
         \A n \in Nat : Bounded(n) => Bounded(n)'
  PROVE  Line'
<1>1. Heard' = Heard
  BY SameHeard
<1>2. PICK n \in Nat, start \in Nat, next \in Nat :
         n = Heard.produced /\ start = Heard.hist.start /\ next = After(0)
  BY HeardIsSound, AfterIsNat
<1>3. After(0)' = After(0)
  BY <1>1 DEF After
<1>4. TypeOK'
  BY DEF IInv, Line, TypeOK
<1>5. Connected'
  BY <1>1 DEF IInv, Line, Connected
<1>6. sock \in {"ready", "history", "loop"} => Bounded(Heard.produced)'
  <2>1. sock \in {"ready", "history", "loop"} => Bounded(n)'
    BY <1>2 DEF IInv, Line
  <2> QED
    BY <1>1, <1>2, <2>1 DEF Bounded
<1>7. sock = "history" => Queued'
  BY <1>1 DEF IInv, Line, Queued, After
<1>8. sock \in {"history", "loop"} => Caught'
  <2>1. sock \in {"history", "loop"} =>
           ToldOfLoss \/ (Clean /\ next =< start) \/ (ShownFrom(start) /\ ShownTo(next))
    BY <1>2 DEF IInv, Line, Caught
  <2>2. sock \in {"history", "loop"} =>
           ToldOfLoss' \/ (Clean' /\ next =< start) \/ (ShownFrom(start)' /\ ShownTo(next)')
    BY <2>1
  <2> QED
    BY <1>1, <1>2, <1>3, <2>2 DEF Caught, ShownFrom, ShownTo
<1> QED
  BY <1>4, <1>5, <1>6, <1>7, <1>8 DEF IInv, Line

LEMMA InputFailsKeeps == ASSUME IInv, InputFails PROVE Line'
<1>1. /\ sock = "loop" /\ wire' = Append(wire, Note("unwritten"))
      /\ UNCHANGED <<ptys, sock, rx, queue, conn, timer, shouldReconnect, screen, due, writing, told, shed>>
  BY DEF InputFails, socket, channel, paging
<1>2. Heard' = Heard
  BY <1>1, SameHeard
<1>3. PICK m \in Message : m = Note("unwritten") /\ m.kind = "unwritten"
  BY MessagesAreMessages
<1>4. m.kind \notin Frames /\ m.kind # "ready"
  BY <1>3 DEF Frames
<1>5. /\ wire' \in Seq(Message) /\ Links' /\ Whole'
      /\ \A i \in DOMAIN wire' : wire'[i].kind = "ready" => i = 1
      /\ ToldOfLoss => ToldOfLoss'
      /\ \A x \in Nat : ShownFrom(x) => ShownFrom(x)'
      /\ \A x \in Nat : ShownTo(x) => ShownTo(x)'
      /\ Clean => Clean'
      /\ \A n \in Nat : Bounded(n) => Bounded(n)'
  BY <1>1, <1>3, <1>4, Appended
<1>6. /\ screen' \in Screen \cup {None} /\ due' \in Screen \cup {None} /\ conn = "open"
      /\ writing' \in BOOLEAN /\ told' \in BOOLEAN /\ shed' \in BOOLEAN /\ shouldReconnect' \in BOOLEAN
  BY <1>1 DEF InputFails, IInv, Line, TypeOK
<1> QED
  BY <1>1, <1>5, <1>6, WireKeeps

-----------------------------------------------------------------------------
(***************************************************************************)
(* The browser.                                                            *)
(***************************************************************************)
LEMMA HandleKeeps == ASSUME IInv, Handle PROVE Line'
<1>1. /\ UNCHANGED <<ptys, sock, rx, queue, conn, timer>> /\ conn = "open"
      /\ wire # << >> /\ wire' = Tail(wire)
  BY DEF Handle, socket
<1>2. sock \in {"attached", "output", "subscribed"} => wire' = << >>
  BY <1>1 DEF IInv, Line, Connected
<1>3. shouldReconnect' \in BOOLEAN
  BY DEF Handle, HandleReady, HandleFrame, HandleError, HandleExit, IInv, Line, TypeOK
<1> QED
  BY <1>1, <1>2, <1>3, Handled, WireKeeps

\* The connection breaks, or the terminal is unmounted.
LEMMA BrokenKeeps == ASSUME IInv, Drop \/ Disconnect PROVE Line'
<1>1. /\ Detached /\ wire' = << >> /\ conn' = "none" /\ timer' \in {FALSE, shouldReconnect}
      /\ UNCHANGED <<screen, told, shed>> /\ due' = screen /\ writing' = FALSE
  BY DEF Drop, Disconnect, Closed, PagingReset
<1>2. timer' \in BOOLEAN /\ shouldReconnect' \in BOOLEAN /\ writing' \in BOOLEAN
  BY <1>1 DEF Drop, Disconnect, Closed, IInv, Line, TypeOK
<1>3. wire' \in Seq(Message) /\ DOMAIN wire' = {}
  BY <1>1, EmptySeq
<1>4. Links' /\ Whole'
  BY <1>1, <1>3 DEF IInv, Line, Links, Whole, NoSilentHole
<1> QED
  BY <1>1, <1>2, <1>3, <1>4, DetachedKeeps

\* xterm calls back: what is due is on the screen.
LEMMA HistoryWrittenKeeps == ASSUME IInv, HistoryWritten PROVE Line'
<1>1. /\ UNCHANGED <<ptys, sock, rx, queue, wire, conn, timer, shouldReconnect, due, told, shed>>
      /\ screen' = due /\ writing' = FALSE
  BY DEF HistoryWritten, socket
<1>2. Heard' = Heard
  BY <1>1, SameHeard
<1>3. TypeOK' /\ Connected'
  BY <1>1, <1>2 DEF IInv, Line, TypeOK, Connected
<1>4. Links' /\ Whole' /\ (Clean' <=> Clean)
  BY <1>1 DEF IInv, Line, Links, Meets, Ready, Whole, NoSilentHole, Clean
<1>5. (Bounded(Heard.produced) => Bounded(Heard.produced)') /\ (Queued' <=> Queued)
  BY <1>1, <1>2 DEF Bounded, Ready, Queued, After
<1>6. Caught' <=> Caught
  BY <1>1, <1>2 DEF Caught, Clean, Ready, ToldOfLoss, ShownFrom, ShownTo, After
<1> QED
  BY <1>1, <1>3, <1>4, <1>5, <1>6 DEF IInv, Line

\* onclose, a refused upgrade, and the reconnect timer: no task is attached.
LEMMA ChannelKeeps == ASSUME IInv, OnClose \/ Refused \/ Reconnect PROVE Line'
<1>1. /\ UNCHANGED <<ptys, sock, rx, queue, wire, screen, told, shed, shouldReconnect>>
      /\ UNCHANGED <<due, writing>> \/ (due' = screen /\ writing' = FALSE)
      /\ sock = "none" /\ wire = << >>
  BY DEF OnClose, Refused, Reconnect, Closed, PagingReset, socket, paging, IInv, Line, Connected, TypeOK
<1>2. conn' \in {"opening", "none"} /\ timer' \in BOOLEAN /\ (timer' => conn' = "none")
  BY DEF OnClose, Refused, Reconnect, Closed, IInv, Line, TypeOK
<1>3. TypeOK'
  BY <1>1, <1>2 DEF IInv, Line, TypeOK
<1>4. Connected'
  BY <1>1, <1>2 DEF IInv, Line, Connected
<1>5. Links' /\ Whole'
  BY <1>1 DEF IInv, Line, Links, Meets, Ready, Whole, NoSilentHole
<1> QED
  BY <1>1, <1>3, <1>4, <1>5 DEF IInv, Line
-----------------------------------------------------------------------------
(***************************************************************************)
(* The specification.                                                      *)
(***************************************************************************)
LEMMA InitIInv == Init => IInv
<1> SUFFICES ASSUME Init PROVE IInv
  OBVIOUS
<1>1. /\ ptys \in [Places -> Pty \cup {None}] /\ ptys["now"] = FreshPty /\ ptys["old"] = None
      /\ \A w \in Places : ptys[w] # None => Sound(ptys[w])
  BY FreshIsSound DEF Init, Places
<1>2. wire = << >> /\ queue = << >> /\ DOMAIN wire = {} /\ sock = "none" /\ screen = None /\ due = None
  BY DEF Init
<1>3. TypeOK
  <2>1. wire \in Seq(Message) /\ queue \in Seq(Piece)
    BY <1>2, EmptySeq
  <2>2. ptys["now"] \in Pty
    BY <1>1, FreshIsSound
  <2>3. /\ sock = "none" /\ rx = 1 /\ conn = "opening" /\ timer = FALSE
        /\ shouldReconnect = TRUE /\ screen = None /\ due = None
        /\ writing = FALSE /\ told = FALSE /\ shed = FALSE
    BY DEF Init
  <2>4. /\ timer \in BOOLEAN /\ shouldReconnect \in BOOLEAN
        /\ writing \in BOOLEAN /\ told \in BOOLEAN /\ shed \in BOOLEAN
    BY <2>3, Zenon
  <2>5. rx \in Nat \ {0}
    BY <2>3
  <2> QED
    BY <1>1, <2>1, <2>2, <2>3, <2>4, <2>5 DEF TypeOK
<1>4. Connected
  BY <1>1, <1>2 DEF Init, Connected
<1>5. Links /\ Whole
  BY <1>2 DEF Links, Whole, NoSilentHole
<1>6. HistoryFirst
  BY <1>2 DEF HistoryFirst
<1> QED
  BY <1>1, <1>2, <1>3, <1>4, <1>5, <1>6 DEF IInv, Line

LEMMA LineKept == ASSUME IInv, [Next]_vars PROVE Line'
<1>1. CASE \E w \in Places, n \in ChunkSizes : ReadChunk(w, n)
  BY <1>1, ReadChunkKeeps
<1>2. CASE \E w \in Places : SendChunk(w)
  BY <1>2, SendChunkKeeps
<1>3. CASE \E w \in Places : \/ ReadEnds(w) \/ StoreStopped(w) \/ WaitChild(w) \/ ChildExits(w)
                             \/ KillChild(w) \/ KillFlag(w) \/ KillSend(w)
  BY <1>3, PtyStepsKeep
<1>4. CASE KillCheck
  <2>1. "now" \in Places
    BY DEF Places
  <2> QED
    BY <1>4, <2>1, PtyStepsKeep
<1>5. CASE Socket
  BY <1>5, AttachKeeps, SubscribeKeeps, SendReadyKeeps, TakeSnapshotKeeps, SendHistoryKeeps,
     SendLiveKeeps, SendLaggedKeeps, SendExitKeeps, InputKeeps, InputFailsKeeps DEF Socket
<1>6. CASE Handle
  BY <1>6, HandleKeeps
<1>7. CASE OnClose \/ Refused \/ Reconnect
  BY <1>7, ChannelKeeps
<1>8. CASE Drop \/ Disconnect
  BY <1>8, BrokenKeeps
<1>9. CASE HistoryWritten
  BY <1>9, HistoryWrittenKeeps
<1>10. CASE UNCHANGED vars
  <2>1. UNCHANGED <<ptys, sock, rx, queue, wire, conn, timer, shouldReconnect, screen, due, writing,
                    told, shed>>
    BY <1>10 DEF vars, socket, channel, paging, paging
  <2>2. Heard' = Heard
    BY <2>1, SameHeard
  <2>3. TypeOK' /\ Connected'
    BY <2>1, <2>2 DEF IInv, Line, TypeOK, Connected
  <2>4. Links' /\ Whole' /\ (Clean' <=> Clean)
    BY <2>1 DEF IInv, Line, Links, Meets, Ready, Whole, NoSilentHole, Clean
  <2>5. (Bounded(Heard.produced)' <=> Bounded(Heard.produced)) /\ (Queued' <=> Queued)
    BY <2>1, <2>2 DEF Bounded, Ready, Queued, After
  <2>6. Caught' <=> Caught
    BY <2>1, <2>2 DEF Caught, Clean, Ready, ToldOfLoss, ShownFrom, ShownTo, After
  <2> QED
    BY <2>1, <2>3, <2>4, <2>5, <2>6 DEF IInv, Line
<1> QED
  BY <1>1, <1>2, <1>3, <1>4, <1>5, <1>6, <1>7, <1>8, <1>9, <1>10 DEF Next

\* The history is sent before the loop, and what is due is on the screen as
\* long as no live frame was held back.
LEMMA HistoryFirstKept == ASSUME IInv, [Next]_vars PROVE HistoryFirst'
<1>1. PICK len \in Nat : len = Len(wire) /\ DOMAIN wire = 1 .. len /\ wire \in Seq(Message)
  BY LenProperties DEF IInv, Line, TypeOK
\* The wire and the screen stay, and no task comes to its history.
<1>2. ASSUME UNCHANGED <<wire, screen, due>>, sock' \in {"ready", "history"} => sock \in {"ready", "history"}
      PROVE  HistoryFirst'
  BY <1>2 DEF IInv, HistoryFirst, Ready
\* What is due is on the screen.
<1>3. ASSUME wire' = wire, sock' = sock, screen' = due'
      PROVE  HistoryFirst'
  BY <1>3 DEF IInv, HistoryFirst, Ready
\* Nothing is on the wire, and no task is sending.
<1>4. ASSUME wire' = << >>, sock' \notin {"ready", "history"}
      PROVE  HistoryFirst'
  <2>1. DOMAIN wire' = {}
    BY <1>4
  <2> QED
    BY <1>4, <2>1 DEF HistoryFirst
\* A message is put on the wire.
<1>5. ASSUME NEW m \in Message, wire' = Append(wire, m), UNCHANGED <<screen, due>>,
             m.kind = "history" => sock = "history",
             sock' \in {"ready", "history"} => m.kind # "live" /\ sock \in {"ready", "history"}
      PROVE  HistoryFirst'
  <2>1. /\ DOMAIN wire' = 1 .. len + 1 /\ wire'[len + 1] = m
        /\ \A i \in 1 .. len : wire'[i] = wire[i]
    BY <1>1, <1>5, AppendProperties, LenProperties
  <2>2. \A i \in 1 .. len + 1 : i \in 1 .. len \/ i = len + 1
    BY <1>1
  <2>3. Ready => Ready'
    <3>1. ASSUME Ready PROVE wire' # << >> /\ wire'[1] = wire[1]
      <4>1. len # 0
        BY <1>1, <3>1, EmptySeq DEF Ready
      <4>2. 1 \in 1 .. len /\ 1 \in 1 .. len + 1
        BY <1>1, <4>1
      <4> QED
        BY <2>1, <4>2, EmptySeq
    <3> QED
      BY <3>1 DEF Ready
  <2>4. \A i, j \in DOMAIN wire' : i < j /\ wire'[i].kind = "live" => wire'[j].kind # "history"
    <3>1. \A i, j \in 1 .. len : i < j /\ wire[i].kind = "live" => wire[j].kind # "history"
      BY <1>1 DEF IInv, HistoryFirst
    <3>2. m.kind = "history" => \A i \in 1 .. len : wire[i].kind # "live"
      BY <1>1, <1>5 DEF IInv, HistoryFirst
    <3>3. \A i, j \in 1 .. len + 1 : i < j => i \in 1 .. len
      BY <1>1
    <3> QED
      BY <2>1, <2>2, <3>1, <3>2, <3>3
  <2>5. sock' \in {"ready", "history"} => \A i \in DOMAIN wire' : wire'[i].kind # "live"
    BY <1>1, <1>5, <2>1, <2>2 DEF IInv, HistoryFirst
  <2>6. sock' \in {"ready", "history"} \/ (\E i \in DOMAIN wire' : wire'[i].kind = "history")
        => Ready' \/ screen' = due'
    BY <1>1, <1>5, <2>1, <2>2, <2>3 DEF IInv, HistoryFirst
  <2> QED
    BY <2>4, <2>5, <2>6 DEF HistoryFirst
<1>6. ASSUME \/ \E w \in Places : \/ \E n \in ChunkSizes : ReadChunk(w, n)
                                 \/ SendChunk(w) \/ ReadEnds(w) \/ StoreStopped(w) \/ WaitChild(w)
                                 \/ ChildExits(w) \/ KillChild(w) \/ KillFlag(w) \/ KillSend(w)
             \/ KillCheck \/ SubscribeOutput \/ SubscribeExit \/ TakeSnapshot \/ Input
             \/ Reconnect \/ UNCHANGED vars
      PROVE  HistoryFirst'
  <2>1. UNCHANGED <<wire, screen, due>>
    BY <1>6 DEF ReadChunk, SendChunk, ReadEnds, StoreStopped, WaitChild, ChildExits, KillChild,
       KillFlag, KillSend, KillCheck, Becomes, SubscribeOutput, SubscribeExit, TakeSnapshot, Input,
       Reconnect, vars, channel, paging
  <2>2. sock' \in {"ready", "history"} => sock \in {"ready", "history"}
    BY <1>6 DEF ReadChunk, SendChunk, ReadEnds, StoreStopped, WaitChild, ChildExits, KillChild,
       KillFlag, KillSend, KillCheck, Becomes, SubscribeOutput, SubscribeExit, TakeSnapshot, Input,
       Reconnect, vars, socket
  <2> QED
    BY <1>2, <2>1, <2>2
<1>7. CASE Attach
  BY <1>4, <1>7 DEF Attach
<1>8. CASE SendReady
  <2>1. wire' = <<Note("ready")>>
    BY <1>8 DEF SendReady, IInv, Line, Connected
  <2>2. DOMAIN wire' = {1} /\ wire'[1].kind = "ready" /\ wire' # << >>
    BY <2>1 DEF Note
  <2> QED
    BY <2>2 DEF HistoryFirst, Ready
<1>9. CASE SendHistory
  <2>1. CASE queue = << >>
    BY <1>2, <1>9, <2>1 DEF SendHistory, channel, paging
  <2>2. CASE queue # << >>
    <3>1. PICK piece \in Piece : piece = Head(queue)
      BY <2>2, HeadTailProperties DEF IInv, Line, TypeOK
    <3>2. PICK m \in Message : m = Frame("history", piece) /\ m.kind = "history"
      BY MessagesAreMessages DEF Frames
    <3> QED
      BY <1>5, <1>9, <2>2, <3>1, <3>2 DEF SendHistory, channel, paging
  <2> QED
    BY <2>1, <2>2
<1>10. CASE SendLive
  <2>1. PICK piece \in Piece : piece = Heard.frames[rx]
    <3>1. Heard.frames \in Seq(Piece)
      BY HeardIsSound DEF Pty
    <3>2. PICK frames \in Seq(Piece) : frames = Heard.frames
      BY <3>1
    <3>3. rx \in 1 .. Len(frames) /\ DOMAIN frames = 1 .. Len(frames)
      BY <1>10, <3>2, LenProperties DEF SendLive, IInv, Line, TypeOK
    <3> QED
      BY <3>2, <3>3, ElementOfSeq
  <2>2. PICK m \in Message : m = Frame("live", piece) /\ m.kind = "live"
    BY MessagesAreMessages DEF Frames
  <2> QED
    BY <1>5, <1>10, <2>1, <2>2 DEF SendLive, channel, paging
<1>11. CASE SendLagged \/ SendExit \/ InputFails
  <2>1. PICK m \in Message : wire' = Append(wire, m) /\ m.kind \in {"lagged", "exit", "unwritten"}
    BY <1>11, MessagesAreMessages DEF SendLagged, SendExit, InputFails
  <2>2. UNCHANGED <<screen, due>> /\ sock' \notin {"ready", "history"}
    BY <1>11 DEF SendLagged, SendExit, InputFails, Detached, channel, paging, socket
  <2> QED
    BY <1>5, <2>1, <2>2
<1>12. CASE Handle
  <2>1. wire # << >> /\ wire' = Tail(wire) /\ sock' = sock
    BY <1>12 DEF Handle, socket
  <2>2. len # 0
    BY <1>1, <2>1, EmptySeq
  <2>3. /\ DOMAIN wire' = 1 .. len - 1
        /\ \A i \in 1 .. len - 1 : wire'[i] = wire[i + 1] /\ i + 1 \in 1 .. len
    <3>1. /\ wire' \in Seq(Message) /\ Len(wire') = len - 1
          /\ \A i \in 1 .. len - 1 : wire'[i] = wire[i + 1]
      BY <1>1, <2>1, <2>2, HeadTailProperties
    <3> QED
      BY <1>1, <2>2, <3>1, LenProperties
  <2>4. Head(wire) = wire[1] /\ 1 \in 1 .. len /\ \A i \in 1 .. len - 1 : 1 < i + 1
    BY <1>1, <2>1, <2>2, HeadTailProperties
  <2>5. \A i, j \in DOMAIN wire' : i < j /\ wire'[i].kind = "live" => wire'[j].kind # "history"
    <3>1. \A i, j \in 1 .. len - 1 : i < j => i + 1 < j + 1
      BY <1>1
    <3> QED
      BY <1>1, <2>3, <3>1 DEF IInv, HistoryFirst
  <2>6. sock' \in {"ready", "history"} => \A i \in DOMAIN wire' : wire'[i].kind # "live"
    BY <1>1, <2>1, <2>3 DEF IInv, HistoryFirst
  <2>7. ASSUME sock' \in {"ready", "history"} \/ (\E i \in DOMAIN wire' : wire'[i].kind = "history")
        PROVE  screen' = due'
    <3>1. wire[1].kind # "live"
      BY <1>1, <2>1, <2>3, <2>4, <2>7 DEF IInv, HistoryFirst
    <3>2. Ready \/ screen = due
      BY <1>1, <2>1, <2>3, <2>7 DEF IInv, HistoryFirst
    <3>3. Ready <=> wire[1].kind = "ready"
      BY <2>1 DEF Ready
    <3> QED
      BY <1>12, <2>4, <3>1, <3>2, <3>3 DEF Handle, HandleReady, HandleFrame, HandleError, HandleExit,
         PagingReset, paging
  <2> QED
    BY <2>5, <2>6, <2>7 DEF HistoryFirst
<1>13. CASE HistoryWritten
  <2>1. wire' = wire /\ sock' = sock /\ screen' = due'
    BY <1>13 DEF HistoryWritten, socket
  <2> QED
    BY <1>3, <2>1
<1>14. CASE OnClose \/ Refused \/ Drop \/ Disconnect
  <2>1. wire' = << >> /\ sock' = "none"
    BY <1>14 DEF OnClose, Refused, Drop, Disconnect, Detached, socket, IInv, Line, Connected
  <2> QED
    BY <1>4, <2>1
<1> QED
  BY <1>6, <1>7, <1>8, <1>9, <1>10, <1>11, <1>12, <1>13, <1>14 DEF Next, Socket

LEMMA NextIInv == IInv /\ [Next]_vars => IInv'
  BY LineKept, HistoryFirstKept DEF IInv

\* Whatever the threads, the socket task, the transport and the browser do,
\* what the browser is shown is a stretch of the stream of one PTY up to what
\* is still to be sent, or it has been told of the loss, or an error threw away
\* frames that it held back.
LEMMA Inductive == Spec => []IInv
<1>1. Init => IInv
  BY InitIInv
<1>2. IInv /\ [Next]_vars => IInv'
  BY NextIInv
<1> QED
  BY <1>1, <1>2, PTL DEF Spec

\* The terminal never shows output with a piece missing unless, on this
\* connection, the client was told of a loss or an error event threw away what
\* was held back (ws/terminal.rs subscribes before it reads the history;
\* reader.rs pushes before it broadcasts; TerminalPagingController.ts writes
\* what it holds back when the history is written).
THEOREM NoHoleIsSilent == Spec => []NoSilentHole
<1>1. IInv => NoSilentHole
  BY DEF IInv, Line, Whole
<1> QED
  BY <1>1, Inductive, PTL

\* A client that has handled all there is to handle, xterm's callbacks among
\* it, shows everything the history of its PTY retains, up to the last byte that
\* the reader thread pushed; unless, on this connection, it was told of a loss
\* or an error event threw away what was held back.
THEOREM SettledIsComplete == Spec => []SettledMeansComplete
<1>1. ASSUME IInv PROVE SettledMeansComplete
  <2> SUFFICES ASSUME sock = "loop", wire = << >>, rx > Len(Heard.frames), Heard.reader # "pushed",
                      ~writing, ~told, ~shed, Heard.hist.start < Heard.hist.end
               PROVE  screen # None /\ screen.from =< Heard.hist.start /\ screen.to = Heard.hist.end
    BY DEF SettledMeansComplete
  <2>1. PICK a \in Pty : a = Heard /\ Sound(a)
    BY <1>1, HeardIsSound
  <2>2. /\ a.produced \in Nat /\ a.hist.start \in Nat
        /\ a.hist.end = a.produced /\ a.hist.start < a.produced
    BY <1>1, <2>1, HeardIsSound
  <2>3. Len(a.frames) \in Nat /\ rx \in Nat
    BY <1>1, LenProperties DEF IInv, Line, TypeOK, Pty
  <2>4. Upcoming(a, rx) = a.produced
    BY <2>1, <2>3 DEF Upcoming, Sound
  <2>5. queue = << >> /\ Len(queue) = 0
    BY <1>1, EmptySeq DEF IInv, Line, Connected
  <2>6. After(0) = a.produced
    BY <2>1, <2>4, <2>5 DEF After
  <2>7. ~ Ready /\ DOMAIN wire = {}
    BY DEF Ready
  <2>8. ~ ToldOfLoss
    BY <2>7 DEF ToldOfLoss
  <2>9. ~ (After(0) =< a.hist.start)
    BY <2>2, <2>6
  <2>10. ShownFrom(a.hist.start) /\ ShownTo(a.produced)
    BY <1>1, <2>1, <2>6, <2>8, <2>9 DEF IInv, Line, Caught
  <2>11. screen # None /\ screen.from =< a.hist.start /\ a.produced =< screen.to
    BY <1>1, <2>7, <2>10 DEF IInv, Line, Whole, ShownFrom, ShownTo
  <2>12. screen.to =< a.produced /\ screen.to \in Nat
    BY <1>1, <2>1, <2>7, <2>11, Numbers DEF IInv, Line, Bounded
  <2> QED
    BY <2>1, <2>2, <2>11, <2>12
<1> QED
  BY <1>1, Inductive, PTL
=============================================================================

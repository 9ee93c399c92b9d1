----------------------------- MODULE StreamRing -----------------------------
(***************************************************************************)
(* The stream mode of the ring buffer (runtime/ring.h): one writer and one *)
(* reader move bytes through a ring whose size is a power of two, with no  *)
(* lock.  Each side has a copying call and a pair of non-copying calls     *)
(* (get a vector of at most two pieces, advance).  A call is split where   *)
(* the other side can see it: load of the other's index, copy of the first *)
(* piece, copy of the second, store of the own index.  Bytes are numbered  *)
(* in the order they are written, modulo Labels; with Labels prime to the  *)
(* size of the ring, bytes of successive laps at one offset differ.        *)
(***************************************************************************)
EXTENDS Integers, Sequences

CONSTANTS Asked,                   \* the size asked for in ringheader_init()
          WriteCounts, ReadCounts, \* the cnt the two sides pass
          WriteCalls,              \* of "vector", "copy"
          ReadCalls,               \* of "vector", "copy", "peek", "flush"
          Labels                   \* bound: distinct bytes

ASSUME StreamAssumption ==
    /\ Asked \in 1 .. 2 ^ 30 /\ Labels \in Nat \ {0}
    /\ WriteCounts \subseteq Nat \ {0} /\ ReadCounts \subseteq Nat \ {0}
    /\ WriteCalls \subseteq {"vector", "copy"}
    /\ ReadCalls \subseteq {"vector", "copy", "peek", "flush"}

Powers == {2 ^ k : k \in 0 .. 30}

\* The least power of two that is not less than v.
next_power_of_two(v) ==
    LET Enough == {p \in Powers : p >= v}
    IN  CHOOSE p \in Enough : \A q \in Enough : p <= q

\* Stream mode branch of ring_storage_alloc(): never less than a cache line.
Size == ((next_power_of_two(Asked) + 63) \div 64) * 64

Offsets == 0 .. Size - 1
Foreign == Labels      \* a byte that is not one of the ring

VARIABLES
    head, tail, buf,   \* the header, the trailer and the storage between them
    wpc, w,            \* the writer's position in a call, and its locals
    rpc, r, got,       \* the reader's, and the bytes it has been given
    wseq, rseq, held   \* history: next byte to write, to read; bytes in the ring

writerVars == <<wpc, w, wseq>>
readerVars == <<rpc, r, got, rseq>>
vars == <<head, tail, buf, writerVars, readerVars, held>>

NoCall == [how |-> "none", n1 |-> 0, n2 |-> 0]

Init ==
    /\ head = 0 /\ tail = 0 /\ buf = [o \in Offsets |-> Foreign]
    /\ wpc = "idle" /\ w = NoCall
    /\ rpc = "idle" /\ r = NoCall /\ got = <<>>
    /\ wseq = 0 /\ rseq = 0 /\ held = 0

\* Mutant: a full ring looks like an empty one.
stream_write_space_Full ==
    IF tail > head THEN (head - tail + Size) % Size
    ELSE IF tail < head THEN head - tail ELSE Size

\* Mutant: nothing can be written behind the end of the ring.
stream_write_space_NoWrap ==
    IF tail >= head THEN Size - 1 - tail ELSE head - tail - 1

stream_write_space ==
    IF tail > head THEN ((head - tail + Size) % Size) - 1
    ELSE IF tail < head THEN head - tail - 1 ELSE Size - 1

stream_read_space ==
    IF tail > head THEN tail - head ELSE (tail - head + Size) % Size

\* The pieces of n bytes from offset o.
Pieces(how, o, n) ==
    IF o + n > Size THEN [how |-> how, n1 |-> Size - o, n2 |-> (o + n) % Size]
    ELSE [how |-> how, n1 |-> n, n2 |-> 0]

AtMost(cnt, space) == IF cnt > space THEN space ELSE cnt
-----------------------------------------------------------------------------
(* The writer: stream_write(), or stream_get_write_vector(), a fill and    *)
(* stream_write_advance().                                                 *)

WriteSpace(how, cnt) ==
    /\ wpc = "idle" /\ stream_write_space # 0
    /\ w' = Pieces(how, tail, AtMost(cnt, stream_write_space))
    /\ wpc' = "copy1"
    /\ UNCHANGED <<head, tail, buf, wseq, readerVars, held>>

\* No space: the call returns 0.
WriteNone == wpc = "idle" /\ stream_write_space = 0 /\ UNCHANGED vars

WriteCopy1 ==
    /\ wpc = "copy1"
    /\ buf' = [o \in Offsets |->
                 IF o \in tail .. tail + w.n1 - 1 THEN (wseq + o - tail) % Labels
                 ELSE buf[o]]
    /\ wpc' = IF w.n2 = 0 THEN "advance" ELSE "copy2"
    /\ UNCHANGED <<head, tail, w, wseq, readerVars, held>>

\* Mutant: the second piece is never filled in, and the bytes of the lap before
\* stay there.
WriteCopy2_Stale ==
    /\ wpc = "copy2"
    /\ wpc' = "advance"
    /\ UNCHANGED <<head, tail, buf, w, wseq, readerVars, held>>

\* The second piece lies at the start of the ring.  But stream_write() copies it
\* to buf[tail + n1], behind the storage: that is the trailer, with the tail
\* first.  What the tail becomes depends on the bytes (and is masked at the next
\* store).
WriteCopy2 ==
    /\ wpc = "copy2"
    /\ IF w.how = "copy"
       THEN tail' \in Offsets /\ UNCHANGED buf
       ELSE /\ buf' = [o \in Offsets |-> IF o < w.n2 THEN (wseq + w.n1 + o) % Labels
                                         ELSE buf[o]]
            /\ UNCHANGED tail
    /\ wpc' = "advance"
    /\ UNCHANGED <<head, w, wseq, readerVars, held>>

WriteAdvance ==
    /\ wpc = "advance"
    /\ tail' = (tail + w.n1 + w.n2) % Size
    /\ wseq' = (wseq + w.n1 + w.n2) % Labels /\ held' = held + w.n1 + w.n2
    /\ wpc' = "idle" /\ w' = NoCall
    /\ UNCHANGED <<head, buf, readerVars>>

Writer == \/ \E how \in WriteCalls, cnt \in WriteCounts : WriteSpace(how, cnt)
          \/ WriteNone \/ WriteCopy1 \/ WriteCopy2 \/ WriteAdvance
-----------------------------------------------------------------------------
(* The reader: stream_read(), stream_peek(), stream_flush(), or            *)
(* stream_get_read_vector(), a use of the data and stream_read_advance().  *)

\* stream_flush() passes over all there is.
ReadSpace(how, cnt) ==
    /\ rpc = "idle" /\ stream_read_space # 0
    /\ r' = Pieces(how, head, IF how = "flush" THEN stream_read_space
                              ELSE AtMost(cnt, stream_read_space))
    /\ rpc' = IF how = "flush" THEN "advance" ELSE "copy1"
    /\ UNCHANGED <<head, tail, buf, got, rseq, writerVars, held>>

\* No data: the call returns 0.
ReadNone == rpc = "idle" /\ stream_read_space = 0 /\ UNCHANGED vars

ReadCopy1 ==
    /\ rpc = "copy1"
    /\ got' = [i \in 1 .. r.n1 |-> buf[head + i - 1]]
    /\ rpc' = IF r.n2 = 0 THEN "advance" ELSE "copy2"
    /\ UNCHANGED <<head, tail, buf, r, rseq, writerVars, held>>

\* Mutant: every reader goes on behind the end of the storage.
ReadCopy2_Behind ==
    /\ rpc = "copy2"
    /\ got' = got \o [i \in 1 .. r.n2 |-> Foreign]
    /\ rpc' = "advance"
    /\ UNCHANGED <<head, tail, buf, r, rseq, writerVars, held>>

\* The second piece: at the start of the ring, but stream_read() copies from
\* buf[head + n1], which is the trailer.
ReadCopy2 ==
    /\ rpc = "copy2"
    /\ got' = got \o [i \in 1 .. r.n2 |->
                        IF r.how = "copy" THEN Foreign ELSE buf[i - 1]]
    /\ rpc' = "advance"
    /\ UNCHANGED <<head, tail, buf, r, rseq, writerVars, held>>

\* stream_peek() returns, ...
PeekReturns ==
    /\ rpc = "advance" /\ r.how = "peek"
    /\ rpc' = "idle" /\ r' = NoCall /\ got' = <<>>
    /\ UNCHANGED <<head, tail, buf, rseq, writerVars, held>>

\* ... the others store head.
ReadAdvance ==
    /\ rpc = "advance" /\ r.how # "peek"
    /\ head' = (head + r.n1 + r.n2) % Size
    /\ rseq' = (rseq + r.n1 + r.n2) % Labels /\ held' = held - (r.n1 + r.n2)
    /\ rpc' = "idle" /\ r' = NoCall /\ got' = <<>>
    /\ UNCHANGED <<tail, buf, writerVars>>

Reader == \/ \E how \in ReadCalls, cnt \in ReadCounts : ReadSpace(how, cnt)
          \/ ReadNone \/ ReadCopy1 \/ ReadCopy2 \/ PeekReturns \/ ReadAdvance
-----------------------------------------------------------------------------
Next == Writer \/ Reader

Spec == Init /\ [][Next]_vars

\* Each side goes on calling, and neither waits for the other inside a call.  A
\* reader that peeks and flushes also reads.
Delivering == {"vector", "copy"}
ReadCall == \E how \in ReadCalls \cap Delivering, cnt \in ReadCounts : ReadSpace(how, cnt)

FairSpec == Spec /\ WF_vars(Writer) /\ WF_vars(Reader) /\ SF_vars(ReadCall)
-----------------------------------------------------------------------------
(* Properties.                                                             *)

Pcs == {"idle", "copy1", "copy2", "advance"}

TypeOK ==
    /\ head \in Offsets /\ tail \in Offsets
    /\ buf \in [Offsets -> 0 .. Labels]
    /\ wpc \in Pcs /\ rpc \in Pcs
    /\ w \in [how : {"none", "vector", "copy"}, n1 : 0 .. Size, n2 : Offsets]
    /\ r \in [how : {"none", "vector", "copy", "peek", "flush"},
              n1 : 0 .. Size, n2 : Offsets]
    /\ got \in Seq(0 .. Labels)
    /\ wseq \in Nat /\ rseq \in Nat /\ held \in Offsets

\* The indices account for every byte: those written and not yet read are the
\* ones between head and tail, and wait there unharmed whatever is written next.
UnreadIntact ==
    /\ held = (tail - head + Size) % Size
    /\ \A i \in 0 .. held - 1 : buf[(head + i) % Size] = (rseq + i) % Labels

\* The reader is given the bytes in the order they were written, none lost, none
\* twice, across the end of the ring too.
InOrder == \A i \in 1 .. Len(got) : got[i] = (rseq + i - 1) % Labels

\* The space the writer was given stays free until it is done, and the bytes the
\* reader was given stay there, though each computed them from an index of the
\* other that has moved on since.
SpacesApart ==
    /\ wpc # "idle" => held + w.n1 + w.n2 < Size
    /\ rpc # "idle" => r.n1 + r.n2 <= held

\* Bytes in the ring are handed to a reader that goes on calling; peeks, and the
\* flushes that throw some away, do not count.  And a ring that is full, or has its
\* free space in two pieces, does not stop the writer: it commits again and again.
BytesMove ==
    /\ held > 0 ~> rpc = "advance" /\ r.how \in Delivering /\ got # <<>>
    /\ []<>(wpc = "advance" /\ w.n1 + w.n2 > 0)
=============================================================================

------------------------------ MODULE RecordRing ------------------------------
(***************************************************************************)
(* The record mode of the shared-memory ring buffer (runtime/ring.h): one  *)
(* writer and one reader in different threads or processes, no lock.  The  *)
(* ring's storage is modelled word by word (a record's size field and its  *)
(* payload are words of the same memory), and every load or store of a     *)
(* shared variable (head, tail, a word of storage) is a step of its own,   *)
(* in program order: the barriers of the code (rtapi_smp_wmb/rmb) are what *)
(* makes that order visible to the other side.                             *)
(***************************************************************************)
EXTENDS Integers, Sequences

CONSTANTS RingSize,   \* the size asked for in ringheader_init()
          RecSizes,   \* the record sizes the writer asks for, in bytes
          Payloads,   \* what a payload word can hold (an integer: payload
                      \* bytes can be taken for a size field by mistake)
          StaleWords  \* what a word of the storage can hold at the start:
                      \* ringheader_init() does not clear it

RB_ALIGN == 8
SizeofSize == 4       \* sizeof(rrecsize_t)
CacheLine == 64       \* RTAPI_CACHELINE

\* RTAPI_ALIGN(x, a): x rounded up to a multiple of a
Align(x, a) == ((x + a - 1) \div a) * a

size_aligned(x) == Align(x, RB_ALIGN)

\* Space a record of sz bytes takes, size field included.
record_usage(sz) == size_aligned(sz + SizeofSize)

\* Record mode branch of ring_storage_alloc(): never less than a cache line.
Size == Align(size_aligned(RingSize), CacheLine)

Offsets == {o \in 0 .. Size - 1 : o % RB_ALIGN = 0}
Words   == {w \in 0 .. Size - 1 : w % SizeofSize = 0}

ASSUME RingAssumption ==
    /\ RingSize \in Nat \ {0}
    /\ RecSizes \subseteq Nat
    /\ Payloads \subseteq Int
    /\ StaleWords \subseteq Int

VARIABLES
    head,      \* header->head, written by the reader
    tail,      \* trailer->tail, written by the writer
    mem,       \* header->buf, as 4-byte words
    wpc, w,    \* the writer's position in record_write(), and its locals
    rpc, r,    \* the reader's position in record_read()/record_shift(), locals
    recs,      \* history: the committed records not yet consumed
    delivered  \* history: the last record consumed, as the reader saw it

vars == <<head, tail, mem, wpc, w, rpc, r, recs, delivered>>
writerVars == <<tail, wpc, w>>
readerVars == <<head, rpc, r, delivered>>

\* The payload words of a record of sz bytes at offset pos.
PayloadWords(pos, sz) ==
    {x \in Words : pos + SizeofSize <= x /\ x < pos + SizeofSize + sz}

None == [sz |-> -1, words |-> {}]

\* The locals between two calls.
NoWrite == [req |-> 0, sz |-> 0, val |-> 0, pos |-> 0]
NoRead  == [off |-> 0, sz |-> 0, words |-> {}]

Init ==
    /\ head = 0 /\ tail = 0
    /\ mem \in [Words -> StaleWords]
    /\ wpc = "idle" /\ w = NoWrite
    /\ rpc = "idle" /\ r = NoRead
    /\ recs = <<>>
    /\ delivered = None
-----------------------------------------------------------------------------
(* The writer: record_write_begin(), the fill, record_write_end().         *)

\* The caller decides to write: up to req bytes, of which it will commit sz
\* (record_write() commits what it asked for).
WriteRequest ==
    /\ wpc = "idle"
    /\ \E req, sz \in RecSizes, v \in Payloads :
          /\ sz <= req
          /\ w' = [req |-> req, sz |-> sz, val |-> v, pos |-> 0]
    /\ wpc' = "begin"
    /\ UNCHANGED <<tail, mem, recs, readerVars>>

\* The caller may drop a record it could not write.
GiveUp ==
    /\ wpc = "begin"
    /\ wpc' = "idle" /\ w' = NoWrite
    /\ UNCHANGED <<tail, mem, recs, readerVars>>

\* Free space as record_write_begin() computes it: head = tail is empty.
FreeSpace == ((Size + head - tail - 1) % Size) + 1

Fits(a) == FreeSpace > a

\* Mutant: no room is kept for the size field of the record to come.
record_write_space_NoHeader ==
    LET avail == IF tail < head THEN head - tail
                 ELSE IF head > Size - tail THEN head ELSE Size - tail
    IN  IF avail > RB_ALIGN THEN avail - RB_ALIGN ELSE 0

\* record_write_space(): the largest write the caller can count on.
record_write_space ==
    LET avail == IF tail < head THEN head - tail
                 ELSE IF head > Size - tail THEN head ELSE Size - tail
    IN  IF avail > 2 * RB_ALIGN THEN avail - (2 * RB_ALIGN) ELSE 0

\* First load of head: ERANGE ends the call, EAGAIN leaves the caller to try
\* again, otherwise the write goes at the tail or wraps.
WriteBegin ==
    /\ wpc = "begin"
    /\ LET a == record_usage(w.req) IN
          \/ /\ a > Size                        \* ERANGE
             /\ wpc' = "idle" /\ w' = NoWrite
          \/ /\ a <= Size /\ Fits(a)
             /\ IF tail + a > Size
                THEN wpc' = "begin_wrap" /\ UNCHANGED w
                ELSE wpc' = "fill" /\ w' = [w EXCEPT !.pos = tail]
    /\ UNCHANGED <<tail, mem, recs, readerVars>>

\* Mutant: a record at the start of the ring may reach up to head.
WriteBeginWrap_Full ==
    /\ wpc = "begin_wrap"
    /\ IF head < record_usage(w.req)
       THEN wpc' = "begin" /\ UNCHANGED w
       ELSE wpc' = "fill" /\ w' = [w EXCEPT !.pos = 0]
    /\ UNCHANGED <<tail, mem, recs, readerVars>>

\* Mutant: free space in all is taken for free space in one piece.
WriteBeginWrap_Unchecked ==
    /\ wpc = "begin_wrap"
    /\ wpc' = "fill" /\ w' = [w EXCEPT !.pos = 0]
    /\ UNCHANGED <<tail, mem, recs, readerVars>>

\* Second load of head: does the record fit at the start of the ring?
WriteBeginWrap ==
    /\ wpc = "begin_wrap"
    /\ IF head <= record_usage(w.req)
       THEN wpc' = "begin" /\ UNCHANGED w       \* EAGAIN
       ELSE wpc' = "fill" /\ w' = [w EXCEPT !.pos = 0]
    /\ UNCHANGED <<tail, mem, recs, readerVars>>

\* The caller writes its payload at the address it was given.
WriteFill ==
    /\ wpc = "fill"
    /\ mem' = [x \in Words |-> IF x \in PayloadWords(w.pos, w.sz)
                               THEN w.val ELSE mem[x]]
    /\ wpc' = IF w.pos = 0 THEN "mark" ELSE "size"
    /\ UNCHANGED <<tail, w, recs, readerVars>>

\* Mutant: the record at the tail is not invalidated.
WriteMark_Missing ==
    /\ wpc = "mark"
    /\ wpc' = "reset"
    /\ UNCHANGED <<tail, mem, w, recs, readerVars>>

\* record_write_end(): data is at offset 0, so the record at the tail is
\* invalidated ...
WriteMark ==
    /\ wpc = "mark"
    /\ mem' = [mem EXCEPT ![tail] = -1]
    /\ wpc' = "reset"
    /\ UNCHANGED <<tail, w, recs, readerVars>>

\* ... and the tail moved to the start of the ring.
WriteReset ==
    /\ wpc = "reset"
    /\ tail' = 0
    /\ wpc' = "size"
    /\ UNCHANGED <<w, mem, recs, readerVars>>

\* Mutant: the size asked for is stored, not the size committed.
WriteSize_Asked ==
    /\ wpc = "size"
    /\ mem' = [mem EXCEPT ![tail] = w.req]
    /\ wpc' = "commit"
    /\ UNCHANGED <<tail, w, recs, readerVars>>

WriteSize ==
    /\ wpc = "size"
    /\ mem' = [mem EXCEPT ![tail] = w.sz]
    /\ wpc' = "commit"
    /\ UNCHANGED <<tail, w, recs, readerVars>>

\* Mutant: a record that ends at the end of the ring leaves the tail there.
WriteCommit_NoModulo ==
    /\ wpc = "commit"
    /\ tail' = tail + record_usage(w.sz)
    /\ recs' = Append(recs, [pos |-> w.pos, sz |-> w.sz, val |-> w.val])
    /\ wpc' = "idle" /\ w' = NoWrite
    /\ UNCHANGED <<mem, readerVars>>

\* The store that publishes the record.
WriteCommit ==
    /\ wpc = "commit"
    /\ tail' = (tail + record_usage(w.sz)) % Size
    /\ recs' = Append(recs, [pos |-> w.pos, sz |-> w.sz, val |-> w.val])
    /\ wpc' = "idle" /\ w' = NoWrite
    /\ UNCHANGED <<mem, readerVars>>
-----------------------------------------------------------------------------
(* The reader: record_read(), the use of the data, record_shift().         *)

\* record_read() = _ring_read_at(head): load of tail.  EAGAIN changes nothing.
ReadTail ==
    /\ rpc = "idle"
    /\ head # tail
    /\ rpc' = "read_size" /\ r' = [r EXCEPT !.off = head]
    /\ UNCHANGED <<head, delivered, mem, recs, writerVars>>

\* Mutant: a wrap mark is taken for the end of the data.
ReadSize_MarkIsEnd ==
    /\ rpc = "read_size"
    /\ IF mem[r.off] < 0
       THEN rpc' = "idle" /\ r' = NoRead
       ELSE rpc' = "hold" /\ r' = [r EXCEPT !.sz = mem[r.off]]
    /\ UNCHANGED <<head, delivered, mem, recs, writerVars>>

\* The size field: a wrap mark restarts _ring_read_at() at offset 0.
ReadSize ==
    /\ rpc = "read_size"
    /\ IF mem[r.off] < 0
       THEN rpc' = "read_tail0" /\ UNCHANGED r
       ELSE rpc' = "hold" /\ r' = [r EXCEPT !.sz = mem[r.off]]
    /\ UNCHANGED <<head, delivered, mem, recs, writerVars>>

\* _ring_read_at(0): load of tail again.
ReadTail0 ==
    /\ rpc = "read_tail0"
    /\ IF tail = 0
       THEN rpc' = "idle" /\ r' = NoRead        \* EAGAIN
       ELSE rpc' = "read_size" /\ r' = [r EXCEPT !.off = 0]
    /\ UNCHANGED <<head, delivered, mem, recs, writerVars>>

\* The caller uses the record where it lies in the ring.
UseData ==
    /\ rpc = "hold"
    /\ r' = [r EXCEPT !.words = {mem[x] : x \in PayloadWords(r.off, r.sz)}]
    /\ rpc' = "shift_tail"
    /\ UNCHANGED <<head, delivered, mem, recs, writerVars>>

\* The caller may also only peek (record_next(), record_next_size()).
Peeked ==
    /\ rpc = "hold"
    /\ rpc' = "idle" /\ r' = NoRead
    /\ UNCHANGED <<head, delivered, mem, recs, writerVars>>

\* record_shift() = _ring_shift_offset(head): head against tail, from the
\* start and again after a wrap mark.
ShiftTail ==
    /\ rpc = "shift_tail"
    /\ IF head = tail
       THEN rpc' = "idle" /\ r' = NoRead        \* EAGAIN
       ELSE rpc' = "shift_size" /\ r' = [r EXCEPT !.off = head]
    /\ UNCHANGED <<head, delivered, mem, recs, writerVars>>

ShiftTail0 ==
    /\ rpc = "shift_tail0"
    /\ IF head = tail
       THEN rpc' = "idle" /\ r' = NoRead        \* EAGAIN
       ELSE rpc' = "shift_size" /\ r' = [r EXCEPT !.off = 0]
    /\ UNCHANGED <<head, delivered, mem, recs, writerVars>>

\* Mutant: the shift takes a wrap mark for the end of the data.
ShiftSize_MarkIsEnd ==
    /\ rpc = "shift_size"
    /\ IF mem[r.off] < 0
       THEN rpc' = "idle" /\ r' = NoRead
       ELSE rpc' = "shift_head" /\ r' = [r EXCEPT !.sz = mem[r.off]]
    /\ UNCHANGED <<head, delivered, mem, recs, writerVars>>

ShiftSize ==
    /\ rpc = "shift_size"
    /\ IF mem[r.off] < 0
       THEN rpc' = "shift_tail0" /\ UNCHANGED r
       ELSE rpc' = "shift_head" /\ r' = [r EXCEPT !.sz = mem[r.off]]
    /\ UNCHANGED <<head, delivered, mem, recs, writerVars>>

\* The store that frees the record's space.
ShiftHead ==
    /\ rpc = "shift_head"
    /\ head' = (r.off + record_usage(r.sz)) % Size
    /\ delivered' = [sz |-> r.sz, words |-> r.words]
    /\ recs' = IF recs = <<>> THEN recs ELSE Tail(recs)
    /\ rpc' = "idle" /\ r' = NoRead
    /\ UNCHANGED <<mem, writerVars>>

\* record_flush() called by the reader: load of tail, then a compare-and-swap on
\* head, which cannot fail as only the reader stores head.  What the writer
\* commits in between stays in the ring.
FlushLoad ==
    /\ rpc = "idle"
    /\ rpc' = "flush" /\ r' = [r EXCEPT !.off = tail, !.sz = Len(recs)]
    /\ UNCHANGED <<head, delivered, mem, recs, writerVars>>

FlushCas ==
    /\ rpc = "flush"
    /\ head' = r.off
    /\ recs' = SubSeq(recs, r.sz + 1, Len(recs))
    /\ rpc' = "idle" /\ r' = NoRead
    /\ UNCHANGED <<delivered, mem, writerVars>>
-----------------------------------------------------------------------------
Writer == \/ WriteRequest \/ GiveUp \/ WriteBegin \/ WriteBeginWrap
          \/ WriteFill \/ WriteMark \/ WriteReset \/ WriteSize \/ WriteCommit

Reader == \/ ReadTail \/ ReadSize \/ ReadTail0 \/ UseData \/ Peeked
          \/ ShiftTail \/ ShiftTail0 \/ ShiftSize \/ ShiftHead
          \/ FlushLoad \/ FlushCas

Next == Writer \/ Reader

Spec == Init /\ [][Next]_vars

-----------------------------------------------------------------------------
(* Properties.                                                             *)

TypeOK ==
    /\ head \in Offsets /\ tail \in Offsets
    /\ mem \in [Words -> Int]
    /\ wpc \in {"idle", "begin", "begin_wrap", "fill", "mark", "reset", "size",
                "commit"}
    /\ w \in [req : Nat, sz : Nat, val : Int, pos : Offsets]
    /\ rpc \in {"idle", "read_size", "read_tail0", "hold", "shift_tail",
                "shift_tail0", "shift_size", "shift_head", "flush"}
    /\ r \in [off : Offsets, sz : Nat, words : SUBSET Int]
    /\ recs \in Seq([pos : Offsets, sz : Nat, val : Int])
    /\ delivered \in [sz : Int, words : SUBSET Int]

\* A committed record stays as it was written until it is consumed: neither
\* the fill of a later record nor its wrap mark or size field touches it.
RecordsIntact ==
    \A i \in 1 .. Len(recs) :
       /\ mem[recs[i].pos] = recs[i].sz
       /\ \A x \in PayloadWords(recs[i].pos, recs[i].sz) : mem[x] = recs[i].val

\* A record as its reader should see it.
WordsOf(rec) == IF rec.sz = 0 THEN {} ELSE {rec.val}

\* The record the reader was given is the oldest one and stays so, whatever the
\* writer does meanwhile, and it is the one record_shift() then frees.
ReaderHasOldest ==
    /\ rpc \in {"hold", "shift_head"} =>
          recs # <<>> /\ r.off = recs[1].pos /\ r.sz = recs[1].sz
    /\ rpc \in {"shift_tail", "shift_tail0", "shift_size", "shift_head"} =>
          recs # <<>> /\ r.words = WordsOf(recs[1])

\* With no write under way head = tail exactly when there is nothing to read.
EmptyIsHeadEqTail ==
    /\ head = tail => recs = <<>>
    /\ recs = <<>> /\ wpc \notin {"size", "commit"} => head = tail

\* A write of record_write_space() bytes succeeds, at once and in one piece,
\* whenever that is not 0, and whatever the reader does in between: it can only
\* free more space.
WriteSpaceSuffices ==
    wpc = "idle" /\ record_write_space > 0 =>
        LET a == record_usage(record_write_space) IN
        /\ Fits(a)
        /\ tail + a <= Size \/ head > a

\* The ring implements the queue of records.
AsRecord(rec) == [sz |-> rec.sz, words |-> WordsOf(rec)]

FIFO == INSTANCE RecordFIFO WITH
    Record <- {AsRecord(rec) : rec \in [pos : {0}, sz : RecSizes, val : Payloads]},
    NoRecord <- None,
    queue <- [i \in 1 .. Len(recs) |-> AsRecord(recs[i])]

ImplementsFIFO == FIFO!Spec

-----------------------------------------------------------------------------
(* The inductive invariant behind these properties.                        *)

\* Distance of offset o from head, going round the ring.
Dist(o) == IF o >= head THEN o - head ELSE o + Size - head

Used == Dist(tail)

\* The record expected at offset o really lies at p: either at o itself, or at
\* the start of the ring, with a wrap mark at o.
Leads(o, p) == p = o \/ (p = 0 /\ mem[o] = -1)

EndOf(rec) == (rec.pos + record_usage(rec.sz)) % Size

\* Each record lies in one piece between head and tail.
RecordsPlaced ==
    \A i \in 1 .. Len(recs) :
       /\ recs[i].pos + record_usage(recs[i].sz) <= Size
       /\ Dist(recs[i].pos) + record_usage(recs[i].sz) <= Used

\* Going round the ring the records come in the order they were written.
RecordsOrdered ==
    \A i, j \in 1 .. Len(recs) :
       i < j => Dist(recs[i].pos) + record_usage(recs[i].sz) <= Dist(recs[j].pos)

\* From head each record is found from the end of the one before it, up to
\* tail.
From(i) == IF i = 0 THEN head ELSE EndOf(recs[i])
To(i)   == IF i = Len(recs) THEN tail ELSE recs[i + 1].pos

RecordsChained == \A i \in 0 .. Len(recs) : Leads(From(i), To(i))

\* The tail is where the last record ends, except between WriteReset and
\* WriteCommit.
TailAtEnd == wpc \notin {"size", "commit"} => tail = From(Len(recs))

\* The space the writer was given is free, until the record is committed: at
\* the tail, or at the start of the ring with head still beyond it.
Writing == {"fill", "mark", "reset", "size", "commit"}

WriterSpace ==
    LET a == record_usage(w.req) IN
    /\ wpc # "idle" => w.sz <= w.req
    /\ wpc = "begin_wrap" => head <= tail /\ tail + a > Size
    /\ wpc \in Writing =>
          /\ w.pos + a <= Size
          /\ IF w.pos = tail THEN Used + a < Size
             ELSE w.pos = 0 /\ a < head /\ head <= tail
    /\ wpc \in {"mark", "reset"} => w.pos = 0
    /\ wpc \in {"size", "commit"} => w.pos = tail
    /\ wpc \in Writing \ {"fill"} =>
          \A x \in PayloadWords(w.pos, w.sz) : mem[x] = w.val
    /\ wpc = "reset" => mem[tail] = -1
    /\ wpc = "commit" => mem[tail] = w.sz

\* Moving head to off drops the n oldest records, and those only.
CutAt(off, n) ==
    /\ n \in 0 .. Len(recs)
    /\ Dist(off) <= Used
    /\ \A i \in 1 .. n : Dist(recs[i].pos) + record_usage(recs[i].sz) <= Dist(off)
    /\ \A i \in n + 1 .. Len(recs) : Dist(off) <= Dist(recs[i].pos)
    /\ Leads(off, To(n))
    /\ n = Len(recs) /\ wpc \notin {"size", "commit"} => off = tail

\* What the reader knows about the record at head.
ReaderKnows ==
    /\ rpc \in {"read_size", "shift_size"} =>
          \/ r.off = head
          \/ r.off = 0 /\ mem[head] = -1 /\ recs # <<>>
    /\ rpc \in {"read_size", "read_tail0"} => head # tail
    /\ rpc \in {"read_tail0", "shift_tail0"} => mem[head] = -1
    /\ rpc = "flush" => CutAt(r.off, r.sz)

RingInv == RecordsIntact /\ RecordsPlaced /\ RecordsOrdered /\ RecordsChained

IndInv == /\ TypeOK /\ RingInv /\ TailAtEnd /\ WriterSpace /\ ReaderKnows
          /\ ReaderHasOldest
=============================================================================

-------------------------- MODULE StreamRingProofs --------------------------
(***************************************************************************)
(* Theorems about StreamRing, for every size, every count and every mix of *)
(* calls without the copying ones, whose second piece is misplaced: what a *)
(* writer that does not copy keeps intact, and what a reader that does not *)
(* copy is given.                                                          *)
(***************************************************************************)
EXTENDS StreamRing, SequenceTheorems, TLAPS

-----------------------------------------------------------------------------
(* The size of the ring.                                                   *)

PowerLiterals ==
    {1, 2, 4, 8, 16, 32, 64, 128, 256, 512, 1024, 2048, 4096, 8192, 16384, 32768,
         65536, 131072, 262144, 524288, 1048576, 2097152, 4194304, 8388608,
         16777216, 33554432, 67108864, 134217728, 268435456, 536870912,
         1073741824}

(* The powers of two that an unsigned size is rounded to, as numbers.      *)
LEMMA PowersAre == Powers = PowerLiterals
<1>1. /\ 2 ^ 0 = 1 /\ 2 ^ 1 = 2 /\ 2 ^ 2 = 4 /\ 2 ^ 3 = 8 /\ 2 ^ 4 = 16
      /\ 2 ^ 5 = 32 /\ 2 ^ 6 = 64 /\ 2 ^ 7 = 128 /\ 2 ^ 8 = 256 /\ 2 ^ 9 = 512
      /\ 2 ^ 10 = 1024 /\ 2 ^ 11 = 2048 /\ 2 ^ 12 = 4096 /\ 2 ^ 13 = 8192 /\ 2 ^ 14 = 16384
      /\ 2 ^ 15 = 32768 /\ 2 ^ 16 = 65536 /\ 2 ^ 17 = 131072 /\ 2 ^ 18 = 262144
      /\ 2 ^ 19 = 524288 /\ 2 ^ 20 = 1048576 /\ 2 ^ 21 = 2097152 /\ 2 ^ 22 = 4194304
      /\ 2 ^ 23 = 8388608 /\ 2 ^ 24 = 16777216 /\ 2 ^ 25 = 33554432 /\ 2 ^ 26 = 67108864
      /\ 2 ^ 27 = 134217728 /\ 2 ^ 28 = 268435456 /\ 2 ^ 29 = 536870912 /\ 2 ^ 30 = 1073741824
  BY SMT
<1>2. \A k : k \in 0 .. 30 <=>
               k \in {0, 1, 2, 3, 4, 5, 6, 7, 8, 9, 10, 11, 12, 13, 14, 15, 16,
                      17, 18, 19, 20, 21, 22, 23, 24, 25, 26, 27, 28, 29, 30}
  BY SMT
<1> QED
  BY <1>1, <1>2 DEF Powers, PowerLiterals

(* Every size asked for has a power of two that next_power_of_two() finds. *)
LEMMA NextPower ==
    ASSUME NEW v \in Int, v >= 1, v <= 1073741824
    PROVE  \E p \in Powers : p >= v /\ \A q \in Powers : q >= v => p <= q
<1>1. PICK p \in PowerLiterals : v <= p /\ p < 2 * v
  BY SMT DEF PowerLiterals
<1>2. \A q \in PowerLiterals : q \in Int
  BY DEF PowerLiterals
<1>3. ASSUME NEW q \in PowerLiterals, q < p
      PROVE  2 * q <= p
  BY <1>3, SMT DEF PowerLiterals
<1>4. \A q \in PowerLiterals : q >= v => p <= q
  BY <1>1, <1>2, <1>3
<1> QED
  BY <1>1, <1>4, PowersAre

(* The ring has room: ring_storage_alloc() rounds up to a cache line.      *)
LEMMA SizeIs == Size \in Nat /\ Size > 0
<1> DEFINE p == next_power_of_two(Asked)
<1>1. Asked \in Int /\ Asked >= 1 /\ Asked <= 1073741824
  <2>1. 2 ^ 30 = 1073741824
    BY SMT
  <2> QED
    BY <2>1, StreamAssumption
<1>2. p \in Powers
  BY <1>1, NextPower DEF next_power_of_two
<1>3. p \in Int /\ p >= 1
  BY <1>2, PowersAre DEF PowerLiterals
<1>4. \A q \in Int : q >= 1 => (q + 63) \div 64 \in Nat /\ (q + 63) \div 64 >= 1
  BY SMT
<1>5. PICK d \in Nat : d = (p + 63) \div 64 /\ d >= 1
  BY <1>3, <1>4
<1>6. Size = d * 64
  BY <1>5 DEF Size
<1> QED
  BY <1>5, <1>6
-----------------------------------------------------------------------------
(* Arithmetic.                                                             *)

(* A remainder may be taken before or after adding.                        *)
LEMMA ModAdd ==
    ASSUME NEW L \in Nat, L > 0, NEW a \in Nat, NEW b \in Nat
    PROVE  ((a % L) + b) % L = (a + b) % L
<1>1. ASSUME NEW q \in Nat, NEW x \in 0 .. L - 1, NEW p \in Nat, NEW y \in 0 .. L - 1,
             L * q + x = L * p + y
      PROVE  x = y
  <2>1. CASE q > p
    <3>1. L * (q - p) >= L
      BY <2>1, SMT
    <3>2. L * (q - p) = L * q - L * p
      BY SMT
    <3> QED
      BY <3>1, <3>2, <1>1
  <2>2. CASE q < p
    <3>1. L * (p - q) >= L
      BY <2>2, SMT
    <3>2. L * (p - q) = L * p - L * q
      BY SMT
    <3> QED
      BY <3>1, <3>2, <1>1
  <2>3. CASE p = q
    BY <2>3, <1>1
  <2> QED
    BY <2>1, <2>2, <2>3
<1>2. \A c \in Nat : c = L * (c \div L) + (c % L) /\ c % L \in 0 .. L - 1 /\ c \div L \in Nat
  OBVIOUS
<1>3. PICK m \in 0 .. L - 1, d \in Nat : m = a % L /\ d = a \div L /\ a = L * d + m
  BY <1>2
<1>4. PICK n \in 0 .. L - 1, e \in Nat :
         n = (m + b) % L /\ e = (m + b) \div L /\ m + b = L * e + n
  BY <1>2
<1>5. PICK o \in 0 .. L - 1, f \in Nat :
         o = (a + b) % L /\ f = (a + b) \div L /\ a + b = L * f + o
  BY <1>2
<1>6. L * (d + e) = L * d + L * e /\ d + e \in Nat
  BY SMT
<1>7. L * (d + e) + n = L * f + o
  BY <1>3, <1>4, <1>5, <1>6
<1>8. n = o
  BY <1>1, <1>6, <1>7
<1> QED
  BY <1>3, <1>4, <1>5, <1>8

\* The offset i bytes behind o.
At(o, i) == IF o + i < Size THEN o + i ELSE o + i - Size

(* The masked index is the offset after at most one turn.                  *)
LEMMA Wraps ==
    ASSUME NEW o \in Offsets, NEW i \in 0 .. Size
    PROVE  At(o, i) \in Offsets /\ (o + i) % Size = At(o, i)
<1>1. Size \in Nat /\ Size > 0 /\ o \in Nat /\ o < Size /\ i \in Nat /\ i <= Size
  BY SizeIs DEF Offsets
<1>2. CASE o + i < Size
  <2>1. (o + i) % Size = o + i
    BY <1>1, <1>2
  <2> QED
    BY <1>1, <1>2, <2>1 DEF At, Offsets
<1>3. CASE ~(o + i < Size)
  <2>1. PICK a \in Nat : a = o + i - Size /\ a < Size
    BY <1>1, <1>3
  <2>2. (Size % Size) = 0
    BY <1>1
  <2>3. ((Size % Size) + a) % Size = (Size + a) % Size
    BY <1>1, ModAdd
  <2>4. a % Size = a /\ 0 + a = a
    BY <1>1, <2>1
  <2>5. Size + a = o + i
    BY <1>1, <2>1
  <2>6. (o + i) % Size = a
    BY <2>2, <2>3, <2>4, <2>5
  <2> QED
    BY <1>1, <1>3, <2>1, <2>6 DEF At, Offsets
<1> QED
  BY <1>2, <1>3
-----------------------------------------------------------------------------
(* What the two sides compute.                                             *)

\* The bytes between head and tail.
Used == IF tail >= head THEN tail - head ELSE tail - head + Size

(* The spaces that the two sides compute are what is between the indices   *)
(* and what is left, but for the byte that tells full from empty.          *)
LEMMA Spaces ==
    ASSUME head \in Offsets, tail \in Offsets
    PROVE  /\ Used \in Offsets
           /\ stream_read_space = Used
           /\ stream_write_space = Size - 1 - Used
           /\ (tail - head + Size) % Size = Used
<1>1. /\ Size \in Nat /\ Size > 0
      /\ head \in Nat /\ head < Size /\ tail \in Nat /\ tail < Size
  BY SizeIs DEF Offsets
<1>2. Used \in Offsets
  BY <1>1 DEF Used, Offsets
<1>3. CASE tail > head
  <2>1. PICK u \in 0 .. Size : u = tail - head /\ u < Size /\ u > 0
    BY <1>1, <1>3
  <2>2. PICK v \in Nat : v = head - tail + Size /\ v < Size
    BY <1>1, <1>3
  <2>3. v % Size = v
    BY <1>1, <2>2
  <2>4. (tail - head + Size) % Size = u
    <3>1. PICK x \in Offsets : x = u
      BY <1>1, <2>1 DEF Offsets
    <3>2. PICK y \in 0 .. Size : y = Size
      BY <1>1
    <3>3. (x + y) % Size = At(x, y) /\ x + y = tail - head + Size
      BY <3>1, <3>2, <2>1, <1>1, Wraps
    <3>4. At(x, y) = u
      BY <3>1, <3>2, <2>1, <1>1 DEF At
    <3> QED
      BY <3>3, <3>4
  <2>5. stream_read_space = u /\ Used = u
    BY <1>1, <1>3, <2>1 DEF stream_read_space, Used
  <2>6. stream_write_space = v - 1
    BY <1>3, <2>2, <2>3 DEF stream_write_space
  <2>7. v - 1 = Size - 1 - u
    BY <1>1, <2>1, <2>2
  <2> QED
    BY <1>2, <2>4, <2>5, <2>6, <2>7, Zenon
<1>4. CASE tail < head
  <2>1. PICK v \in Nat : v = tail - head + Size /\ v < Size
    BY <1>1, <1>4
  <2>2. v % Size = v
    BY <1>1, <2>1
  <2>3. stream_read_space = v /\ Used = v
    BY <1>1, <1>4, <2>1, <2>2 DEF stream_read_space, Used
  <2>4. stream_write_space = head - tail - 1
    BY <1>1, <1>4 DEF stream_write_space
  <2> QED
    BY <1>1, <1>2, <2>1, <2>2, <2>3, <2>4
<1>5. CASE tail = head
  <2>1. tail - head + Size = Size /\ Size % Size = 0
    BY <1>1, <1>5
  <2>2. stream_read_space = 0 /\ Used = 0 /\ stream_write_space = Size - 1
    BY <1>1, <1>5, <2>1 DEF stream_read_space, Used, stream_write_space
  <2> QED
    BY <1>1, <1>2, <2>1, <2>2
<1> QED
  BY <1>1, <1>3, <1>4, <1>5

\* The pieces of a call that starts at offset o reach the end of the ring before
\* there is a second one.
Shape(c, o) == IF c.n2 = 0 THEN o + c.n1 <= Size ELSE c.n1 = Size - o

(* A vector covers what was granted, in at most two pieces.                *)
LEMMA PiecesShape ==
    ASSUME NEW how, NEW o \in Offsets, NEW n \in Offsets
    PROVE  LET c == Pieces(how, o, n)
           IN  /\ c = [how |-> how, n1 |-> c.n1, n2 |-> c.n2]
               /\ c.n1 \in 0 .. Size /\ c.n2 \in Offsets
               /\ c.n1 + c.n2 = n /\ Shape(c, o)
<1>1. /\ Size \in Nat /\ Size > 0
      /\ o \in Nat /\ o < Size /\ n \in Nat /\ n < Size
  BY SizeIs DEF Offsets
<1>2. CASE o + n > Size
  <2>1. PICK m \in Offsets : m = (o + n) % Size /\ m = o + n - Size
    <3>1. n \in 0 .. Size
      BY <1>1
    <3> QED
      BY <1>1, <1>2, <3>1, Wraps DEF At
  <2>2. Pieces(how, o, n) = [how |-> how, n1 |-> Size - o, n2 |-> m]
    BY <1>2, <2>1 DEF Pieces
  <2> QED
    BY <1>1, <1>2, <2>1, <2>2 DEF Shape
<1>3. CASE ~(o + n > Size)
  <2>1. Pieces(how, o, n) = [how |-> how, n1 |-> n, n2 |-> 0]
    BY <1>3 DEF Pieces
  <2> QED
    BY <1>1, <1>3, <2>1 DEF Shape, Offsets
<1> QED
  BY <1>2, <1>3
-----------------------------------------------------------------------------
(* The inductive invariant, if no writer copies.                           *)

\* How much of the space it was given the writer has filled.
Filled == CASE wpc = "copy2" -> w.n1
            [] wpc = "advance" -> w.n1 + w.n2
            [] OTHER -> 0

\* How much of the data it was given the reader has taken.
Taken == CASE rpc = "copy2" -> r.n1
           [] rpc = "advance" /\ r.how # "flush" -> r.n1 + r.n2
           [] OTHER -> 0

\* The bytes from head to tail are the next ones to read, in order.
StoredInv ==
    /\ held = Used /\ wseq = (rseq + held) % Labels
    /\ \A i \in Nat : i < held => buf[At(head, i)] = (rseq + i) % Labels

\* The writer fills what is free behind them with the bytes that come next.
WriterInv ==
    /\ w.how # "copy"
    /\ wpc # "idle" => held + w.n1 + w.n2 < Size /\ Shape(w, tail)
    /\ wpc = "copy2" => w.n2 # 0
    /\ \A i \in Nat : i < Filled => buf[At(tail, i)] = (wseq + i) % Labels

\* The reader takes the first of them.
ReaderInv ==
    /\ r.how = "copy" => "copy" \in ReadCalls
    /\ rpc # "idle" => r.n1 + r.n2 <= held /\ Shape(r, head)
    /\ rpc = "copy2" => r.n2 # 0
    /\ r.how = "flush" => rpc = "advance"
    /\ Len(got) = Taken
    /\ "copy" \notin ReadCalls => InOrder

StreamInv == TypeOK /\ StoredInv /\ WriterInv /\ ReaderInv

(* It holds at the start.                                                  *)
LEMMA InitInv == Init => StreamInv
<1> SUFFICES ASSUME Init
             PROVE  StreamInv
  OBVIOUS
<1>1. Size \in Nat /\ Size > 0 /\ Labels \in Nat /\ Labels > 0
  BY SizeIs, StreamAssumption
<1>2. TypeOK
  BY <1>1 DEF Init, TypeOK, Offsets, Foreign, NoCall, Pcs
<1>3. StoredInv
  <2>1. Used = 0 /\ 0 % Labels = 0
    BY <1>1 DEF Init, Used
  <2> QED
    BY <1>1, <2>1 DEF Init, StoredInv
<1>4. WriterInv
  BY DEF Init, WriterInv, Filled, NoCall
<1>5. ReaderInv
  BY DEF Init, ReaderInv, Taken, NoCall, InOrder
<1> QED
  BY <1>2, <1>3, <1>4, <1>5 DEF StreamInv
-----------------------------------------------------------------------------
(* Each step keeps it.                                                     *)

(* The numbers that a state holds, in the form the proofs below use.       *)
LEMMA Numbers ==
    ASSUME TypeOK
    PROVE  /\ Size \in Nat /\ Size > 0 /\ Labels \in Nat /\ Labels > 0
           /\ head \in Nat /\ head < Size /\ tail \in Nat /\ tail < Size
           /\ w.n1 \in Nat /\ w.n2 \in Nat /\ r.n1 \in Nat /\ r.n2 \in Nat
           /\ w.n1 <= Size /\ r.n1 <= Size /\ w.n2 < Size /\ r.n2 < Size
           /\ wseq \in Nat /\ rseq \in Nat /\ held \in Nat /\ held < Size
BY SizeIs, StreamAssumption DEF TypeOK, Offsets

(* A side is granted no more than the space it has computed.               *)
LEMMA AtMostIs ==
    ASSUME NEW cnt \in Nat, NEW space \in Nat
    PROVE  AtMost(cnt, space) \in Nat /\ AtMost(cnt, space) <= space
BY DEF AtMost

(* What the writer is granted is free, whatever the reader does meanwhile. *)
LEMMA WriteSpaceInv ==
    ASSUME StreamInv, NEW how \in WriteCalls \ {"copy"}, NEW cnt \in WriteCounts,
           WriteSpace(how, cnt)
    PROVE  StreamInv'
<1>1. TypeOK /\ StoredInv /\ WriterInv /\ ReaderInv
  BY DEF StreamInv
<1>2. Size \in Nat /\ Size > 0 /\ held \in Nat /\ cnt \in Nat /\ how = "vector"
  BY <1>1, Numbers, StreamAssumption
<1>3. stream_write_space = Size - 1 - held /\ held \in Offsets /\ tail \in Offsets
  BY <1>1, Spaces DEF StoredInv, TypeOK
<1>4. PICK n \in Offsets : n = AtMost(cnt, stream_write_space) /\ held + n < Size
  <2>1. stream_write_space \in Nat
    BY <1>2, <1>3 DEF Offsets
  <2>2. AtMost(cnt, stream_write_space) \in Nat
        /\ AtMost(cnt, stream_write_space) <= stream_write_space
    BY <1>2, <2>1, AtMostIs
  <2> QED
    BY <1>2, <1>3, <2>2 DEF Offsets
<1>5. /\ w' = [how |-> how, n1 |-> w'.n1, n2 |-> w'.n2]
      /\ w'.n1 \in 0 .. Size /\ w'.n2 \in Offsets
      /\ w'.n1 + w'.n2 = n /\ Shape(w', tail)
  <2>1. w' = Pieces(how, tail, n)
    BY <1>4 DEF WriteSpace
  <2> QED
    BY <1>3, <2>1, PiecesShape
<1>6. TypeOK'
  BY <1>1, <1>2, <1>5 DEF WriteSpace, TypeOK, readerVars, Pcs
<1>7. StoredInv'
  BY <1>1 DEF WriteSpace, StoredInv, Used, readerVars
<1>8. WriterInv'
  <2>1. w'.how = "vector" /\ w'.n1 \in Nat /\ w'.n2 \in Nat /\ n \in Nat
    BY <1>2, <1>5 DEF Offsets
  <2>2. held + w'.n1 + w'.n2 < Size
    BY <2>1, <1>2, <1>4, <1>5
  <2>3. wpc' = "copy1" /\ Filled' = 0
    BY DEF WriteSpace, Filled
  <2>4. Shape(w, tail)'
    BY <1>5 DEF WriteSpace, Shape
  <2> QED
    BY <2>1, <2>2, <2>3, <2>4 DEF WriteSpace, WriterInv
<1>9. ReaderInv'
  BY <1>1 DEF WriteSpace, ReaderInv, Taken, InOrder, Shape, readerVars
<1> QED
  BY <1>6, <1>7, <1>8, <1>9 DEF StreamInv

(* The first piece lies behind the tail and before the end of the ring: it *)
(* does not touch what is stored.                                          *)
LEMMA WriteCopy1Inv ==
    ASSUME StreamInv, WriteCopy1
    PROVE  StreamInv'
<1>1. TypeOK /\ StoredInv /\ WriterInv /\ ReaderInv
  BY DEF StreamInv
<1>2. /\ Size \in Nat /\ Size > 0 /\ Labels \in Nat /\ Labels > 0
      /\ head \in Nat /\ head < Size /\ tail \in Nat /\ tail < Size
      /\ w.n1 \in Nat /\ w.n2 \in Nat /\ wseq \in Nat /\ held \in Nat
  BY <1>1, Numbers
<1>3. held + w.n1 + w.n2 < Size /\ held = Used /\ tail + w.n1 <= Size
  BY <1>1, <1>2 DEF WriteCopy1, WriterInv, StoredInv, Shape
<1>4. \A o \in Offsets : buf'[o] = IF tail <= o /\ o < tail + w.n1
                                   THEN (wseq + o - tail) % Labels ELSE buf[o]
  BY <1>2 DEF WriteCopy1, Offsets
<1>5. TypeOK'
  <2>1. \A o \in Offsets : buf'[o] \in 0 .. Labels
    <3> SUFFICES ASSUME NEW o \in Offsets
                 PROVE  buf'[o] \in 0 .. Labels
      OBVIOUS
    <3>1. CASE tail <= o /\ o < tail + w.n1
      <4>1. wseq + o - tail \in Int
        BY <1>2 DEF Offsets
      <4>2. \A x \in Int : x % Labels \in 0 .. Labels
        BY <1>2
      <4> QED
        BY <1>4, <3>1, <4>1, <4>2
    <3>2. CASE ~(tail <= o /\ o < tail + w.n1)
      BY <1>1, <1>4, <3>2 DEF TypeOK
    <3> QED
      BY <3>1, <3>2
  <2>2. buf' \in [Offsets -> 0 .. Labels]
    BY <2>1 DEF WriteCopy1
  <2> QED
    BY <1>1, <2>2 DEF WriteCopy1, TypeOK, readerVars, Pcs
<1>6. StoredInv'
  <2>1. ASSUME NEW i \in Nat, i < held
        PROVE  buf'[At(head, i)] = buf[At(head, i)]
    <3>1. At(head, i) \in Offsets /\ ~(tail <= At(head, i) /\ At(head, i) < tail + w.n1)
      BY <1>2, <1>3, <2>1 DEF At, Used, Offsets
    <3> QED
      BY <3>1, <1>4
  <2> QED
    BY <1>1, <2>1 DEF WriteCopy1, StoredInv, Used, readerVars
<1>7. WriterInv'
  <2>1. Filled' = w.n1 /\ wpc' \in {"copy2", "advance"} /\ (wpc' = "copy2" => w.n2 # 0)
    BY <1>2 DEF WriteCopy1, Filled
  <2>2. ASSUME NEW i \in Nat, i < w.n1
        PROVE  buf'[At(tail, i)] = (wseq + i) % Labels
    <3>1. At(tail, i) = tail + i /\ tail + i \in Offsets
      BY <1>2, <1>3, <2>2 DEF At, Offsets
    <3>2. wseq + (tail + i) - tail = wseq + i /\ tail <= tail + i /\ tail + i < tail + w.n1
      BY <1>2, <2>2
    <3> QED
      BY <1>4, <3>1, <3>2
  <2> QED
    BY <1>1, <2>1, <2>2 DEF WriteCopy1, WriterInv, Shape
<1>8. ReaderInv'
  BY <1>1 DEF WriteCopy1, ReaderInv, Taken, InOrder, Shape, readerVars
<1> QED
  BY <1>5, <1>6, <1>7, <1>8 DEF StreamInv

(* The second piece lies at the start of the ring, before head.            *)
LEMMA WriteCopy2Inv ==
    ASSUME StreamInv, WriteCopy2
    PROVE  StreamInv'
<1>1. TypeOK /\ StoredInv /\ WriterInv /\ ReaderInv
  BY DEF StreamInv
<1>2. /\ Size \in Nat /\ Size > 0 /\ Labels \in Nat /\ Labels > 0
      /\ head \in Nat /\ head < Size /\ tail \in Nat /\ tail < Size
      /\ w.n1 \in Nat /\ w.n2 \in Nat /\ wseq \in Nat /\ held \in Nat
  BY <1>1, Numbers
<1>3. held + w.n1 + w.n2 < Size /\ held = Used /\ w.n1 = Size - tail /\ w.n2 < tail
  BY <1>1, <1>2 DEF WriteCopy2, WriterInv, StoredInv, Shape
<1>4. /\ tail' = tail /\ buf' \in [Offsets -> {buf'[o] : o \in Offsets}]
      /\ \A o \in Offsets : buf'[o] = IF o < w.n2 THEN (wseq + w.n1 + o) % Labels ELSE buf[o]
  BY <1>1 DEF WriteCopy2, WriterInv
<1>5. TypeOK'
  <2>1. \A o \in Offsets : buf'[o] \in 0 .. Labels
    <3> SUFFICES ASSUME NEW o \in Offsets
                 PROVE  buf'[o] \in 0 .. Labels
      OBVIOUS
    <3>1. CASE o < w.n2
      <4>1. wseq + w.n1 + o \in Int
        BY <1>2 DEF Offsets
      <4>2. \A x \in Int : x % Labels \in 0 .. Labels
        BY <1>2
      <4> QED
        BY <1>4, <3>1, <4>1, <4>2
    <3>2. CASE ~(o < w.n2)
      BY <1>1, <1>4, <3>2 DEF TypeOK
    <3> QED
      BY <3>1, <3>2
  <2>2. buf' \in [Offsets -> 0 .. Labels]
    BY <2>1, <1>4
  <2> QED
    BY <1>1, <1>4, <2>2 DEF WriteCopy2, TypeOK, readerVars, Pcs
<1>6. StoredInv'
  <2>1. ASSUME NEW i \in Nat, i < held
        PROVE  buf'[At(head, i)] = buf[At(head, i)]
    <3>1. At(head, i) \in Offsets /\ ~(At(head, i) < w.n2)
      BY <1>2, <1>3, <2>1 DEF At, Used, Offsets
    <3> QED
      BY <3>1, <1>4
  <2> QED
    BY <1>1, <1>4, <2>1 DEF WriteCopy2, StoredInv, Used, readerVars
<1>7. WriterInv'
  <2>1. Filled = w.n1 /\ Filled' = w.n1 + w.n2 /\ wpc' = "advance" /\ wpc = "copy2"
    BY DEF WriteCopy2, Filled
  <2>2. ASSUME NEW i \in Nat, i < w.n1 + w.n2
        PROVE  buf'[At(tail, i)] = (wseq + i) % Labels
    <3>1. CASE i < w.n1
      <4>1. At(tail, i) \in Offsets /\ ~(At(tail, i) < w.n2)
        BY <1>2, <1>3, <3>1 DEF At, Offsets
      <4> QED
        BY <1>1, <1>4, <2>1, <3>1, <4>1 DEF WriterInv
    <3>2. CASE ~(i < w.n1)
      <4>1. At(tail, i) = i - w.n1 /\ i - w.n1 \in Offsets /\ i - w.n1 < w.n2
        BY <1>2, <1>3, <2>2, <3>2 DEF At, Offsets
      <4>2. wseq + w.n1 + (i - w.n1) = wseq + i
        BY <1>2
      <4> QED
        BY <1>4, <4>1, <4>2
    <3> QED
      BY <3>1, <3>2
  <2> QED
    BY <1>1, <1>4, <2>1, <2>2 DEF WriteCopy2, WriterInv, Shape
<1>8. ReaderInv'
  BY <1>1 DEF WriteCopy2, ReaderInv, Taken, InOrder, Shape, readerVars
<1> QED
  BY <1>5, <1>6, <1>7, <1>8 DEF StreamInv

(* The store of tail hands what was filled over to the reader.             *)
LEMMA WriteAdvanceInv ==
    ASSUME StreamInv, WriteAdvance
    PROVE  StreamInv'
<1>1. TypeOK /\ StoredInv /\ WriterInv /\ ReaderInv
  BY DEF StreamInv
<1>2. /\ Size \in Nat /\ Size > 0 /\ Labels \in Nat /\ Labels > 0
      /\ head \in Nat /\ head < Size /\ tail \in Nat /\ tail < Size
      /\ w.n1 \in Nat /\ w.n2 \in Nat /\ wseq \in Nat /\ rseq \in Nat /\ held \in Nat
  BY <1>1, Numbers
<1>3. PICK n \in Nat : n = w.n1 + w.n2
  BY <1>2
<1>4. held + n < Size /\ held = Used /\ Filled = n
  BY <1>1, <1>2, <1>3 DEF WriteAdvance, WriterInv, StoredInv, Filled
<1>5. tail' = At(tail, n) /\ At(tail, n) \in Offsets
  <2>1. n \in 0 .. Size /\ tail \in Offsets
    BY <1>2, <1>4 DEF Offsets
  <2>2. tail + w.n1 + w.n2 = tail + n
    BY <1>2, <1>3
  <2> QED
    BY <2>1, <2>2, Wraps DEF WriteAdvance
<1>6. wseq' = (wseq + n) % Labels /\ wseq' \in Nat
  <2>1. wseq + w.n1 + w.n2 = wseq + n /\ wseq + n \in Nat
    BY <1>2, <1>3
  <2>2. (wseq + n) % Labels \in Nat
    BY <1>2, <2>1
  <2> QED
    BY <2>1, <2>2 DEF WriteAdvance
<1>7. held' = held + n /\ held' \in Offsets
  BY <1>2, <1>3, <1>4 DEF WriteAdvance, Offsets
<1>8. TypeOK'
  <2>1. 0 \in Offsets
    BY <1>2 DEF Offsets
  <2> QED
    BY <1>1, <1>2, <1>5, <1>6, <1>7, <2>1 DEF WriteAdvance, TypeOK, readerVars, Pcs, NoCall
<1>9. Used' = held + n
  <2>1. IF tail' >= head THEN tail' - head = held + n ELSE tail' - head + Size = held + n
    BY <1>2, <1>4, <1>5 DEF At, Used
  <2> QED
    BY <2>1 DEF Used, WriteAdvance
<1>10. StoredInv'
  <2>1. wseq' = (rseq + (held + n)) % Labels
    <3>1. (((rseq + held) % Labels) + n) % Labels = ((rseq + held) + n) % Labels
      <4>1. rseq + held \in Nat /\ Labels \in Nat /\ Labels > 0 /\ n \in Nat
        BY <1>2
      <4> QED
        BY <4>1, ModAdd, Zenon
    <3>2. (rseq + held) + n = rseq + (held + n)
      BY <1>2
    <3>3. wseq = (rseq + held) % Labels
      BY <1>1 DEF StoredInv
    <3> QED
      BY <1>6, <3>1, <3>2, <3>3, Zenon
  <2>2. ASSUME NEW i \in Nat, i < held + n
        PROVE  buf[At(head, i)] = (rseq + i) % Labels
    <3>1. CASE i < held
      BY <1>1, <3>1 DEF StoredInv
    <3>2. CASE ~(i < held)
      <4>1. PICK j \in Nat : j = i - held /\ j < n
        BY <1>2, <2>2, <3>2
      <4>2. At(head, i) = At(tail, j)
        BY <1>2, <1>4, <4>1 DEF At, Used
      <4>3. buf[At(tail, j)] = (wseq + j) % Labels
        BY <1>1, <1>4, <4>1 DEF WriterInv
      <4>4. (((rseq + held) % Labels) + j) % Labels = ((rseq + held) + j) % Labels
        <5>1. rseq + held \in Nat /\ Labels \in Nat /\ Labels > 0 /\ j \in Nat
          BY <1>2
        <5> QED
          BY <5>1, ModAdd, Zenon
      <4>5. (rseq + held) + j = rseq + i
        BY <1>2, <4>1
      <4>6. wseq = (rseq + held) % Labels
        BY <1>1 DEF StoredInv
      <4> QED
        BY <4>2, <4>3, <4>4, <4>5, <4>6, Zenon
    <3> QED
      BY <3>1, <3>2
  <2> QED
    BY <1>7, <1>9, <2>1, <2>2 DEF WriteAdvance, StoredInv, readerVars
<1>11. WriterInv'
  BY DEF WriteAdvance, WriterInv, Filled, NoCall
<1>12. ReaderInv'
  <2>1. r.n1 \in Nat /\ r.n2 \in Nat
    BY <1>1, Numbers
  <2>2. r.n1 + r.n2 <= held => r.n1 + r.n2 <= held + n
    BY <1>2, <2>1
  <2> QED
    BY <1>1, <1>7, <2>2 DEF WriteAdvance, ReaderInv, Taken, InOrder, Shape, readerVars
<1> QED
  BY <1>8, <1>10, <1>11, <1>12 DEF StreamInv

(* What the reader is granted is stored.                                   *)
LEMMA ReadSpaceInv ==
    ASSUME StreamInv, NEW how \in ReadCalls, NEW cnt \in ReadCounts, ReadSpace(how, cnt)
    PROVE  StreamInv'
<1>1. TypeOK /\ StoredInv /\ WriterInv /\ ReaderInv
  BY DEF StreamInv
<1>2. Size \in Nat /\ Size > 0 /\ held \in Nat /\ cnt \in Nat
      /\ how \in {"vector", "copy", "peek", "flush"}
  BY <1>1, Numbers, StreamAssumption
<1>3. stream_read_space = held /\ held \in Offsets /\ head \in Offsets
  BY <1>1, Spaces DEF StoredInv, TypeOK
<1>4. PICK n \in Offsets : /\ n = IF how = "flush" THEN stream_read_space
                                  ELSE AtMost(cnt, stream_read_space)
                           /\ n <= held
  <2>1. AtMost(cnt, held) \in Nat /\ AtMost(cnt, held) <= held
    BY <1>2, AtMostIs
  <2>2. AtMost(cnt, held) \in Offsets
    BY <1>2, <1>3, <2>1 DEF Offsets
  <2> QED
    BY <1>2, <1>3, <2>1, <2>2
<1>5. /\ r' = [how |-> how, n1 |-> r'.n1, n2 |-> r'.n2]
      /\ r'.n1 \in 0 .. Size /\ r'.n2 \in Offsets
      /\ r'.n1 + r'.n2 = n /\ Shape(r', head)
  <2>1. r' = Pieces(how, head, n)
    BY <1>4 DEF ReadSpace
  <2> QED
    BY <1>3, <2>1, PiecesShape
<1>6. TypeOK'
  BY <1>1, <1>2, <1>5 DEF ReadSpace, TypeOK, writerVars, Pcs
<1>7. StoredInv'
  BY <1>1 DEF ReadSpace, StoredInv, Used, writerVars
<1>8. WriterInv'
  BY <1>1 DEF ReadSpace, WriterInv, Filled, Shape, writerVars
<1>9. ReaderInv'
  <2>1. r'.how = how
    BY <1>5
  <2>2. Taken = 0 /\ Taken' = 0
    BY <2>1 DEF ReadSpace, Taken
  <2>3. rpc' = IF how = "flush" THEN "advance" ELSE "copy1"
    BY DEF ReadSpace
  <2>4. Shape(r, head)' /\ r'.n1 + r'.n2 <= held
    BY <1>4, <1>5 DEF ReadSpace, Shape
  <2> QED
    BY <1>1, <2>1, <2>2, <2>3, <2>4 DEF ReadSpace, ReaderInv, InOrder
<1> QED
  BY <1>6, <1>7, <1>8, <1>9 DEF StreamInv

(* A sequence that is written out has the length of its domain.            *)
LEMMA Filling ==
    ASSUME NEW n \in Nat, NEW S, NEW F \in [1 .. n -> S]
    PROVE  F \in Seq(S) /\ Len(F) = n
OBVIOUS

(* The first piece: bytes from head on.                                    *)
LEMMA ReadCopy1Inv ==
    ASSUME StreamInv, ReadCopy1
    PROVE  StreamInv'
<1>1. TypeOK /\ StoredInv /\ WriterInv /\ ReaderInv
  BY DEF StreamInv
<1>2. /\ Size \in Nat /\ Size > 0 /\ Labels \in Nat /\ Labels > 0
      /\ head \in Nat /\ head < Size /\ held \in Nat /\ rseq \in Nat
      /\ r.n1 \in Nat /\ r.n2 \in Nat
  BY <1>1, Numbers
<1>3. r.n1 <= held /\ head + r.n1 <= Size /\ r.how # "flush"
  BY <1>1, <1>2 DEF ReadCopy1, ReaderInv, Shape
<1>4. got' = [i \in 1 .. r.n1 |-> buf[head + i - 1]]
  BY DEF ReadCopy1
<1>5. got' \in [1 .. r.n1 -> 0 .. Labels]
  <2>1. \A i \in 1 .. r.n1 : head + i - 1 \in Offsets
    BY <1>2, <1>3 DEF Offsets
  <2> QED
    BY <1>1, <1>4, <2>1 DEF TypeOK
<1>6. got' \in Seq(0 .. Labels) /\ Len(got') = r.n1
  BY <1>2, <1>5, Filling
<1>7. TypeOK'
  BY <1>1, <1>6 DEF ReadCopy1, TypeOK, writerVars, Pcs
<1>8. StoredInv' /\ WriterInv'
  BY <1>1 DEF ReadCopy1, StoredInv, Used, WriterInv, Filled, Shape, writerVars
<1>9. ReaderInv'
  <2>1. ASSUME NEW i \in 1 .. r.n1
        PROVE  got'[i] = (rseq + i - 1) % Labels
    <3>1. PICK j \in Nat : j = i - 1 /\ j < held /\ j < r.n1
      BY <1>2, <1>3
    <3>2. At(head, j) = head + i - 1
      BY <1>2, <1>3, <3>1 DEF At
    <3>3. buf[At(head, j)] = (rseq + j) % Labels
      BY <1>1, <3>1 DEF StoredInv
    <3>4. rseq + j = rseq + i - 1
      BY <1>2, <3>1
    <3> QED
      BY <1>4, <3>2, <3>3, <3>4
  <2>2. InOrder'
    BY <1>6, <2>1 DEF InOrder, ReadCopy1
  <2>3. Taken' = r.n1
    BY <1>2, <1>3 DEF Taken, ReadCopy1
  <2> QED
    BY <1>1, <1>3, <1>6, <2>2, <2>3 DEF ReadCopy1, ReaderInv, Shape
<1> QED
  BY <1>7, <1>8, <1>9 DEF StreamInv

(* The second piece: bytes from the start of the ring, if no call copies.  *)
LEMMA ReadCopy2Inv ==
    ASSUME StreamInv, ReadCopy2
    PROVE  StreamInv'
<1>1. TypeOK /\ StoredInv /\ WriterInv /\ ReaderInv
  BY DEF StreamInv
<1>2. /\ Size \in Nat /\ Size > 0 /\ Labels \in Nat /\ Labels > 0
      /\ head \in Nat /\ head < Size /\ held \in Nat /\ held < Size /\ rseq \in Nat
      /\ r.n1 \in Nat /\ r.n2 \in Nat /\ r.n2 < Size
  BY <1>1, Numbers
<1>3. r.n1 + r.n2 <= held /\ r.n1 = Size - head /\ r.how # "flush"
  BY <1>1, <1>2 DEF ReadCopy2, ReaderInv, Shape
<1>4. PICK more : /\ more = [i \in 1 .. r.n2 |-> IF r.how = "copy" THEN Foreign ELSE buf[i - 1]]
                  /\ got' = got \o more
  BY DEF ReadCopy2
<1>5. more \in [1 .. r.n2 -> 0 .. Labels]
  <2>1. \A i \in 1 .. r.n2 : i - 1 \in Offsets
    BY <1>2 DEF Offsets
  <2>2. Foreign \in 0 .. Labels
    BY <1>2 DEF Foreign
  <2>3. \A o \in Offsets : buf[o] \in 0 .. Labels
    BY <1>1 DEF TypeOK
  <2> QED
    BY <1>4, <2>1, <2>2, <2>3
<1>6. more \in Seq(0 .. Labels) /\ Len(more) = r.n2
  BY <1>2, <1>5, Filling
<1>7. got \in Seq(0 .. Labels) /\ Len(got) = r.n1
  BY <1>1 DEF TypeOK, ReaderInv, Taken, ReadCopy2
<1>8. /\ got' \in Seq(0 .. Labels) /\ Len(got') = r.n1 + r.n2
      /\ \A i \in 1 .. r.n1 + r.n2 :
           got'[i] = IF i <= r.n1 THEN got[i] ELSE more[i - r.n1]
  <2>1. /\ got \o more \in Seq(0 .. Labels) /\ Len(got \o more) = Len(got) + Len(more)
        /\ \A i \in 1 .. Len(got) + Len(more) :
             (got \o more)[i] = IF i <= Len(got) THEN got[i] ELSE more[i - Len(got)]
    BY <1>6, <1>7, ConcatProperties, Zenon
  <2> QED
    BY <1>4, <1>6, <1>7, <2>1, Zenon
<1>9. TypeOK'
  BY <1>1, <1>8 DEF ReadCopy2, TypeOK, writerVars, Pcs
<1>10. StoredInv' /\ WriterInv'
  BY <1>1 DEF ReadCopy2, StoredInv, Used, WriterInv, Filled, Shape, writerVars
<1>11. "copy" \notin ReadCalls => InOrder'
  <2> SUFFICES ASSUME "copy" \notin ReadCalls, NEW i \in 1 .. r.n1 + r.n2
               PROVE  got'[i] = (rseq + i - 1) % Labels
    BY <1>8 DEF InOrder, ReadCopy2
  <2>1. CASE i <= r.n1
    <3>1. i \in 1 .. Len(got)
      BY <1>2, <1>7, <2>1
    <3>2. got'[i] = got[i]
      BY <1>8, <2>1
    <3> QED
      BY <1>1, <3>1, <3>2 DEF ReaderInv, InOrder
  <2>2. CASE ~(i <= r.n1)
    <3>1. PICK k \in Nat : k = i - r.n1 /\ k \in 1 .. r.n2
      BY <1>2, <2>2
    <3>2. got'[i] = more[k]
      BY <1>8, <2>2, <3>1
    <3>3. more[k] = buf[k - 1]
      BY <1>1, <1>4, <3>1 DEF ReaderInv
    <3>4. PICK j \in Nat : j = i - 1 /\ j < held /\ At(head, j) = k - 1
      BY <1>2, <1>3, <2>2, <3>1 DEF At
    <3>5. buf[At(head, j)] = (rseq + j) % Labels
      BY <1>1, <3>4 DEF StoredInv
    <3>6. rseq + j = rseq + i - 1
      BY <1>2, <3>4
    <3> QED
      BY <3>2, <3>3, <3>4, <3>5, <3>6
  <2> QED
    BY <2>1, <2>2
<1>12. ReaderInv'
  <2>1. Taken' = r.n1 + r.n2
    BY <1>3 DEF Taken, ReadCopy2
  <2> QED
    BY <1>1, <1>3, <1>8, <1>11, <2>1 DEF ReadCopy2, ReaderInv, Shape
<1> QED
  BY <1>9, <1>10, <1>12 DEF StreamInv

(* A peek leaves everything as it was.                                     *)
LEMMA PeekReturnsInv ==
    ASSUME StreamInv, PeekReturns
    PROVE  StreamInv'
<1>1. TypeOK /\ StoredInv /\ WriterInv /\ ReaderInv
  BY DEF StreamInv
<1>2. TypeOK'
  <2>1. 0 \in Offsets /\ 0 \in 0 .. Size
    BY SizeIs DEF Offsets
  <2> QED
    BY <1>1, <2>1 DEF PeekReturns, TypeOK, writerVars, Pcs, NoCall
<1>3. StoredInv' /\ WriterInv'
  BY <1>1 DEF PeekReturns, StoredInv, Used, WriterInv, Filled, Shape, writerVars
<1>4. ReaderInv'
  BY DEF PeekReturns, ReaderInv, Taken, InOrder, NoCall
<1> QED
  BY <1>2, <1>3, <1>4 DEF StreamInv

(* The store of head gives back what was read, and no more.                *)
LEMMA ReadAdvanceInv ==
    ASSUME StreamInv, ReadAdvance
    PROVE  StreamInv'
<1>1. TypeOK /\ StoredInv /\ WriterInv /\ ReaderInv
  BY DEF StreamInv
<1>2. /\ Size \in Nat /\ Size > 0 /\ Labels \in Nat /\ Labels > 0
      /\ head \in Nat /\ head < Size /\ tail \in Nat /\ tail < Size
      /\ r.n1 \in Nat /\ r.n2 \in Nat /\ rseq \in Nat /\ held \in Nat /\ held < Size
  BY <1>1, Numbers
<1>3. PICK m \in Nat : m = r.n1 + r.n2
  BY <1>2
<1>4. m <= held /\ held = Used
  BY <1>1, <1>3 DEF ReadAdvance, ReaderInv, StoredInv
<1>5. head' = At(head, m) /\ At(head, m) \in Offsets
  <2>1. m \in 0 .. Size /\ head \in Offsets
    BY <1>2, <1>4 DEF Offsets
  <2>2. head + r.n1 + r.n2 = head + m
    BY <1>2, <1>3
  <2> QED
    BY <2>1, <2>2, Wraps DEF ReadAdvance
<1>6. rseq' = (rseq + m) % Labels /\ rseq' \in Nat
  <2>1. rseq + r.n1 + r.n2 = rseq + m /\ rseq + m \in Nat
    BY <1>2, <1>3
  <2>2. (rseq + m) % Labels \in Nat
    BY <1>2, <2>1
  <2> QED
    BY <2>1, <2>2 DEF ReadAdvance
<1>7. PICK rest \in Nat : rest = held - m /\ rest <= held /\ held' = rest
  BY <1>2, <1>3, <1>4 DEF ReadAdvance
<1>8. TypeOK'
  <2>1. 0 \in Offsets /\ 0 \in 0 .. Size /\ rest \in Offsets
    BY <1>2, <1>7 DEF Offsets
  <2>2. head' \in Offsets /\ rseq' \in Nat /\ held' \in Offsets
    BY <1>5, <1>6, <1>7, <2>1
  <2>3. /\ rpc' = "idle" /\ r' = [how |-> "none", n1 |-> 0, n2 |-> 0] /\ got' = <<>>
        /\ tail' = tail /\ buf' = buf /\ wpc' = wpc /\ w' = w /\ wseq' = wseq
    BY DEF ReadAdvance, NoCall, writerVars
  <2> QED
    BY <1>1, <2>1, <2>2, <2>3 DEF TypeOK, Pcs
<1>9. Used' = rest
  <2>1. IF tail >= head' THEN tail - head' = rest ELSE tail - head' + Size = rest
    BY <1>2, <1>4, <1>5, <1>7 DEF At, Used
  <2> QED
    BY <2>1 DEF Used, ReadAdvance
<1>10. ASSUME NEW i \in Nat
       PROVE  (rseq' + i) % Labels = (rseq + (m + i)) % Labels
  <2>1. rseq + m \in Nat /\ Labels \in Nat /\ Labels > 0
    BY <1>2
  <2>2. (((rseq + m) % Labels) + i) % Labels = ((rseq + m) + i) % Labels
    BY <2>1, ModAdd, Zenon
  <2>3. (rseq + m) + i = rseq + (m + i)
    BY <1>2
  <2> QED
    BY <1>6, <2>2, <2>3, Zenon
<1>11. StoredInv'
  <2>1. wseq = (rseq' + rest) % Labels
    <3>1. (rseq' + rest) % Labels = (rseq + (m + rest)) % Labels
      BY <1>10
    <3>2. m + rest = held
      BY <1>2, <1>7
    <3>3. wseq = (rseq + held) % Labels
      BY <1>1 DEF StoredInv
    <3> QED
      BY <3>1, <3>2, <3>3, Zenon
  <2>2. ASSUME NEW i \in Nat, i < rest
        PROVE  buf[At(head', i)] = (rseq' + i) % Labels
    <3>1. PICK j \in Nat : j = m + i /\ j < held
      BY <1>2, <1>7, <2>2
    <3>2. At(head', i) = At(head, j)
      BY <1>2, <1>4, <1>5, <1>7, <2>2, <3>1 DEF At
    <3>3. buf[At(head, j)] = (rseq + j) % Labels
      BY <1>1, <3>1 DEF StoredInv
    <3>4. (rseq' + i) % Labels = (rseq + (m + i)) % Labels
      BY <1>10
    <3> QED
      BY <3>1, <3>2, <3>3, <3>4, Zenon
  <2>3. buf' = buf /\ wseq' = wseq
    BY DEF ReadAdvance, writerVars
  <2>4. \A i \in Nat : i < held' => buf'[At(head', i)] = (rseq' + i) % Labels
    BY <1>7, <2>2, <2>3, Zenon
  <2> QED
    BY <1>7, <1>9, <2>1, <2>3, <2>4 DEF StoredInv, At
<1>12. WriterInv'
  <2>1. w.n1 \in Nat /\ w.n2 \in Nat
    BY <1>1, Numbers
  <2>2. held + w.n1 + w.n2 < Size => rest + w.n1 + w.n2 < Size
    BY <1>2, <1>7, <2>1
  <2> QED
    BY <1>1, <1>7, <2>2 DEF ReadAdvance, WriterInv, Filled, Shape, writerVars
<1>13. ReaderInv'
  BY DEF ReadAdvance, ReaderInv, Taken, InOrder, NoCall
<1> QED
  BY <1>8, <1>11, <1>12, <1>13 DEF StreamInv

(* Every step of either side keeps the invariant, if no writer copies.     *)
LEMMA StreamStep ==
    ASSUME "copy" \notin WriteCalls, StreamInv, [Next]_vars
    PROVE  StreamInv'
<1>1. CASE \E how \in WriteCalls, cnt \in WriteCounts : WriteSpace(how, cnt)
  BY <1>1, WriteSpaceInv
<1>2. CASE WriteCopy1
  BY <1>2, WriteCopy1Inv
<1>3. CASE WriteCopy2
  BY <1>3, WriteCopy2Inv
<1>4. CASE WriteAdvance
  BY <1>4, WriteAdvanceInv
<1>5. CASE \E how \in ReadCalls, cnt \in ReadCounts : ReadSpace(how, cnt)
  BY <1>5, ReadSpaceInv
<1>6. CASE ReadCopy1
  BY <1>6, ReadCopy1Inv
<1>7. CASE ReadCopy2
  BY <1>7, ReadCopy2Inv
<1>8. CASE PeekReturns
  BY <1>8, PeekReturnsInv
<1>9. CASE ReadAdvance
  BY <1>9, ReadAdvanceInv
<1>10. CASE UNCHANGED vars
  BY <1>10 DEF vars, writerVars, readerVars, StreamInv, TypeOK, StoredInv, Used, WriterInv,
               Filled, Shape, ReaderInv, Taken, InOrder
<1> QED
  BY <1>1, <1>2, <1>3, <1>4, <1>5, <1>6, <1>7, <1>8, <1>9, <1>10
     DEF Next, Writer, Reader, WriteNone, ReadNone
-----------------------------------------------------------------------------
(* The theorems.                                                           *)

(* If no writer copies, the invariant holds in every state.                *)
LEMMA StreamInvariant ==
    ASSUME "copy" \notin WriteCalls
    PROVE  Spec => []StreamInv
<1>1. Init => StreamInv
  BY InitInv
<1>2. StreamInv /\ [Next]_vars => StreamInv'
  BY StreamStep
<1> QED
  BY <1>1, <1>2, PTL DEF Spec

(* With writers that do not call stream_write(), every index stays in the  *)
(* ring, whatever the readers call.                                        *)
THEOREM StreamTypeOK ==
    ASSUME "copy" \notin WriteCalls
    PROVE  Spec => []TypeOK
<1>1. StreamInv => TypeOK
  BY DEF StreamInv
<1> QED
  BY <1>1, StreamInvariant, PTL

(* Such writers keep every byte that is not read yet, for every size of    *)
(* the ring and every mix of counts: the indices account for it and it     *)
(* waits unharmed between them (stream_get_write_vector() and              *)
(* stream_write_advance(), against any reader).                            *)
THEOREM StreamUnreadIntact ==
    ASSUME "copy" \notin WriteCalls
    PROVE  Spec => []UnreadIntact
<1>1. StreamInv => UnreadIntact
  <2> SUFFICES ASSUME StreamInv
               PROVE  UnreadIntact
    OBVIOUS
  <2>1. TypeOK /\ StoredInv
    BY DEF StreamInv
  <2>2. held = (tail - head + Size) % Size
    BY <2>1, Spaces DEF TypeOK, StoredInv
  <2>3. ASSUME NEW i \in 0 .. held - 1
        PROVE  buf[(head + i) % Size] = (rseq + i) % Labels
    <3>1. held \in Nat /\ held < Size /\ Size \in Nat
      BY <2>1, Numbers
    <3>2. i \in Nat /\ i < held /\ i \in 0 .. Size
      BY <3>1
    <3>3. (head + i) % Size = At(head, i)
      BY <2>1, <3>2, Wraps DEF TypeOK
    <3> QED
      BY <2>1, <3>2, <3>3 DEF StoredInv
  <2> QED
    BY <2>2, <2>3 DEF UnreadIntact
<1> QED
  BY <1>1, StreamInvariant, PTL

(* What each side was granted stays its own until it stores its index,     *)
(* though the other has moved on meanwhile.                                *)
THEOREM StreamSpacesApart ==
    ASSUME "copy" \notin WriteCalls
    PROVE  Spec => []SpacesApart
<1>1. StreamInv => SpacesApart
  BY DEF StreamInv, WriterInv, ReaderInv, SpacesApart
<1> QED
  BY <1>1, StreamInvariant, PTL

(* If no reader copies either, the readers are given the bytes in the      *)
(* order of writing, none lost and none twice, across the end of the ring  *)
(* too (stream_get_read_vector(), stream_peek() and stream_flush()).       *)
THEOREM StreamInOrder ==
    ASSUME "copy" \notin WriteCalls, "copy" \notin ReadCalls
    PROVE  Spec => []InOrder
<1>1. StreamInv => InOrder
  BY DEF StreamInv, ReaderInv
<1> QED
  BY <1>1, StreamInvariant, PTL
=============================================================================

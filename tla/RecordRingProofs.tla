--------------------------- MODULE RecordRingProofs ---------------------------
(***************************************************************************)
(* Proofs about RecordRing, for every ring size, every set of record sizes *)
(* and every payload: the inductive invariant IndInv, from it the safety   *)
(* properties of the ring, and that the ring implements RecordFIFO.        *)
(***************************************************************************)
EXTENDS RecordRing, SequenceTheorems, TLAPS
-----------------------------------------------------------------------------
(* Arithmetic of offsets and record sizes.                                 *)

\* A number below N is its own remainder.
LEMMA ModSmall ==
    ASSUME NEW N \in Nat, NEW x \in Nat, x < N
    PROVE  x % N = x
BY SMT

\* One turn of the ring is dropped.
LEMMA ModOnce ==
    ASSUME NEW N \in Nat, NEW x \in Nat, N > 0, N <= x, x < 2 * N
    PROVE  x % N = x - N
BY SMT

\* A record takes room for its size field and its bytes, in units of RB_ALIGN.
LEMMA UsageFacts ==
    ASSUME NEW s \in Nat
    PROVE  /\ record_usage(s) \in Nat
           /\ record_usage(s) % RB_ALIGN = 0
           /\ s + SizeofSize <= record_usage(s)
           /\ RB_ALIGN <= record_usage(s)
BY DEF record_usage, size_aligned, Align, RB_ALIGN, SizeofSize

\* A longer record takes at least as much room.
LEMMA UsageMonotone ==
    ASSUME NEW s \in Nat, NEW t \in Nat, s <= t
    PROVE  record_usage(s) <= record_usage(t)
BY DEF record_usage, size_aligned, Align, RB_ALIGN, SizeofSize

\* The ring that is allocated is a whole number of RB_ALIGN units.
LEMMA SizeFacts == /\ Size \in Nat
                   /\ CacheLine <= Size
                   /\ Size % RB_ALIGN = 0
BY RingAssumption DEF Size, size_aligned, Align, RB_ALIGN, CacheLine

\* Size fields lie on words of the ring.
LEMMA OffsetFacts ==
    ASSUME NEW o \in Offsets
    PROVE  o \in Nat /\ o < Size /\ o % RB_ALIGN = 0 /\ o \in Words
BY SizeFacts DEF Offsets, Words, RB_ALIGN, SizeofSize

\* A record's payload lies in the room the record takes.
LEMMA PayloadFacts ==
    ASSUME NEW p \in Nat, NEW s \in Nat, NEW x \in PayloadWords(p, s)
    PROVE  /\ x \in Words /\ x \in Nat
           /\ p + SizeofSize <= x /\ p <= x /\ x < p + record_usage(s)
<1>1. x \in Words /\ p + SizeofSize <= x /\ x < p + SizeofSize + s
  BY DEF PayloadWords
<1>2. x \in Nat
  BY <1>1, SizeFacts DEF Words
<1> QED BY <1>1, <1>2, UsageFacts DEF SizeofSize

\* Where a record that fits in the ring ends.
LEMMA EndFacts ==
    ASSUME NEW p \in Offsets, NEW s \in Nat, p + record_usage(s) <= Size
    PROVE  /\ (p + record_usage(s)) % Size =
                  IF p + record_usage(s) = Size THEN 0 ELSE p + record_usage(s)
           /\ (p + record_usage(s)) % Size \in Offsets
<1> DEFINE e == p + record_usage(s)
<1>1. p \in Nat /\ p % RB_ALIGN = 0 /\ e \in Nat /\ 0 < e
  BY OffsetFacts, UsageFacts DEF RB_ALIGN
<1>2. e % RB_ALIGN = 0
  BY <1>1, UsageFacts, OffsetFacts DEF RB_ALIGN
<1>3. CASE e = Size
  <2>1. e % Size = 0
    BY <1>1, <1>3, SizeFacts, ModOnce DEF CacheLine
  <2> QED BY <2>1, <1>3, SizeFacts DEF Offsets, RB_ALIGN, CacheLine
<1>4. CASE e < Size
  <2>1. e % Size = e
    BY <1>1, <1>4, SizeFacts, ModSmall
  <2> QED BY <2>1, <1>1, <1>2, <1>4, SizeFacts DEF Offsets
<1> QED BY <1>1, <1>3, <1>4, SizeFacts

\* The free space the writer computes is what is not between head and tail.
LEMMA FreeSpaceIs ==
    ASSUME head \in Offsets, tail \in Offsets
    PROVE  FreeSpace = Size - Used
<1> DEFINE x == Size + head - tail - 1
<1>1. head \in Nat /\ head < Size /\ tail \in Nat /\ tail < Size /\ x \in Nat
  BY OffsetFacts, SizeFacts
<1>2. CASE head <= tail
  BY <1>1, <1>2, SizeFacts, ModSmall DEF FreeSpace, Used, Dist
<1>3. CASE head > tail
  <2>1. x % Size = x - Size
    BY <1>1, <1>3, SizeFacts, ModOnce
  <2> QED BY <2>1, <1>1, <1>3, SizeFacts DEF FreeSpace, Used, Dist
<1> QED BY <1>1, <1>2, <1>3
-----------------------------------------------------------------------------
(* Where things lie.                                                       *)

\* Distances are offsets too.
LEMMA DistFacts ==
    ASSUME head \in Offsets, NEW o \in Offsets
    PROVE  Dist(o) \in Nat /\ Dist(o) < Size
BY OffsetFacts, SizeFacts DEF Dist

RecordType == [pos : Offsets, sz : Nat, val : Int]

\* What a typed record is made of, and that it takes some room.
LEMMA RecFacts ==
    ASSUME TypeOK, NEW i \in 1 .. Len(recs)
    PROVE  /\ recs[i] \in RecordType
           /\ recs[i].pos \in Offsets /\ recs[i].pos \in Nat /\ recs[i].pos < Size
           /\ recs[i].sz \in Nat /\ recs[i].val \in Int
           /\ record_usage(recs[i].sz) \in Nat
           /\ RB_ALIGN <= record_usage(recs[i].sz)
           /\ recs[i].sz + SizeofSize <= record_usage(recs[i].sz)
<1>0. recs \in Seq(RecordType)
  BY DEF TypeOK, RecordType
<1>1. recs[i] \in RecordType
  BY <1>0
<1> QED BY <1>1, OffsetFacts, UsageFacts DEF RecordType

\* Where record i ends, as a distance from head.
LEMMA EndDist ==
    ASSUME TypeOK, RecordsPlaced, NEW i \in 1 .. Len(recs)
    PROVE  /\ EndOf(recs[i]) \in Offsets
           /\ Dist(EndOf(recs[i])) =
                  Dist(recs[i].pos) + record_usage(recs[i].sz)
<1>1. /\ recs[i].pos + record_usage(recs[i].sz) <= Size
      /\ Dist(recs[i].pos) + record_usage(recs[i].sz) <= Used
  BY DEF RecordsPlaced
<1>2. head \in Nat /\ head < Size /\ tail \in Nat /\ tail < Size
  BY OffsetFacts DEF TypeOK
<1>3. /\ EndOf(recs[i]) = IF recs[i].pos + record_usage(recs[i].sz) = Size THEN 0
                          ELSE recs[i].pos + record_usage(recs[i].sz)
      /\ EndOf(recs[i]) \in Offsets
  BY <1>1, RecFacts, EndFacts DEF EndOf
<1>4. /\ recs[i].pos \in Nat /\ recs[i].pos < Size
      /\ record_usage(recs[i].sz) \in Nat /\ 0 < record_usage(recs[i].sz)
  BY RecFacts DEF RB_ALIGN
<1>5. Used \in Nat /\ Used < Size
  BY DistFacts DEF Used, TypeOK
<1> QED BY <1>1, <1>2, <1>3, <1>4, <1>5, SizeFacts DEF Dist

\* A wrap mark that is in use lies at head or beyond it, and everything between
\* it and the start of the ring is passed over: tail has gone round.
LEMMA MarkFacts ==
    ASSUME TypeOK, RecordsPlaced, RecordsOrdered, RecordsChained,
           NEW i \in 0 .. Len(recs), From(i) # To(i)
    PROVE  /\ To(i) = 0 /\ mem[From(i)] = -1
           /\ head <= From(i) /\ tail < head
           /\ From(i) \in Offsets
<1>1. To(i) = 0 /\ mem[From(i)] = -1
  BY DEF RecordsChained, Leads
<1>2. head \in Nat /\ head < Size /\ tail \in Nat /\ tail < Size
  BY OffsetFacts DEF TypeOK
<1>3. From(i) \in Offsets /\ From(i) \in Nat
  <2>1. CASE i = 0
    BY <2>1, OffsetFacts DEF From, TypeOK
  <2>2. CASE i # 0
    BY <2>2, EndDist, OffsetFacts DEF From
  <2> QED BY <2>1, <2>2
<1>4. i # Len(recs) => /\ i + 1 \in 1 .. Len(recs)
                       /\ Dist(0) + record_usage(recs[i + 1].sz) <= Used
                       /\ 0 < record_usage(recs[i + 1].sz)
                       /\ record_usage(recs[i + 1].sz) \in Nat
  <2> HAVE i # Len(recs)
  <2>1. i + 1 \in 1 .. Len(recs) /\ recs[i + 1].pos = 0
    BY <1>1 DEF To
  <2> QED BY <2>1, RecFacts DEF RecordsPlaced, RB_ALIGN
<1>5. i # 0 => /\ i \in 1 .. Len(recs)
               /\ Dist(recs[i].pos) + record_usage(recs[i].sz) <= Dist(To(i))
               /\ 0 < record_usage(recs[i].sz)
               /\ Dist(EndOf(recs[i])) = Dist(recs[i].pos) + record_usage(recs[i].sz)
               /\ record_usage(recs[i].sz) \in Nat /\ recs[i].pos \in Nat
               /\ recs[i].pos < Size
  <2> HAVE i # 0
  <2>1. i \in 1 .. Len(recs)
    OBVIOUS
  <2>2. CASE i = Len(recs)
    BY <2>1, <2>2, RecFacts, EndDist DEF RecordsPlaced, To, Used, RB_ALIGN
  <2>3. CASE i # Len(recs)
    <3>1. Dist(recs[i].pos) + record_usage(recs[i].sz) <= Dist(recs[i + 1].pos)
      BY <2>1, <2>3, <1>4 DEF RecordsOrdered
    <3> QED BY <3>1, <2>1, <2>3, RecFacts, EndDist DEF To, RB_ALIGN
  <2> QED BY <2>2, <2>3
<1>6. CASE head = 0
  <2>1. i # 0
    BY <1>1, <1>6 DEF From
  <2> QED BY <2>1, <1>1, <1>5, <1>6, <1>2 DEF Dist
<1>7. CASE head # 0
  <2>1. Dist(0) = Size - head
    BY <1>2, <1>7, SizeFacts DEF Dist
  <2>2. head <= From(i)
    <3>1. CASE i = 0
      BY <3>1, <1>2 DEF From
    <3>2. CASE i # 0
      <4>1. From(i) = EndOf(recs[i]) /\ From(i) # 0
        BY <3>2, <1>1 DEF From
      <4>2. Dist(From(i)) <= Size - head
        BY <4>1, <3>2, <2>1, <1>1, <1>5
      <4> QED BY <4>1, <4>2, <1>2, <1>3, SizeFacts DEF Dist
    <3> QED BY <3>1, <3>2
  <2>3. tail < head
    <3>1. CASE i = Len(recs)
      BY <3>1, <1>1, <1>2, <1>7 DEF To
    <3>2. CASE i # Len(recs)
      <4>1. Size - head < Used
        BY <3>2, <2>1, <1>2, <1>4, SizeFacts, DistFacts DEF TypeOK, Used
      <4> QED BY <4>1, <1>2, SizeFacts DEF Used, Dist
    <3> QED BY <3>1, <3>2
  <2> QED BY <2>2, <2>3, <1>1, <1>3
<1> QED BY <1>6, <1>7

\* The same for the wrap mark that moving head to off may rest on.
LEMMA CutMarkFacts ==
    ASSUME TypeOK, RecordsPlaced, NEW off \in Offsets, NEW n \in Nat,
           CutAt(off, n), off # To(n)
    PROVE  mem[off] = -1 /\ To(n) = 0 /\ head <= off /\ tail < head
<1>1. /\ head \in Nat /\ head < Size /\ tail \in Nat /\ tail < Size
      /\ off \in Nat /\ off < Size /\ n \in 0 .. Len(recs) /\ Len(recs) \in Nat
  BY OffsetFacts DEF TypeOK, CutAt
<1>2. mem[off] = -1 /\ To(n) = 0 /\ off # 0
  BY DEF CutAt, Leads
<1>3. /\ Dist(off) <= Dist(0)
      /\ tail # 0 => Dist(0) < Used
  <2>1. CASE n = Len(recs)
    BY <2>1, <1>2 DEF To, CutAt, Used
  <2>2. CASE n # Len(recs)
    <3>1. n + 1 \in 1 .. Len(recs) /\ n + 1 \in n + 1 .. Len(recs)
      BY <2>2, <1>1
    <3>2. recs[n + 1].pos = 0
      BY <2>2, <1>2 DEF To
    <3>3. Dist(0) + record_usage(recs[n + 1].sz) <= Used /\ Dist(off) <= Dist(0)
      BY <3>1, <3>2 DEF RecordsPlaced, CutAt
    <3>4. Dist(0) \in Nat /\ Used \in Nat
      BY <3>1, <3>2, RecFacts, DistFacts DEF TypeOK, Used
    <3> QED BY <3>1, <3>3, <3>4, RecFacts DEF RB_ALIGN
  <2> QED BY <2>1, <2>2
<1> QED BY <1>1, <1>2, <1>3, SizeFacts DEF Dist, Used

\* A ring with a record in it has head and tail apart.
LEMMA EmptyRing ==
    ASSUME TypeOK, RecordsPlaced, recs # <<>>
    PROVE  /\ head # tail /\ Len(recs) \in Nat /\ 1 \in 1 .. Len(recs)
<1>1. Len(recs) \in Nat /\ 1 \in 1 .. Len(recs)
  BY DEF TypeOK
<1>2. /\ recs[1].pos \in Offsets
      /\ record_usage(recs[1].sz) \in Nat /\ 0 < record_usage(recs[1].sz)
  BY <1>1, RecFacts DEF RB_ALIGN
<1>3. Dist(recs[1].pos) \in Nat /\ Used \in Nat
  BY <1>2, DistFacts DEF Used, TypeOK
<1>4. Dist(recs[1].pos) + record_usage(recs[1].sz) <= Used
  BY <1>1 DEF RecordsPlaced
<1>5. head = tail => Used = 0
  BY OffsetFacts DEF Used, Dist, TypeOK
<1> QED BY <1>1, <1>2, <1>3, <1>4, <1>5

\* The bytes the writer may use: from tail on, round the ring up to head.
FreeWord(x) ==
    /\ x \in Nat
    /\ IF head <= tail THEN x < head \/ tail <= x ELSE tail <= x /\ x < head

\* Nothing live lies in the free space.
LEMMA FreeIsFree ==
    ASSUME TypeOK, RecordsPlaced, RecordsOrdered, RecordsChained,
           NEW x, FreeWord(x)
    PROVE  /\ \A i \in 1 .. Len(recs) :
                 x < recs[i].pos \/ recs[i].pos + record_usage(recs[i].sz) <= x
           /\ \A i \in 0 .. Len(recs) : From(i) # To(i) => From(i) # x
           /\ head # tail => head # x
<1>1. head \in Nat /\ head < Size /\ tail \in Nat /\ tail < Size
  BY OffsetFacts DEF TypeOK
<1>2. ASSUME NEW i \in 1 .. Len(recs)
      PROVE  x < recs[i].pos \/ recs[i].pos + record_usage(recs[i].sz) <= x
  <2>1. /\ recs[i].pos \in Nat /\ recs[i].pos < Size
        /\ record_usage(recs[i].sz) \in Nat
    BY RecFacts
  <2>2. /\ recs[i].pos + record_usage(recs[i].sz) <= Size
        /\ Dist(recs[i].pos) + record_usage(recs[i].sz) <= Used
    BY DEF RecordsPlaced
  <2> QED BY <1>1, <2>1, <2>2, SizeFacts DEF Dist, Used, FreeWord
<1>3. ASSUME NEW i \in 0 .. Len(recs), From(i) # To(i)
      PROVE  From(i) # x
  <2>1. head <= From(i) /\ tail < head
    BY <1>3, MarkFacts
  <2>2. From(i) \in Nat
    BY <1>3, MarkFacts, OffsetFacts
  <2> QED BY <1>1, <2>1, <2>2 DEF FreeWord
<1>4. head # tail => head # x
  BY <1>1 DEF FreeWord
<1> QED BY <1>2, <1>3, <1>4

\* A store in the free space keeps the invariant of the ring.
LEMMA StoreFrame ==
    ASSUME TypeOK, RingInv, UNCHANGED <<head, tail, recs>>,
           \A x \in Words : mem'[x] = mem[x] \/ FreeWord(x)
    PROVE  RingInv'
<1>0. \A x : FreeWord(x) =>
              /\ \A i \in 1 .. Len(recs) :
                    x < recs[i].pos \/ recs[i].pos + record_usage(recs[i].sz) <= x
              /\ \A i \in 0 .. Len(recs) : From(i) # To(i) => From(i) # x
              /\ x \in Nat
  BY FreeIsFree DEF RingInv, FreeWord
<1>1. RecordsPlaced' /\ RecordsOrdered'
  BY DEF RingInv, RecordsPlaced, RecordsOrdered, Dist, Used
<1>2. RecordsIntact'
  <2> SUFFICES ASSUME NEW i \in 1 .. Len(recs)
               PROVE  /\ mem'[recs[i].pos] = recs[i].sz
                      /\ \A x \in PayloadWords(recs[i].pos, recs[i].sz) :
                            mem'[x] = recs[i].val
    BY DEF RecordsIntact, PayloadWords
  <2>1. /\ recs[i].pos \in Words /\ recs[i].pos \in Nat
        /\ record_usage(recs[i].sz) \in Nat /\ 0 < record_usage(recs[i].sz)
        /\ recs[i].sz \in Nat
        /\ recs[i].sz + SizeofSize <= record_usage(recs[i].sz)
    BY RecFacts, OffsetFacts DEF RB_ALIGN
  <2>2. ~ FreeWord(recs[i].pos)
    BY <2>1, <1>0
  <2>3. ASSUME NEW x \in PayloadWords(recs[i].pos, recs[i].sz)
        PROVE  x \in Words /\ ~ FreeWord(x)
    <3>1. x \in Words /\ x \in Nat /\ recs[i].pos <= x
          /\ x < recs[i].pos + record_usage(recs[i].sz)
      BY <2>1, PayloadFacts
    <3> QED BY <3>1, <2>1, <1>0
  <2>4. /\ mem[recs[i].pos] = recs[i].sz
        /\ \A x \in PayloadWords(recs[i].pos, recs[i].sz) : mem[x] = recs[i].val
    BY DEF RingInv, RecordsIntact
  <2> QED BY <2>1, <2>2, <2>3, <2>4
<1>3. RecordsChained'
  <2> SUFFICES ASSUME NEW i \in 0 .. Len(recs)
               PROVE  Leads(From(i), To(i))'
    BY DEF RecordsChained
  <2>1. From(i)' = From(i) /\ To(i)' = To(i)
    BY DEF From, To, EndOf
  <2>2. CASE From(i) = To(i)
    BY <2>1, <2>2 DEF Leads
  <2>3. CASE From(i) # To(i)
    <3>1. To(i) = 0 /\ mem[From(i)] = -1 /\ From(i) \in Words /\ From(i) \in Nat
      BY <2>3, MarkFacts, OffsetFacts DEF RingInv
    <3>2. ~ FreeWord(From(i))
      BY <2>3, <1>0
    <3> QED BY <2>1, <3>1, <3>2 DEF Leads
  <2> QED BY <2>2, <2>3
<1> QED BY <1>1, <1>2, <1>3 DEF RingInv

\* A step that leaves the ring alone keeps its invariant.
LEMMA RingFrame ==
    ASSUME RingInv, UNCHANGED <<head, tail, mem, recs>>
    PROVE  RingInv'
BY DEF RingInv, RecordsIntact, RecordsPlaced, RecordsOrdered, RecordsChained,
       Dist, Used, Leads, From, To, EndOf, PayloadWords

\* Moving head over the n oldest records keeps the invariant of the ring.
LEMMA HeadAdvances ==
    ASSUME TypeOK, RingInv, NEW off \in Offsets, NEW n \in Nat, CutAt(off, n),
           head' = off, UNCHANGED <<tail, mem>>,
           recs' \in Seq(RecordType), Len(recs') = Len(recs) - n,
           \A i \in 1 .. Len(recs') : recs'[i] = recs[i + n]
    PROVE  RingInv' /\ Used' = Used - Dist(off)
<1> DEFINE Dn(o) == IF o >= off THEN o - off ELSE o + Size - off
<1>0. Used' = Dn(tail)
  BY DEF Used, Dist
<1>1. /\ head \in Nat /\ head < Size /\ tail \in Nat /\ tail < Size
      /\ off \in Nat /\ off < Size /\ Len(recs) \in Nat /\ n <= Len(recs)
      /\ Len(recs') \in Nat
  BY OffsetFacts DEF TypeOK, CutAt
<1>2. \A o \in Offsets : Dist(off) <= Dist(o) => Dn(o) = Dist(o) - Dist(off)
  <2> SUFFICES ASSUME NEW o \in Offsets, Dist(off) <= Dist(o)
               PROVE  Dn(o) = Dist(o) - Dist(off)
    OBVIOUS
  <2>1. o \in Nat /\ o < Size
    BY OffsetFacts
  <2> QED BY <1>1, <2>1, SizeFacts DEF Dist
<1>3. RecordsPlaced' = \A i \in 1 .. Len(recs') :
             /\ recs'[i].pos + record_usage(recs'[i].sz) <= Size
             /\ Dn(recs'[i].pos) + record_usage(recs'[i].sz) <= Used'
  BY DEF RecordsPlaced, Dist
<1>4. RecordsOrdered' = \A i, j \in 1 .. Len(recs') :
             i < j => Dn(recs'[i].pos) + record_usage(recs'[i].sz) <= Dn(recs'[j].pos)
  BY DEF RecordsOrdered, Dist
<1> HIDE DEF Dn
<1>5. Dist(off) \in Nat /\ \A o \in Offsets : Dist(o) \in Nat
  BY DistFacts DEF TypeOK
<1>6. Used \in Nat /\ Used' = Used - Dist(off)
  BY <1>0, <1>2, <1>5 DEF CutAt, Used, TypeOK
<1>7. ASSUME NEW i \in 1 .. Len(recs')
      PROVE  /\ i + n \in 1 .. Len(recs) /\ recs'[i] = recs[i + n]
             /\ recs[i + n].pos \in Offsets
             /\ record_usage(recs[i + n].sz) \in Nat
             /\ Dn(recs[i + n].pos) = Dist(recs[i + n].pos) - Dist(off)
  <2>1. i + n \in 1 .. Len(recs) /\ i + n \in n + 1 .. Len(recs)
    BY <1>1
  <2>2. Dist(off) <= Dist(recs[i + n].pos)
    BY <2>1 DEF CutAt
  <2>3. recs[i + n].pos \in Offsets /\ record_usage(recs[i + n].sz) \in Nat
    BY <2>1, RecFacts
  <2> QED BY <2>1, <2>2, <2>3, <1>2
<1>8. RecordsPlaced' /\ RecordsOrdered'
  <2>1. ASSUME NEW i \in 1 .. Len(recs')
        PROVE  /\ recs'[i].pos + record_usage(recs'[i].sz) <= Size
               /\ Dn(recs'[i].pos) + record_usage(recs'[i].sz) <= Used'
    <3>1. /\ recs[i + n].pos + record_usage(recs[i + n].sz) <= Size
          /\ Dist(recs[i + n].pos) + record_usage(recs[i + n].sz) <= Used
      BY <1>7 DEF RingInv, RecordsPlaced
    <3> QED BY <1>5, <1>6, <1>7, <3>1
  <2>2. ASSUME NEW i \in 1 .. Len(recs'), NEW j \in 1 .. Len(recs'), i < j
        PROVE  Dn(recs'[i].pos) + record_usage(recs'[i].sz) <= Dn(recs'[j].pos)
    <3>1. i + n \in 1 .. Len(recs) /\ j + n \in 1 .. Len(recs) /\ i + n < j + n
      BY <1>1, <1>7, <2>2
    <3>2. Dist(recs[i + n].pos) + record_usage(recs[i + n].sz)
             <= Dist(recs[j + n].pos)
      BY <3>1 DEF RingInv, RecordsOrdered
    <3>3. /\ recs'[i] = recs[i + n] /\ recs[i + n].pos \in Offsets
          /\ record_usage(recs[i + n].sz) \in Nat
          /\ Dn(recs[i + n].pos) = Dist(recs[i + n].pos) - Dist(off)
      BY <1>7
    <3>4. /\ recs'[j] = recs[j + n] /\ recs[j + n].pos \in Offsets
          /\ Dn(recs[j + n].pos) = Dist(recs[j + n].pos) - Dist(off)
      BY <1>7
    <3> QED BY <1>5, <3>2, <3>3, <3>4
  <2> QED BY <1>3, <1>4, <2>1, <2>2
<1>9. RecordsIntact'
  BY <1>7 DEF RingInv, RecordsIntact, PayloadWords
<1>10. RecordsChained'
  <2> SUFFICES ASSUME NEW i \in 0 .. Len(recs')
      PROVE  Leads(From(i), To(i))'
    BY DEF RecordsChained
  <2>1. To(i)' = To(i + n)
    <3>1. CASE i = Len(recs')
      BY <3>1, <1>1 DEF To
    <3>2. CASE i # Len(recs')
      <4>0. i \in Nat /\ i < Len(recs')
        <5> DEFINE m == Len(recs')
        <5>1. m \in Nat /\ i \in 0 .. m /\ i # m
          BY <3>2, <1>1
        <5> HIDE DEF m
        <5>2. i \in Nat /\ i < m
          BY <5>1
        <5> QED BY <5>2 DEF m
      <4>1. i + 1 \in 1 .. Len(recs') /\ i + n # Len(recs)
        BY <4>0, <1>1
      <4>2. recs'[i + 1] = recs[(i + 1) + n] /\ (i + 1) + n = (i + n) + 1
        BY <4>1, <1>1
      <4> QED BY <3>2, <4>1, <4>2 DEF To
    <3> QED BY <3>1, <3>2
  <2>2. CASE i = 0
    <3>1. From(i)' = off /\ i + n = n
      BY <2>2 DEF From
    <3> QED BY <2>1, <3>1 DEF CutAt, Leads
  <2>3. CASE i # 0
    <3>1. i \in 1 .. Len(recs') /\ i + n \in 0 .. Len(recs) /\ i + n # 0
      BY <2>3, <1>1
    <3>2. From(i)' = From(i + n)
      BY <3>1, <2>3 DEF From, EndOf
    <3> QED BY <2>1, <3>1, <3>2 DEF RingInv, RecordsChained, Leads
  <2> QED BY <2>2, <2>3
<1> QED BY <1>6, <1>8, <1>9, <1>10 DEF RingInv

\* Both together, and what the reader knows: a writer's step that stores at most
\* in the free space and moves neither head nor tail.
LEMMA WriterStoreKeeps ==
    ASSUME IndInv, UNCHANGED <<head, tail, recs, rpc, r>>,
           \A x \in Words : mem'[x] = mem[x] \/ FreeWord(x),
           wpc' \notin {"size", "commit"} => wpc \notin {"size", "commit"}
    PROVE  RingInv' /\ TailAtEnd' /\ ReaderKnows' /\ ReaderHasOldest'
<1>1. RingInv'
  BY StoreFrame DEF IndInv
<1>2. TailAtEnd'
  BY DEF IndInv, TailAtEnd, From, EndOf
<1>3. head # tail => mem'[head] = mem[head]
  <2>1. head # tail => ~ FreeWord(head)
    BY FreeIsFree DEF IndInv, RingInv
  <2> QED BY <2>1, OffsetFacts DEF IndInv, TypeOK
<1>4. recs # <<>> => head # tail
  BY EmptyRing DEF IndInv, RingInv
<1>5. rpc = "flush" => CutAt(r.off, r.sz)'
  <2> HAVE rpc = "flush"
  <2>1. CutAt(r.off, r.sz) /\ r.off \in Offsets /\ r.sz \in Nat
    BY DEF IndInv, ReaderKnows, TypeOK
  <2>2. To(r.sz)' = To(r.sz)
    BY DEF To
  <2>3. Leads(r.off, To(r.sz))'
    <3>1. CASE r.off = To(r.sz)
      BY <2>2, <3>1 DEF Leads
    <3>2. CASE r.off # To(r.sz)
      <4>1. mem[r.off] = -1 /\ To(r.sz) = 0 /\ head <= r.off /\ tail < head
        BY <2>1, <3>2, CutMarkFacts DEF IndInv, RingInv
      <4>2. r.off \in Nat /\ r.off \in Words /\ head \in Nat /\ tail \in Nat
        BY <2>1, OffsetFacts DEF IndInv, TypeOK
      <4>3. ~ FreeWord(r.off)
        BY <4>1, <4>2 DEF FreeWord
      <4> QED BY <4>1, <4>2, <4>3, <2>2 DEF Leads
    <3> QED BY <3>1, <3>2
  <2> QED BY <2>1, <2>3 DEF CutAt, Dist, Used
<1>6. ReaderKnows'
  <2>1. ReaderKnows
    BY DEF IndInv
  <2>2. rpc = "shift_tail0" => recs # <<>>
    BY DEF IndInv, ReaderHasOldest
  <2> QED BY <2>1, <2>2, <1>3, <1>4, <1>5 DEF ReaderKnows
<1>7. ReaderHasOldest'
  BY DEF IndInv, ReaderHasOldest, WordsOf
<1> QED BY <1>1, <1>2, <1>6, <1>7

-----------------------------------------------------------------------------
(* The writer's steps.                                                     *)

\* Choosing a record, giving up and finding out where it fits store nothing.
LEMMA WriteBeginKeeps ==
    ASSUME IndInv,
           WriteRequest \/ GiveUp \/ WriteBegin \/ WriteBeginWrap
    PROVE  IndInv'
<1> USE DEF readerVars
<1>0. TypeOK /\ WriterSpace
  BY DEF IndInv
<1>1. /\ UNCHANGED <<head, tail, recs, rpc, r, mem, delivered>>
      /\ wpc \in {"idle", "begin", "begin_wrap"}
      /\ wpc' \in {"idle", "begin", "begin_wrap", "fill"}
  BY DEF WriteRequest, GiveUp, WriteBegin, WriteBeginWrap
<1>2. RingInv' /\ TailAtEnd' /\ ReaderKnows' /\ ReaderHasOldest'
  BY <1>1, WriterStoreKeeps
<1>3. /\ head \in Nat /\ head < Size /\ tail \in Nat /\ tail < Size
      /\ w.req \in Nat /\ w.sz \in Nat /\ record_usage(w.req) \in Nat
      /\ tail \in Offsets /\ 0 \in Offsets
  BY <1>0, OffsetFacts, UsageFacts, SizeFacts DEF TypeOK, Offsets, RB_ALIGN, CacheLine
<1>4. CASE WriteRequest
  <2>1. w' \in [req : RecSizes, sz : RecSizes, val : Payloads, pos : {0}]
        /\ w'.sz <= w'.req /\ wpc' = "begin"
    BY <1>4 DEF WriteRequest
  <2>2. TypeOK'
    BY <2>1, <1>0, <1>1, <1>3, RingAssumption DEF TypeOK
  <2>3. WriterSpace'
    BY <2>1 DEF WriterSpace, Writing
  <2> QED BY <1>2, <2>2, <2>3 DEF IndInv
<1>5. CASE GiveUp
  <2>1. w' = NoWrite /\ wpc' = "idle"
    BY <1>5 DEF GiveUp
  <2>2. TypeOK'
    BY <2>1, <1>0, <1>1, <1>3 DEF TypeOK, NoWrite
  <2>3. WriterSpace'
    BY <2>1 DEF WriterSpace, Writing
  <2> QED BY <1>2, <2>2, <2>3 DEF IndInv
<1>6. CASE WriteBegin
  <2> DEFINE a == record_usage(w.req)
  <2>1. w.sz <= w.req
    BY <1>0, <1>6 DEF WriteBegin, WriterSpace
  <2>2. CASE a > Size
    <3>1. w' = NoWrite /\ wpc' = "idle"
      BY <1>6, <2>2, <1>3, SizeFacts DEF WriteBegin
    <3>2. TypeOK'
      BY <3>1, <1>0, <1>1, <1>3 DEF TypeOK, NoWrite
    <3>3. WriterSpace'
      BY <3>1 DEF WriterSpace, Writing
    <3> QED BY <1>2, <3>2, <3>3 DEF IndInv
  <2>3. CASE a <= Size /\ Fits(a)
    <3>1. Used \in Nat /\ Used + a < Size
      BY <2>3, <1>3, <1>0, FreeSpaceIs, SizeFacts, DistFacts DEF Fits, TypeOK, Used
    <3>2. CASE tail + a > Size
      <4>1. wpc' = "begin_wrap" /\ w' = w
        BY <1>6, <2>3, <3>2, <1>3, SizeFacts DEF WriteBegin
      <4>2. TypeOK'
        BY <4>1, <1>0, <1>1 DEF TypeOK
      <4>3. head <= tail
        BY <3>1, <3>2, <1>3, SizeFacts DEF Used, Dist
      <4>4. WriterSpace'
        BY <4>1, <4>3, <3>2, <1>1, <2>1 DEF WriterSpace, Writing
      <4> QED BY <1>2, <4>2, <4>4 DEF IndInv
    <3>3. CASE ~ (tail + a > Size)
      <4>1. wpc' = "fill" /\ w' = [w EXCEPT !.pos = tail]
        BY <1>6, <2>3, <3>3, <1>3, SizeFacts DEF WriteBegin
      <4>2. TypeOK' /\ w'.pos = tail /\ w'.req = w.req /\ w'.sz = w.sz
        BY <4>1, <1>0, <1>1, <1>3 DEF TypeOK
      <4>3. Used' = Used /\ tail + a <= Size
        BY <1>1, <3>3, <1>3, SizeFacts DEF Used, Dist
      <4>4. WriterSpace'
        BY <4>1, <4>2, <4>3, <3>1, <1>1, <2>1 DEF WriterSpace, Writing
      <4> QED BY <1>2, <4>2, <4>4 DEF IndInv
    <3> QED BY <3>2, <3>3
  <2> QED BY <1>6, <2>2, <2>3 DEF WriteBegin
<1>7. CASE WriteBeginWrap
  <2>1. w.sz <= w.req /\ head <= tail /\ tail + record_usage(w.req) > Size
    BY <1>0, <1>7 DEF WriteBeginWrap, WriterSpace
  <2>2. CASE head <= record_usage(w.req)
    <3>1. wpc' = "begin" /\ w' = w
      BY <1>7, <2>2 DEF WriteBeginWrap
    <3>2. TypeOK'
      BY <3>1, <1>0, <1>1 DEF TypeOK
    <3>3. WriterSpace'
      BY <3>1, <2>1 DEF WriterSpace, Writing
    <3> QED BY <1>2, <3>2, <3>3 DEF IndInv
  <2>3. CASE ~ (head <= record_usage(w.req))
    <3>1. wpc' = "fill" /\ w' = [w EXCEPT !.pos = 0]
      BY <1>7, <2>3 DEF WriteBeginWrap
    <3>2. TypeOK' /\ w'.pos = 0 /\ w'.req = w.req /\ w'.sz = w.sz
      BY <3>1, <1>0, <1>1, <1>3 DEF TypeOK
    <3>3. record_usage(w.req) < head /\ 0 # tail /\ record_usage(w.req) <= Size
      BY <2>3, <2>1, <1>3, SizeFacts
    <3>4. WriterSpace'
      BY <3>1, <3>2, <3>3, <1>1, <1>3, <2>1 DEF WriterSpace, Writing
    <3> QED BY <1>2, <3>2, <3>4 DEF IndInv
  <2> QED BY <2>2, <2>3
<1> QED BY <1>4, <1>5, <1>6, <1>7

\* The room a writer was given is free.
LEMMA GivenIsFree ==
    ASSUME TypeOK, WriterSpace, wpc \in Writing,
           NEW x \in Nat, w.pos <= x, x < w.pos + record_usage(w.req)
    PROVE  FreeWord(x)
<1>1. /\ head \in Nat /\ head < Size /\ tail \in Nat /\ tail < Size
      /\ record_usage(w.req) \in Nat /\ w.pos \in Nat
  BY OffsetFacts, UsageFacts DEF TypeOK
<1>2. /\ w.pos + record_usage(w.req) <= Size
      /\ IF w.pos = tail THEN Used + record_usage(w.req) < Size
         ELSE w.pos = 0 /\ record_usage(w.req) < head /\ head <= tail
  BY DEF WriterSpace
<1> QED BY <1>1, <1>2, SizeFacts DEF FreeWord, Used, Dist

\* So is the tail, where the wrap mark or the size field goes.
LEMMA TailIsFree ==
    ASSUME TypeOK
    PROVE  FreeWord(tail)
BY OffsetFacts DEF FreeWord, TypeOK

\* Filling the payload.
LEMMA WriteFillKeeps ==
    ASSUME IndInv, WriteFill
    PROVE  IndInv'
<1> USE DEF readerVars
<1>0. TypeOK /\ WriterSpace
  BY DEF IndInv
<1>1. /\ UNCHANGED <<head, tail, recs, rpc, r, w, delivered>>
      /\ wpc = "fill" /\ wpc \in Writing
      /\ wpc' = IF w.pos = 0 THEN "mark" ELSE "size"
  BY DEF WriteFill, Writing
<1>2. /\ w.pos \in Nat /\ w.sz \in Nat /\ w.req \in Nat /\ w.sz <= w.req
      /\ w.val \in Int /\ record_usage(w.sz) \in Nat /\ record_usage(w.req) \in Nat
      /\ record_usage(w.sz) <= record_usage(w.req)
  BY <1>0, <1>1, OffsetFacts, UsageFacts, UsageMonotone DEF TypeOK, WriterSpace
<1>3. \A x \in PayloadWords(w.pos, w.sz) : FreeWord(x)
  <2> SUFFICES ASSUME NEW x \in PayloadWords(w.pos, w.sz)
               PROVE  FreeWord(x)
    OBVIOUS
  <2>1. x \in Nat /\ w.pos <= x /\ x < w.pos + record_usage(w.sz)
    BY <1>2, PayloadFacts
  <2> QED BY <2>1, <1>0, <1>1, <1>2, GivenIsFree
<1>4. \A x \in Words : mem'[x] = IF x \in PayloadWords(w.pos, w.sz)
                                 THEN w.val ELSE mem[x]
  BY DEF WriteFill
<1>5. RingInv' /\ TailAtEnd' /\ ReaderKnows' /\ ReaderHasOldest'
  BY <1>1, <1>3, <1>4, WriterStoreKeeps
<1>6. mem' \in [Words -> Int]
  BY <1>0, <1>2 DEF WriteFill, TypeOK
<1>7. TypeOK'
  BY <1>0, <1>1, <1>6 DEF TypeOK
<1>8. \A x \in PayloadWords(w.pos, w.sz) : mem'[x] = w.val
  BY <1>4 DEF PayloadWords
<1>9. /\ w.pos + record_usage(w.req) <= Size
      /\ IF w.pos = tail THEN Used + record_usage(w.req) < Size
         ELSE w.pos = 0 /\ record_usage(w.req) < head /\ head <= tail
  BY <1>0, <1>1 DEF WriterSpace
<1>10. WriterSpace'
  <2>1. Used' = Used /\ PayloadWords(w.pos, w.sz)' = PayloadWords(w.pos, w.sz)
    BY <1>1 DEF Used, Dist, PayloadWords
  <2> QED BY <2>1, <1>1, <1>2, <1>8, <1>9 DEF WriterSpace, Writing
<1> QED BY <1>5, <1>7, <1>10 DEF IndInv

\* The wrap mark, and the size field.
LEMMA WriteTailWordKeeps ==
    ASSUME IndInv, WriteMark \/ WriteSize
    PROVE  IndInv'
<1> USE DEF readerVars
<1>0. TypeOK /\ WriterSpace
  BY DEF IndInv
<1>1. /\ UNCHANGED <<head, tail, recs, rpc, r, w, delivered>>
      /\ \/ wpc = "mark" /\ wpc' = "reset" /\ mem' = [mem EXCEPT ![tail] = -1]
         \/ wpc = "size" /\ wpc' = "commit" /\ mem' = [mem EXCEPT ![tail] = w.sz]
      /\ wpc \in Writing
  BY DEF WriteMark, WriteSize, Writing
<1>2. /\ w.pos \in Nat /\ w.sz \in Nat /\ w.req \in Nat /\ w.sz <= w.req
      /\ record_usage(w.sz) \in Nat /\ record_usage(w.req) \in Nat
      /\ record_usage(w.sz) <= record_usage(w.req)
      /\ tail \in Words /\ tail \in Nat /\ head \in Nat
  BY <1>0, <1>1, OffsetFacts, UsageFacts, UsageMonotone DEF TypeOK, WriterSpace
<1>3. RingInv' /\ TailAtEnd' /\ ReaderKnows' /\ ReaderHasOldest'
  <2>1. \A x \in Words : mem'[x] = mem[x] \/ FreeWord(x)
    BY <1>0, <1>1, TailIsFree DEF TypeOK
  <2> QED BY <1>1, <2>1, WriterStoreKeeps
<1>4. mem' \in [Words -> Int]
  BY <1>0, <1>1, <1>2 DEF TypeOK
<1>5. TypeOK'
  BY <1>0, <1>1, <1>4 DEF TypeOK
<1>6. /\ w.pos + record_usage(w.req) <= Size
      /\ IF w.pos = tail THEN Used + record_usage(w.req) < Size
         ELSE w.pos = 0 /\ record_usage(w.req) < head /\ head <= tail
      /\ wpc = "mark" => w.pos = 0
      /\ wpc = "size" => w.pos = tail
      /\ \A x \in PayloadWords(w.pos, w.sz) : mem[x] = w.val
  BY <1>0, <1>1 DEF WriterSpace, Writing
<1>7. tail \notin PayloadWords(w.pos, w.sz)
  <2> SUFFICES ASSUME tail \in PayloadWords(w.pos, w.sz)
               PROVE  FALSE
    OBVIOUS
  <2>1. w.pos + SizeofSize <= tail /\ tail < w.pos + record_usage(w.sz)
    BY <1>2, PayloadFacts
  <2> QED BY <2>1, <1>2, <1>6 DEF SizeofSize
<1>8. \A x \in PayloadWords(w.pos, w.sz) : mem'[x] = w.val
  BY <1>0, <1>1, <1>6, <1>7 DEF PayloadWords, TypeOK
<1>9. WriterSpace'
  <2>1. /\ Used' = Used /\ PayloadWords(w.pos, w.sz)' = PayloadWords(w.pos, w.sz)
        /\ wpc' = "reset" => mem'[tail] = -1
        /\ wpc' = "commit" => mem'[tail] = w.sz
    BY <1>0, <1>1, <1>2 DEF Used, Dist, PayloadWords, TypeOK
  <2> QED BY <2>1, <1>1, <1>2, <1>6, <1>8 DEF WriterSpace, Writing
<1> QED BY <1>3, <1>5, <1>9 DEF IndInv

\* Moving tail from the wrap mark to the start of the ring.
LEMMA WriteResetKeeps ==
    ASSUME IndInv, WriteReset
    PROVE  IndInv'
<1> USE DEF readerVars
<1> DEFINE a == record_usage(w.req)
<1>0. TypeOK /\ WriterSpace /\ RingInv /\ TailAtEnd /\ ReaderKnows
  BY DEF IndInv
<1>1. /\ UNCHANGED <<head, recs, mem, rpc, r, w, delivered>>
      /\ wpc = "reset" /\ wpc' = "size" /\ tail' = 0 /\ wpc \in Writing
  BY DEF WriteReset, Writing
<1>2. /\ w.pos = 0 /\ a <= Size /\ mem[tail] = -1 /\ w.sz <= w.req
      /\ IF w.pos = tail THEN Used + a < Size ELSE a < head /\ head <= tail
      /\ \A x \in PayloadWords(w.pos, w.sz) : mem[x] = w.val
      /\ a \in Nat
  BY <1>0, <1>1, UsageFacts DEF WriterSpace, Writing, TypeOK
<1>3. /\ head \in Nat /\ head < Size /\ tail \in Nat /\ tail < Size
      /\ Len(recs) \in Nat /\ 0 \in Offsets
  BY <1>0, OffsetFacts, SizeFacts DEF TypeOK, Offsets, CacheLine, RB_ALIGN
<1>4. TypeOK'
  BY <1>0, <1>1, <1>3 DEF TypeOK
<1>5. WriterSpace'
  <2>1. Used' + a < Size
    BY <1>1, <1>2, <1>3, SizeFacts DEF Used, Dist
  <2> QED BY <2>1, <1>1, <1>2 DEF WriterSpace, Writing, PayloadWords
<1>6. TailAtEnd' /\ ReaderHasOldest'
  BY <1>1 DEF TailAtEnd, ReaderHasOldest, WordsOf, IndInv
<1>7. CASE tail = 0
  <2>1. RingInv' /\ ReaderKnows'
    BY <1>1, <1>7, WriterStoreKeeps
  <2> QED BY <1>4, <1>5, <1>6, <2>1 DEF IndInv
<1>8. CASE tail # 0
  <2>1. a < head /\ head <= tail /\ Used <= Used' /\ Used \in Nat /\ Used' \in Nat
    BY <1>1, <1>2, <1>3, <1>8, SizeFacts DEF Used, Dist
  <2>2. RecordsIntact' /\ RecordsOrdered'
    BY <1>0, <1>1 DEF RingInv, RecordsIntact, RecordsOrdered, Dist, PayloadWords
  <2>3. RecordsPlaced'
    <3> SUFFICES ASSUME NEW i \in 1 .. Len(recs)
                 PROVE  /\ recs[i].pos + record_usage(recs[i].sz) <= Size
                        /\ Dist(recs[i].pos) + record_usage(recs[i].sz) <= Used'
      BY <1>1 DEF RecordsPlaced, Dist
    <3>1. /\ recs[i].pos + record_usage(recs[i].sz) <= Size
          /\ Dist(recs[i].pos) + record_usage(recs[i].sz) <= Used
      BY <1>0 DEF RingInv, RecordsPlaced
    <3>2. record_usage(recs[i].sz) \in Nat /\ Dist(recs[i].pos) \in Nat
      BY <1>0, RecFacts, DistFacts DEF TypeOK
    <3> QED BY <3>1, <3>2, <2>1
  <2>4. RecordsChained'
    <3> SUFFICES ASSUME NEW i \in 0 .. Len(recs)
                 PROVE  Leads(From(i), To(i))'
      BY <1>1 DEF RecordsChained
    <3>1. From(i)' = From(i) /\ Leads(From(i), To(i))
      BY <1>0, <1>1 DEF From, EndOf, RingInv, RecordsChained
    <3>2. CASE i = Len(recs)
      <4>1. From(i) = tail /\ To(i)' = 0
        BY <3>2, <1>0, <1>1 DEF TailAtEnd, To
      <4> QED BY <4>1, <3>1, <1>1, <1>2 DEF Leads
    <3>3. CASE i # Len(recs)
      BY <3>1, <3>3, <1>1 DEF To, Leads
    <3> QED BY <3>2, <3>3
  <2>5. rpc = "flush" => CutAt(r.off, r.sz)'
    <3> HAVE rpc = "flush"
    <3>1. CutAt(r.off, r.sz) /\ r.off \in Offsets /\ r.sz \in Nat
      BY <1>0 DEF ReaderKnows, TypeOK
    <3>2. Leads(r.off, To(r.sz))'
      <4>1. CASE r.sz = Len(recs)
        <5>1. r.off = tail /\ To(r.sz)' = 0
          BY <4>1, <3>1, <1>1 DEF CutAt, To
        <5> QED BY <5>1, <1>1, <1>2 DEF Leads
      <4>2. CASE r.sz # Len(recs)
        BY <4>2, <3>1, <1>1 DEF CutAt, To, Leads
      <4> QED BY <4>1, <4>2
    <3>3. Dist(r.off) \in Nat /\ Dist(r.off) <= Used'
      BY <3>1, <2>1, <1>0, DistFacts DEF CutAt, TypeOK
    <3>4. Dist(r.off)' <= Used'
      BY <3>3, <1>1 DEF Dist
    <3>5. /\ r.sz \in 0 .. Len(recs)
          /\ \A i \in 1 .. r.sz :
                (Dist(recs[i].pos) + record_usage(recs[i].sz) <= Dist(r.off))'
          /\ \A i \in r.sz + 1 .. Len(recs) : (Dist(r.off) <= Dist(recs[i].pos))'
      BY <3>1, <1>1 DEF CutAt, Dist
    <3> QED BY <3>2, <3>4, <3>5, <1>1 DEF CutAt
  <2>6. ReaderKnows'
    <3>1. head' # tail'
      BY <2>1, <1>1, <1>2, <1>3
    <3>2. ReaderKnows
      BY <1>0
    <3> QED BY <3>1, <3>2, <2>5, <1>1 DEF ReaderKnows
  <2> QED BY <1>4, <1>5, <1>6, <2>2, <2>3, <2>4, <2>6 DEF IndInv, RingInv
<1> QED BY <1>7, <1>8

\* Publishing the record.
LEMMA WriteCommitKeeps ==
    ASSUME IndInv, WriteCommit
    PROVE  IndInv'
<1> USE DEF readerVars
<1> DEFINE u  == record_usage(w.sz)
           nr == [pos |-> w.pos, sz |-> w.sz, val |-> w.val]
<1>k. PICK n \in Nat : n = Len(recs)
  BY DEF IndInv, TypeOK
<1>0. TypeOK /\ WriterSpace /\ RingInv /\ ReaderKnows /\ ReaderHasOldest
  BY DEF IndInv
<1>1. /\ UNCHANGED <<head, mem, rpc, r, delivered>> /\ n = Len(recs)
      /\ wpc = "commit" /\ wpc' = "idle" /\ w' = NoWrite
      /\ tail' = (tail + u) % Size /\ recs' = Append(recs, nr)
  BY <1>k DEF WriteCommit
<1>2. /\ w.pos = tail /\ mem[tail] = w.sz /\ w.sz <= w.req
      /\ Used + record_usage(w.req) < Size
      /\ tail + record_usage(w.req) <= Size
      /\ \A x \in PayloadWords(w.pos, w.sz) : mem[x] = w.val
  BY <1>0, <1>1 DEF WriterSpace, Writing
<1>3. /\ head \in Nat /\ head < Size /\ tail \in Nat /\ tail < Size
      /\ tail \in Offsets /\ head \in Offsets /\ 0 \in Offsets
      /\ n \in Nat /\ w.sz \in Nat /\ w.req \in Nat /\ w.val \in Int
      /\ u \in Nat /\ 0 < u /\ u <= record_usage(w.req)
      /\ record_usage(w.req) \in Nat /\ Used \in Nat
  <2>1. /\ tail \in Offsets /\ head \in Offsets /\ w.sz \in Nat /\ w.req \in Nat
        /\ w.val \in Int
    BY <1>0 DEF TypeOK
  <2>2. u \in Nat /\ 0 < u /\ record_usage(w.req) \in Nat /\ u <= record_usage(w.req)
    <3>1. u \in Nat /\ RB_ALIGN <= u
      BY <2>1, UsageFacts
    <3>2. record_usage(w.req) \in Nat
      BY <2>1, UsageFacts
    <3>3. u <= record_usage(w.req)
      BY <2>1, <1>2, UsageMonotone
    <3> QED BY <3>1, <3>2, <3>3 DEF RB_ALIGN
  <2>3. 0 \in Offsets
    BY SizeFacts DEF Offsets, CacheLine, RB_ALIGN
  <2> QED BY <2>1, <2>2, <2>3, OffsetFacts, DistFacts DEF Used
<1>4. tail + u <= Size /\ Used + u < Size
  BY <1>2, <1>3, SizeFacts
<1>5. /\ tail' = IF tail + u = Size THEN 0 ELSE tail + u
      /\ tail' \in Offsets
  BY <1>1, <1>3, <1>4, EndFacts
<1>6. nr \in RecordType /\ recs \in Seq(RecordType)
  BY <1>0, <1>2, <1>3 DEF RecordType, TypeOK
<1>7. /\ recs' \in Seq(RecordType) /\ Len(recs') = n + 1 /\ recs' # <<>>
      /\ \A i \in 1 .. n : recs'[i] = recs[i]
      /\ recs'[n + 1] = nr
  <2> HIDE DEF nr
  <2> QED BY <1>1, <1>6, <1>k
<1>8. Used' = Used + u
  <2> HIDE DEF u
  <2>0. head' = head
    BY <1>1
  <2>1. CASE tail + u = Size
    BY <2>0, <2>1, <1>3, <1>4, <1>5, SizeFacts DEF Used, Dist
  <2>2. CASE tail + u # Size
    BY <2>0, <2>2, <1>3, <1>4, <1>5, SizeFacts DEF Used, Dist
  <2> QED BY <2>1, <2>2
<1>9. TypeOK'
  <2>1. recs' \in Seq([pos : Offsets, sz : Nat, val : Int])
    BY <1>7 DEF RecordType
  <2>2. w' \in [req : Nat, sz : Nat, val : Int, pos : Offsets]
    BY <1>1, <1>3 DEF NoWrite
  <2> QED BY <1>0, <1>1, <1>5, <2>1, <2>2 DEF TypeOK
<1>10. WriterSpace'
  BY <1>1 DEF WriterSpace, Writing
<1> HIDE DEF nr, u
<1>11. ASSUME NEW i \in 1 .. Len(recs')
       PROVE  \/ i \in 1 .. n /\ recs'[i] = recs[i]
              \/ i = n + 1 /\ recs'[i] = nr
  BY <1>3, <1>7
<1>12. RecordsIntact'
  <2> SUFFICES ASSUME NEW i \in 1 .. Len(recs')
      PROVE  /\ mem[recs'[i].pos] = recs'[i].sz
             /\ \A x \in PayloadWords(recs'[i].pos, recs'[i].sz) :
                   mem[x] = recs'[i].val
    BY <1>1 DEF RecordsIntact, PayloadWords
  <2>1. CASE i \in 1 .. n /\ recs'[i] = recs[i]
    BY <2>1, <1>0, <1>k DEF RingInv, RecordsIntact
  <2>2. CASE recs'[i] = nr
    BY <2>2, <1>2 DEF nr
  <2> QED BY <2>1, <2>2, <1>11
<1>13. RecordsPlaced'
  <2> SUFFICES ASSUME NEW i \in 1 .. Len(recs')
      PROVE  /\ recs'[i].pos + record_usage(recs'[i].sz) <= Size
             /\ Dist(recs'[i].pos) + record_usage(recs'[i].sz) <= Used'
    BY <1>1 DEF RecordsPlaced, Dist
  <2>1. CASE i \in 1 .. n /\ recs'[i] = recs[i]
    <3>1. /\ recs[i].pos + record_usage(recs[i].sz) <= Size
          /\ Dist(recs[i].pos) + record_usage(recs[i].sz) <= Used
      BY <2>1, <1>0, <1>k DEF RingInv, RecordsPlaced
    <3>2. record_usage(recs[i].sz) \in Nat /\ Dist(recs[i].pos) \in Nat
      BY <2>1, <1>0, <1>3, <1>k, RecFacts, DistFacts
    <3> QED BY <3>1, <3>2, <2>1, <1>3, <1>8
  <2>2. CASE recs'[i] = nr
    <3>1. recs'[i].pos = tail /\ record_usage(recs'[i].sz) = u
      BY <2>2, <1>2 DEF nr, u
    <3> QED BY <3>1, <1>3, <1>4, <1>8 DEF Used
  <2> QED BY <2>1, <2>2, <1>11
<1>14. RecordsOrdered'
  <2> SUFFICES ASSUME NEW i \in 1 .. Len(recs'), NEW j \in 1 .. Len(recs'), i < j
      PROVE  Dist(recs'[i].pos) + record_usage(recs'[i].sz) <= Dist(recs'[j].pos)
    BY <1>1 DEF RecordsOrdered, Dist
  <2>1. i \in 1 .. n /\ recs'[i] = recs[i]
    BY <1>3, <1>7, <1>11
  <2>2. CASE j \in 1 .. n /\ recs'[j] = recs[j]
    BY <2>1, <2>2, <1>0, <1>k DEF RingInv, RecordsOrdered
  <2>3. CASE recs'[j] = nr
    <3>1. recs'[j].pos = tail
      BY <2>3, <1>2 DEF nr
    <3> QED BY <3>1, <2>1, <1>0, <1>k DEF RingInv, RecordsPlaced, Used
  <2> QED BY <2>2, <2>3, <1>11
<1>15. ASSUME NEW i \in 0 .. n
       PROVE  To(i)' = To(i) /\ From(i)' = From(i)
  <2>1. To(i)' = recs'[i + 1].pos
    BY <1>3, <1>7 DEF To
  <2>2. ASSUME i = n PROVE To(i)' = To(i)
    <3>1. To(i) = tail
      BY <2>2, <1>k DEF To
    <3>2. recs'[i + 1].pos = tail
      BY <2>2, <1>7, <1>2 DEF nr
    <3> QED BY <2>1, <3>1, <3>2
  <2>3. ASSUME i # n PROVE To(i)' = To(i)
    <3>1. i + 1 \in 1 .. n
      BY <2>3, <1>3
    <3>2. To(i) = recs[i + 1].pos
      BY <2>3, <1>k DEF To
    <3> QED BY <3>1, <3>2, <2>1, <1>7
  <2>4. From(i)' = From(i)
    <3>1. CASE i = 0
      BY <3>1, <1>1 DEF From
    <3>2. CASE i # 0
      <4>1. i \in 1 .. n
        BY <3>2, <1>3
      <4> QED BY <3>2, <4>1, <1>7 DEF From, EndOf
    <3> QED BY <3>1, <3>2
  <2> QED BY <2>2, <2>3, <2>4
<1>16. From(n + 1)' = tail' /\ To(n + 1)' = tail'
  <2>1. n + 1 # 0
    BY <1>3
  <2> QED BY <2>1, <1>1, <1>2, <1>7 DEF From, To, EndOf, nr, u
<1>17. RecordsChained'
  <2> SUFFICES ASSUME NEW i \in 0 .. Len(recs')
               PROVE  Leads(From(i), To(i))'
    BY DEF RecordsChained
  <2>1. CASE i \in 0 .. n
    BY <2>1, <1>0, <1>1, <1>15, <1>k DEF RingInv, RecordsChained, Leads
  <2>2. CASE i = n + 1
    BY <2>2, <1>16 DEF Leads
  <2> QED BY <2>1, <2>2, <1>3, <1>7
<1>18. TailAtEnd'
  BY <1>7, <1>16 DEF TailAtEnd
<1>19. ReaderHasOldest'
  <2>1. recs # <<>> => recs'[1] = recs[1]
    <3> HAVE recs # <<>>
    <3>1. 1 \in 1 .. n
      BY <1>0, <1>k, EmptyRing DEF RingInv
    <3> QED BY <3>1, <1>7
  <2> QED BY <2>1, <1>0, <1>1, <1>7 DEF ReaderHasOldest, WordsOf
<1>20. rpc = "flush" => CutAt(r.off, r.sz)'
  <2> HAVE rpc = "flush"
  <2>1. CutAt(r.off, r.sz) /\ r.off \in Offsets /\ r.sz \in 0 .. n
    BY <1>0, <1>k DEF ReaderKnows, TypeOK, CutAt
  <2>2. Leads(r.off, To(r.sz))'
    BY <2>1, <1>1, <1>15 DEF CutAt, Leads
  <2>3. r.sz \in 0 .. Len(recs') /\ r.sz # Len(recs')
    BY <2>1, <1>3, <1>7
  <2>4. Dist(r.off) <= Used' /\ Dist(r.off) <= Used /\ Dist(r.off) \in Nat
    <3>1. Dist(r.off) <= Used
      BY <2>1 DEF CutAt
    <3>2. Dist(r.off) \in Nat
      BY <2>1, <1>3, DistFacts
    <3> QED BY <3>1, <3>2, <1>3, <1>8
  <2>5. ASSUME NEW i \in 1 .. r.sz
        PROVE  Dist(recs'[i].pos) + record_usage(recs'[i].sz) <= Dist(r.off)
    <3>1. i \in 1 .. n
      BY <2>1, <1>3
    <3> QED BY <3>1, <2>1, <1>7 DEF CutAt
  <2>6. ASSUME NEW i \in r.sz + 1 .. Len(recs')
        PROVE  Dist(r.off) <= Dist(recs'[i].pos)
    <3>1. CASE i = n + 1
      BY <3>1, <2>4, <1>7, <1>2 DEF nr, Used
    <3>2. CASE i # n + 1
      <4>1. i \in 1 .. n /\ i \in r.sz + 1 .. n
        BY <3>2, <2>1, <1>3, <1>7
      <4> QED BY <4>1, <2>1, <1>7, <1>k DEF CutAt
    <3> QED BY <3>1, <3>2
  <2> QED BY <2>2, <2>3, <2>4, <2>5, <2>6, <1>1 DEF CutAt, Dist
<1>21. ReaderKnows'
  <2>1. head # tail'
    BY <1>3, <1>4, <1>5, SizeFacts DEF Used, Dist
  <2> QED BY <2>1, <1>0, <1>1, <1>7, <1>20 DEF ReaderKnows
<1> QED BY <1>9, <1>10, <1>12, <1>13, <1>14, <1>17, <1>18, <1>19, <1>21
        DEF IndInv, RingInv

-----------------------------------------------------------------------------
(* The reader's steps.                                                     *)

\* What lies at head: the oldest record, or a wrap mark with the oldest record
\* at the start of the ring; a ring that only looks non-empty has the wrap mark.
LEMMA AtHead ==
    ASSUME TypeOK, RingInv
    PROVE  /\ recs # <<>> => /\ mem[recs[1].pos] = recs[1].sz /\ recs[1].sz \in Nat
                             /\ mem[head] \in Nat => recs[1].pos = head
                             /\ mem[head] < 0 => recs[1].pos = 0 /\ mem[head] = -1
           /\ recs = <<>> /\ head # tail => tail = 0 /\ mem[head] = -1
<1>1. Len(recs) \in Nat /\ (recs = <<>> <=> Len(recs) = 0)
  BY DEF TypeOK
<1>2. Leads(From(0), To(0)) /\ From(0) = head
  BY <1>1 DEF RingInv, RecordsChained, From
<1>3. CASE recs = <<>>
  BY <1>1, <1>2, <1>3 DEF To, Leads
<1>4. CASE recs # <<>>
  <2>1. To(0) = recs[1].pos /\ 1 \in 1 .. Len(recs)
    BY <1>1, <1>4 DEF To
  <2>2. mem[recs[1].pos] = recs[1].sz /\ recs[1].sz \in Nat
    BY <2>1, RecFacts DEF RingInv, RecordsIntact
  <2> QED BY <1>2, <1>4, <2>1, <2>2 DEF Leads
<1> QED BY <1>3, <1>4

\* The payload words of the oldest record, as its reader finds them.
LEMMA OldestWords ==
    ASSUME TypeOK, RecordsIntact, RecordsPlaced, recs # <<>>
    PROVE  {mem[x] : x \in PayloadWords(recs[1].pos, recs[1].sz)} = WordsOf(recs[1])
<1> DEFINE W == PayloadWords(recs[1].pos, recs[1].sz)
<1>1. 1 \in 1 .. Len(recs)
  BY EmptyRing
<1>2. /\ recs[1].pos \in Offsets /\ recs[1].pos \in Nat /\ recs[1].sz \in Nat
      /\ recs[1].sz + SizeofSize <= record_usage(recs[1].sz)
      /\ record_usage(recs[1].sz) \in Nat
      /\ recs[1].pos + record_usage(recs[1].sz) <= Size
  BY <1>1, RecFacts DEF RecordsPlaced
<1>3. \A x \in W : mem[x] = recs[1].val
  BY <1>1 DEF RecordsIntact
<1>4. CASE recs[1].sz = 0
  <2>1. W = {}
    BY <1>2, <1>4, SizeFacts DEF PayloadWords, Words, SizeofSize
  <2> QED BY <2>1, <1>4 DEF WordsOf
<1>5. CASE recs[1].sz # 0
  <2>1. recs[1].pos + SizeofSize \in W
    <3>1. recs[1].pos % RB_ALIGN = 0
      BY <1>2, OffsetFacts
    <3>a. recs[1].pos + SizeofSize < Size
      BY <1>2, <1>5, SizeFacts DEF SizeofSize
    <3>b. \A p \in Nat : p % RB_ALIGN = 0 /\ p + SizeofSize < Size
                            => p + SizeofSize \in Words
      BY SizeFacts DEF Words, SizeofSize, RB_ALIGN
    <3>2. recs[1].pos + SizeofSize \in Words
      BY <3>1, <3>a, <3>b, <1>2
    <3> QED BY <3>2, <1>2, <1>5 DEF PayloadWords, SizeofSize
  <2> HIDE DEF W
  <2>2. {mem[x] : x \in W} = {recs[1].val}
    BY <2>1, <1>3
  <2> QED BY <2>2, <1>5 DEF WordsOf, W
<1> QED BY <1>4, <1>5

\* Looking at the ring, using the record and the load of record_flush().
LEMMA LookKeeps ==
    ASSUME IndInv,
           \/ ReadTail \/ ReadSize \/ ReadTail0 \/ UseData \/ Peeked
           \/ ShiftTail \/ ShiftTail0 \/ ShiftSize \/ FlushLoad
    PROVE  IndInv'
<1> USE DEF writerVars
<1>0. TypeOK /\ WriterSpace /\ RingInv /\ TailAtEnd /\ ReaderKnows /\ ReaderHasOldest
  BY DEF IndInv
<1>1. UNCHANGED <<head, tail, mem, recs, wpc, w, delivered>>
  BY DEF ReadTail, ReadSize, ReadTail0, UseData, Peeked, ShiftTail, ShiftTail0,
         ShiftSize, FlushLoad
<1>2. RingInv'
  BY <1>0, <1>1, RingFrame
<1>3. TailAtEnd'
  BY <1>0, <1>1 DEF TailAtEnd, From, EndOf
<1>4. WriterSpace'
  BY <1>0, <1>1 DEF WriterSpace, PayloadWords, Used, Dist
<1>5. /\ head \in Offsets /\ tail \in Offsets /\ 0 \in Offsets /\ r.off \in Offsets
      /\ head \in Words /\ r.off \in Words /\ mem \in [Words -> Int]
      /\ mem[head] \in Int /\ mem[r.off] \in Int /\ r.sz \in Nat /\ Len(recs) \in Nat
      /\ r \in [off : Offsets, sz : Nat, words : SUBSET Int]
  <2>1. 0 \in Offsets
    BY SizeFacts DEF Offsets, CacheLine, RB_ALIGN
  <2> QED BY <2>1, <1>0, OffsetFacts DEF TypeOK
<1>6. /\ recs # <<>> => /\ mem[recs[1].pos] = recs[1].sz /\ recs[1].sz \in Nat
                        /\ mem[head] \in Nat => recs[1].pos = head
                        /\ mem[head] < 0 => recs[1].pos = 0 /\ mem[head] = -1
      /\ recs = <<>> /\ head # tail => tail = 0 /\ mem[head] = -1
      /\ recs # <<>> => head # tail
  BY <1>0, AtHead, EmptyRing DEF RingInv
<1> DEFINE RType == [off : Offsets, sz : Nat, words : SUBSET Int]
           Goal == r' \in RType /\ ReaderKnows' /\ ReaderHasOldest'
<1>7. rpc' \in {"idle", "read_size", "read_tail0", "hold", "shift_tail",
                "shift_tail0", "shift_size", "shift_head", "flush"}
  BY DEF ReadTail, ReadSize, ReadTail0, UseData, Peeked, ShiftTail, ShiftTail0,
         ShiftSize, FlushLoad
<1>8. SUFFICES Goal
  BY <1>0, <1>1, <1>2, <1>3, <1>4, <1>7 DEF TypeOK, IndInv
<1>9. ASSUME rpc' = "idle", r' = NoRead
      PROVE  Goal
  <2>1. r' \in RType
    BY <1>5, <1>9 DEF NoRead
  <2> QED BY <1>9, <2>1 DEF ReaderKnows, ReaderHasOldest
<1>10. CASE ReadTail
  <2>1. head # tail /\ rpc' = "read_size" /\ r' = [r EXCEPT !.off = head]
    BY <1>10 DEF ReadTail
  <2>2. r' \in RType /\ r'.off = head
    BY <1>5, <2>1
  <2> QED BY <1>1, <2>1, <2>2 DEF ReaderKnows, ReaderHasOldest
<1>11. CASE ReadSize
  <2>1. /\ rpc = "read_size" /\ head # tail
        /\ r.off = head \/ (r.off = 0 /\ mem[head] = -1 /\ recs # <<>>)
    BY <1>0, <1>11 DEF ReadSize, ReaderKnows
  <2>2. CASE mem[r.off] < 0
    <3>1. rpc' = "read_tail0" /\ r' = r
      BY <1>11, <2>2 DEF ReadSize
    <3>2. mem[head] = -1
      BY <1>6, <2>1, <2>2
    <3> QED BY <1>1, <1>5, <2>1, <3>1, <3>2 DEF ReaderKnows, ReaderHasOldest
  <2>3. CASE ~ (mem[r.off] < 0)
    <3>1. rpc' = "hold" /\ r' = [r EXCEPT !.sz = mem[r.off]]
      BY <1>11, <2>3 DEF ReadSize
    <3>2. mem[r.off] \in Nat
      BY <1>5, <2>3
    <3>3. r' \in RType /\ r'.off = r.off /\ r'.sz = mem[r.off]
      BY <1>5, <3>1, <3>2
    <3>4. recs # <<>> /\ r.off = recs[1].pos /\ mem[r.off] = recs[1].sz
      BY <1>5, <1>6, <2>1, <3>2
    <3> QED BY <1>1, <3>1, <3>3, <3>4 DEF ReaderKnows, ReaderHasOldest
  <2> QED BY <2>2, <2>3
<1>12. CASE ReadTail0
  <2>1. rpc = "read_tail0" /\ head # tail /\ mem[head] = -1
    BY <1>0, <1>12 DEF ReadTail0, ReaderKnows
  <2>2. CASE tail = 0
    BY <1>9, <1>12, <2>2 DEF ReadTail0
  <2>3. CASE tail # 0
    <3>1. rpc' = "read_size" /\ r' = [r EXCEPT !.off = 0]
      BY <1>12, <2>3 DEF ReadTail0
    <3>2. r' \in RType /\ r'.off = 0
      BY <1>5, <3>1
    <3> QED BY <1>1, <1>6, <2>1, <2>3, <3>1, <3>2 DEF ReaderKnows, ReaderHasOldest
  <2> QED BY <2>2, <2>3
<1>13. CASE UseData
  <2>1. /\ rpc' = "shift_tail"
        /\ r' = [r EXCEPT !.words = {mem[x] : x \in PayloadWords(r.off, r.sz)}]
        /\ recs # <<>> /\ r.off = recs[1].pos /\ r.sz = recs[1].sz
    BY <1>0, <1>13 DEF UseData, ReaderHasOldest
  <2>2. {mem[x] : x \in PayloadWords(r.off, r.sz)} = WordsOf(recs[1])
    BY <1>0, <2>1, OldestWords DEF RingInv
  <2>3. WordsOf(recs[1]) \in SUBSET Int
    <3>1. 1 \in 1 .. Len(recs)
      BY <1>0, <2>1, EmptyRing DEF RingInv
    <3>2. recs[1].val \in Int
      BY <3>1, <1>0, RecFacts
    <3> QED BY <3>2 DEF WordsOf
  <2>4. r' \in RType /\ r'.words = WordsOf(recs[1])
    BY <1>5, <2>1, <2>2, <2>3
  <2> QED BY <1>1, <2>1, <2>4 DEF ReaderKnows, ReaderHasOldest, WordsOf
<1>14. CASE Peeked
  BY <1>9, <1>14 DEF Peeked
<1>15. CASE ShiftTail
  <2>1. recs # <<>> /\ r.words = WordsOf(recs[1]) /\ head # tail
    BY <1>0, <1>6, <1>15 DEF ShiftTail, ReaderHasOldest
  <2>2. rpc' = "shift_size" /\ r' = [r EXCEPT !.off = head]
    BY <1>15, <2>1 DEF ShiftTail
  <2>3. r' \in RType /\ r'.off = head /\ r'.words = r.words
    BY <1>5, <2>2
  <2> QED BY <1>1, <2>1, <2>2, <2>3 DEF ReaderKnows, ReaderHasOldest, WordsOf
<1>16. CASE ShiftTail0
  <2>1. /\ recs # <<>> /\ r.words = WordsOf(recs[1]) /\ head # tail
        /\ mem[head] = -1
    BY <1>0, <1>6, <1>16 DEF ShiftTail0, ReaderHasOldest, ReaderKnows
  <2>2. rpc' = "shift_size" /\ r' = [r EXCEPT !.off = 0]
    BY <1>16, <2>1 DEF ShiftTail0
  <2>3. r' \in RType /\ r'.off = 0 /\ r'.words = r.words
    BY <1>5, <2>2
  <2> QED BY <1>1, <2>1, <2>2, <2>3 DEF ReaderKnows, ReaderHasOldest, WordsOf
<1>17. CASE ShiftSize
  <2>1. /\ recs # <<>> /\ r.words = WordsOf(recs[1])
        /\ r.off = head \/ (r.off = 0 /\ mem[head] = -1)
    BY <1>0, <1>17 DEF ShiftSize, ReaderHasOldest, ReaderKnows
  <2>2. CASE mem[r.off] < 0
    <3>1. rpc' = "shift_tail0" /\ r' = r
      BY <1>17, <2>2 DEF ShiftSize
    <3>2. mem[head] = -1
      BY <1>6, <2>1, <2>2
    <3> QED BY <1>1, <1>5, <2>1, <3>1, <3>2 DEF ReaderKnows, ReaderHasOldest, WordsOf
  <2>3. CASE ~ (mem[r.off] < 0)
    <3>1. rpc' = "shift_head" /\ r' = [r EXCEPT !.sz = mem[r.off]]
      BY <1>17, <2>3 DEF ShiftSize
    <3>2. mem[r.off] \in Nat
      BY <1>5, <2>3
    <3>3. r' \in RType /\ r'.off = r.off /\ r'.sz = mem[r.off] /\ r'.words = r.words
      BY <1>5, <3>1, <3>2
    <3>4. r.off = recs[1].pos /\ mem[r.off] = recs[1].sz
      BY <1>5, <1>6, <2>1, <3>2
    <3> QED BY <1>1, <2>1, <3>1, <3>3, <3>4 DEF ReaderKnows, ReaderHasOldest, WordsOf
  <2> QED BY <2>2, <2>3
<1>18. CASE FlushLoad
  <2>1. rpc' = "flush" /\ r' = [r EXCEPT !.off = tail, !.sz = Len(recs)]
    BY <1>18 DEF FlushLoad
  <2>2. r' \in RType /\ r'.off = tail /\ r'.sz = Len(recs)
    BY <1>5, <2>1
  <2>3. CutAt(tail, Len(recs))
    BY <1>0, <1>5, DistFacts DEF CutAt, Leads, To, RingInv, RecordsPlaced, Used
  <2>4. CutAt(r.off, r.sz)'
    BY <1>1, <2>2, <2>3 DEF CutAt, Leads, To, Dist, Used
  <2> QED BY <2>1, <2>2, <2>4 DEF ReaderKnows, ReaderHasOldest
<1> QED BY <1>10, <1>11, <1>12, <1>13, <1>14, <1>15, <1>16, <1>17, <1>18

\* A step of the reader that moves head over the n oldest records.
LEMMA HeadMoveKeeps ==
    ASSUME IndInv, NEW off \in Offsets, NEW n \in Nat, CutAt(off, n),
           head' = off, UNCHANGED <<tail, mem, wpc, w>>,
           recs' \in Seq(RecordType), Len(recs') = Len(recs) - n,
           \A i \in 1 .. Len(recs') : recs'[i] = recs[i + n],
           rpc' = "idle", r' = NoRead,
           delivered' \in [sz : Int, words : SUBSET Int]
    PROVE  IndInv'
<1>0. TypeOK /\ WriterSpace /\ RingInv /\ TailAtEnd
  BY DEF IndInv
<1>1. RingInv' /\ Used' = Used - Dist(off)
  BY <1>0, HeadAdvances
<1>2. /\ head \in Nat /\ head < Size /\ tail \in Nat /\ tail < Size
      /\ off \in Nat /\ off < Size /\ 0 \in Offsets
      /\ Dist(off) \in Nat /\ Used \in Nat /\ Dist(off) <= Used
      /\ record_usage(w.req) \in Nat
  <2>1. /\ head \in Offsets /\ tail \in Offsets /\ w.req \in Nat
        /\ Dist(off) <= Used
    BY <1>0 DEF TypeOK, CutAt
  <2>2. 0 \in Offsets
    BY SizeFacts DEF Offsets, CacheLine, RB_ALIGN
  <2> QED BY <2>1, <2>2, OffsetFacts, DistFacts, UsageFacts DEF Used
<1>3. TypeOK'
  <2>1. recs' \in Seq([pos : Offsets, sz : Nat, val : Int])
    BY DEF RecordType
  <2>2. r' \in [off : Offsets, sz : Nat, words : SUBSET Int]
    BY <1>2 DEF NoRead
  <2> QED BY <2>1, <2>2, <1>0 DEF TypeOK
<1>4. TailAtEnd'
  <2> SUFFICES ASSUME wpc \notin {"size", "commit"}
               PROVE  tail = From(Len(recs))'
    BY DEF TailAtEnd
  <2>1. Len(recs) \in Nat /\ n \in 0 .. Len(recs)
    BY <1>0 DEF TypeOK, CutAt
  <2>2. CASE n = Len(recs)
    BY <2>1, <2>2 DEF CutAt, From
  <2>3. CASE n # Len(recs)
    <3>1. /\ Len(recs') \in 1 .. Len(recs') /\ Len(recs') + n = Len(recs)
          /\ Len(recs) # 0 /\ Len(recs') # 0
      BY <2>1, <2>3
    <3>2. recs'[Len(recs')] = recs[Len(recs)]
      BY <3>1
    <3>3. tail = EndOf(recs[Len(recs)])
      BY <1>0, <3>1 DEF TailAtEnd, From
    <3> QED BY <3>1, <3>2, <3>3 DEF From, EndOf
  <2> QED BY <2>2, <2>3
<1>5. head <= tail => head <= off /\ off <= tail
  BY <1>2, SizeFacts DEF Used, Dist
<1>6. WriterSpace'
  <2>1. PayloadWords(w.pos, w.sz)' = PayloadWords(w.pos, w.sz)
    BY DEF PayloadWords
  <2>2. Used' \in Nat /\ Used' <= Used
    BY <1>1, <1>2
  <2>3. w.pos = tail /\ Used + record_usage(w.req) < Size =>
           Used' + record_usage(w.req) < Size
    BY <1>2, <2>2, SizeFacts
  <2>4. head <= tail /\ record_usage(w.req) < head => record_usage(w.req) < off
    BY <1>2, <1>5
  <2> QED BY <1>0, <1>5, <2>1, <2>3, <2>4 DEF WriterSpace
<1>7. ReaderKnows' /\ ReaderHasOldest'
  BY DEF ReaderKnows, ReaderHasOldest
<1> QED BY <1>1, <1>3, <1>4, <1>6, <1>7 DEF IndInv

\* record_shift() drops the oldest record.
LEMMA ShiftHeadKeeps ==
    ASSUME IndInv, ShiftHead
    PROVE  IndInv'
<1> USE DEF writerVars
<1> DEFINE off == EndOf(recs[1])
<1>0. TypeOK /\ RingInv /\ TailAtEnd /\ ReaderHasOldest
  BY DEF IndInv
<1>1. recs # <<>> /\ r.off = recs[1].pos /\ r.sz = recs[1].sz
  BY <1>0 DEF ShiftHead, ReaderHasOldest
<1>2. /\ head' = off /\ UNCHANGED <<tail, mem, wpc, w>> /\ recs' = Tail(recs)
      /\ rpc' = "idle" /\ r' = NoRead
      /\ delivered' = [sz |-> r.sz, words |-> r.words]
  BY <1>1 DEF ShiftHead, EndOf
<1>3. delivered' \in [sz : Int, words : SUBSET Int]
  BY <1>0, <1>2 DEF TypeOK
<1>4. recs \in Seq(RecordType) /\ Len(recs) \in Nat /\ 1 \in 1 .. Len(recs)
  BY <1>0, <1>1, EmptyRing DEF TypeOK, RecordType, RingInv
<1>5. /\ recs' \in Seq(RecordType) /\ Len(recs') = Len(recs) - 1
      /\ \A i \in 1 .. Len(recs') : recs'[i] = recs[i + 1]
  BY <1>1, <1>2, <1>4
<1>6. /\ off \in Offsets
      /\ Dist(off) = Dist(recs[1].pos) + record_usage(recs[1].sz)
  BY <1>0, <1>4, EndDist DEF RingInv
<1>7. CutAt(off, 1)
  <2>1. 1 \in 0 .. Len(recs)
    BY <1>4
  <2>2. Dist(off) <= Used
    BY <1>0, <1>4, <1>6 DEF RingInv, RecordsPlaced
  <2>3. \A i \in 1 .. 1 : Dist(recs[i].pos) + record_usage(recs[i].sz) <= Dist(off)
    <3>1. Dist(off) \in Nat
      BY <1>0, <1>6, DistFacts DEF TypeOK
    <3>2. \A i \in 1 .. 1 : i = 1
      OBVIOUS
    <3> QED BY <3>1, <3>2, <1>6
  <2>4. \A i \in 1 + 1 .. Len(recs) : Dist(off) <= Dist(recs[i].pos)
    <3> SUFFICES ASSUME NEW i \in 1 + 1 .. Len(recs)
                 PROVE  Dist(off) <= Dist(recs[i].pos)
      OBVIOUS
    <3>1. i \in 1 .. Len(recs) /\ 1 < i
      BY <1>4
    <3> QED BY <3>1, <1>0, <1>4, <1>6 DEF RingInv, RecordsOrdered
  <2>5. From(1) = off /\ Leads(off, To(1))
    BY <2>1, <1>0 DEF RingInv, RecordsChained, From
  <2>6. 1 = Len(recs) /\ wpc \notin {"size", "commit"} => off = tail
    BY <2>5, <1>0 DEF TailAtEnd
  <2> QED BY <2>1, <2>2, <2>3, <2>4, <2>5, <2>6 DEF CutAt
<1> HIDE DEF off
<1> QED BY <1>2, <1>3, <1>5, <1>6, <1>7, HeadMoveKeeps

\* What is left of the records when the n oldest are dropped.
LEMMA DropFacts ==
    ASSUME recs \in Seq(RecordType), NEW n \in Nat, n <= Len(recs)
    PROVE  LET rest == SubSeq(recs, n + 1, Len(recs)) IN
           /\ rest \in Seq(RecordType) /\ Len(rest) = Len(recs) - n
           /\ \A i \in 1 .. Len(rest) : rest[i] = recs[i + n]
<1> DEFINE m == n + 1
           k == Len(recs)
           rest == SubSeq(recs, m, k)
<1>1. m \in Int /\ k \in Int /\ m >= 1 /\ m <= k + 1 /\ n = m - 1
  OBVIOUS
<1>2. \A i \in m .. k : recs[i] \in RecordType
  BY <1>1
<1>3. SUFFICES /\ rest \in Seq(RecordType) /\ Len(rest) = k - n
               /\ \A i \in 1 .. Len(rest) : rest[i] = recs[i + n]
  OBVIOUS
<1> HIDE DEF m, k
<1>4. /\ rest \in Seq(RecordType)
      /\ Len(rest) = IF m <= k THEN k - m + 1 ELSE 0
      /\ \A i \in 1 .. k - m + 1 : rest[i] = recs[m + i - 1]
  BY <1>1, <1>2, SubSeqProperties
<1>5. Len(rest) = k - m + 1
  BY <1>1, <1>4
<1>6. ASSUME NEW i \in 1 .. Len(rest) PROVE rest[i] = recs[i + n]
  <2>1. i \in 1 .. k - m + 1 /\ m + i - 1 = i + n
    BY <1>1, <1>5
  <2> QED BY <2>1, <1>4
<1> QED BY <1>1, <1>4, <1>5, <1>6

\* record_flush() drops the records it found.
LEMMA FlushCasKeeps ==
    ASSUME IndInv, FlushCas
    PROVE  IndInv'
<1> USE DEF writerVars
<1>0. TypeOK /\ ReaderKnows
  BY DEF IndInv
<1>1. /\ head' = r.off /\ UNCHANGED <<tail, mem, wpc, w>> /\ CutAt(r.off, r.sz)
      /\ recs' = SubSeq(recs, r.sz + 1, Len(recs)) /\ delivered' = delivered
      /\ rpc' = "idle" /\ r' = NoRead
  BY <1>0 DEF FlushCas, ReaderKnows
<1>2. /\ recs \in Seq(RecordType) /\ Len(recs) \in Nat /\ r.sz \in Nat
      /\ r.sz <= Len(recs) /\ r.off \in Offsets
  BY <1>0, <1>1 DEF TypeOK, RecordType, CutAt
<1>3. /\ recs' \in Seq(RecordType) /\ Len(recs') = Len(recs) - r.sz
      /\ \A i \in 1 .. Len(recs') : recs'[i] = recs[i + r.sz]
  BY <1>1, <1>2, DropFacts
<1>4. delivered' \in [sz : Int, words : SUBSET Int]
  BY <1>0, <1>1 DEF TypeOK
<1>5. PICK off \in Offsets, n \in Nat : off = r.off /\ n = r.sz
  BY <1>2
<1>6. /\ CutAt(off, n) /\ head' = off /\ Len(recs') = Len(recs) - n
      /\ \A i \in 1 .. Len(recs') : recs'[i] = recs[i + n]
  BY <1>1, <1>3, <1>5
<1> QED BY <1>1, <1>3, <1>4, <1>6, HeadMoveKeeps
-----------------------------------------------------------------------------
(* The theorems.                                                           *)

\* The ring starts empty, whatever its storage holds.
LEMMA InitIndInv == Init => IndInv
<1> SUFFICES ASSUME Init PROVE IndInv
  OBVIOUS
<1>0. 0 \in Offsets
  BY SizeFacts DEF Offsets, CacheLine, RB_ALIGN
<1>1. mem \in [Words -> Int]
  BY RingAssumption DEF Init
<1>2. TypeOK
  BY <1>0, <1>1 DEF Init, TypeOK, NoWrite, NoRead, None
<1>3. Len(recs) = 0 /\ recs = <<>>
  BY DEF Init
<1>4. RingInv
  BY <1>3 DEF Init, RingInv, RecordsIntact, RecordsPlaced, RecordsOrdered,
              RecordsChained, Leads, From, To
<1>5. TailAtEnd
  BY <1>3 DEF Init, TailAtEnd, From
<1>6. WriterSpace /\ ReaderKnows /\ ReaderHasOldest
  BY DEF Init, WriterSpace, Writing, ReaderKnows, ReaderHasOldest
<1> QED BY <1>2, <1>4, <1>5, <1>6 DEF IndInv

\* Every step of the writer and of the reader keeps the invariant.
LEMMA NextIndInv == IndInv /\ [Next]_vars => IndInv'
<1> SUFFICES ASSUME IndInv, [Next]_vars PROVE IndInv'
  OBVIOUS
<1>1. CASE Writer
  BY <1>1, WriteBeginKeeps, WriteFillKeeps, WriteTailWordKeeps, WriteResetKeeps,
     WriteCommitKeeps DEF Writer
<1>2. CASE Reader
  BY <1>2, LookKeeps, ShiftHeadKeeps, FlushCasKeeps DEF Reader
<1>3. CASE UNCHANGED vars
  <2>1. UNCHANGED <<head, tail, mem, wpc, w, rpc, r, recs, delivered>>
    BY <1>3 DEF vars
  <2>2. RingInv' /\ TailAtEnd' /\ ReaderKnows' /\ ReaderHasOldest'
    BY <2>1, WriterStoreKeeps
  <2>3. TypeOK'
    BY <2>1 DEF IndInv, TypeOK
  <2>4. WriterSpace'
    BY <2>1 DEF IndInv, WriterSpace, Used, Dist, PayloadWords
  <2> QED BY <2>2, <2>3, <2>4 DEF IndInv
<1> QED BY <1>1, <1>2, <1>3 DEF Next

\* IndInv holds for every ring size, every set of record sizes and whatever the
\* storage held before (ringheader_init() does not clear it).
THEOREM RingInvariant == Spec => [](IndInv)
<1>1. Init => IndInv
  BY InitIndInv
<1>2. IndInv /\ [Next]_vars => IndInv'
  BY NextIndInv
<1> QED BY <1>1, <1>2, PTL DEF Spec

\* Type correctness: head and tail stay on record boundaries inside the ring.
THEOREM RingTypeOK == Spec => []TypeOK
<1>1. IndInv => TypeOK
  BY DEF IndInv
<1> QED BY <1>1, RingInvariant, PTL

\* No committed record is overwritten before it is consumed.
THEOREM RingRecordsIntact == Spec => []RecordsIntact
<1>1. IndInv => RecordsIntact
  BY DEF IndInv, RingInv
<1> QED BY <1>1, RingInvariant, PTL

\* record_read() and record_shift() are about the oldest record.
THEOREM RingReaderHasOldest == Spec => []ReaderHasOldest
<1>1. IndInv => ReaderHasOldest
  BY DEF IndInv
<1> QED BY <1>1, RingInvariant, PTL

\* head = tail means empty, never full.
THEOREM RingEmptyIsHeadEqTail == Spec => []EmptyIsHeadEqTail
<1>1. IndInv => EmptyIsHeadEqTail
  <2> SUFFICES ASSUME IndInv PROVE EmptyIsHeadEqTail
    OBVIOUS
  <2>1. head = tail => recs = <<>>
    BY EmptyRing DEF IndInv, RingInv
  <2>2. recs = <<>> /\ wpc \notin {"size", "commit"} => head = tail
    BY DEF IndInv, TailAtEnd, From
  <2> QED BY <2>1, <2>2 DEF EmptyIsHeadEqTail
<1> QED BY <1>1, RingInvariant, PTL

\* A record as large as the aligned space s takes one unit more than s.
LEMMA UsageOfAligned ==
    ASSUME NEW s \in Nat, s % RB_ALIGN = 0
    PROVE  record_usage(s) = s + RB_ALIGN
BY DEF record_usage, size_aligned, Align, RB_ALIGN, SizeofSize

\* What record_write_space() promises is there: the room it keeps back is enough
\* for the size field and for the unit that tells a full ring from an empty one.
THEOREM RingWriteSpaceSuffices == Spec => []WriteSpaceSuffices
<1>1. IndInv => WriteSpaceSuffices
  <2> SUFFICES ASSUME IndInv, record_write_space > 0
               PROVE  /\ Fits(record_usage(record_write_space))
                      /\ \/ tail + record_usage(record_write_space) <= Size
                         \/ head > record_usage(record_write_space)
    BY DEF WriteSpaceSuffices
  <2>1. /\ head \in Offsets /\ tail \in Offsets
        /\ head \in Nat /\ head < Size /\ head % RB_ALIGN = 0
        /\ tail \in Nat /\ tail < Size /\ tail % RB_ALIGN = 0
    BY OffsetFacts DEF IndInv, TypeOK
  <2>2. PICK avail : /\ avail = IF tail < head THEN head - tail
                                 ELSE IF head > Size - tail THEN head ELSE Size - tail
                     /\ avail \in Nat
    <3>1. (IF tail < head THEN head - tail
           ELSE IF head > Size - tail THEN head ELSE Size - tail) \in Nat
      BY <2>1, SizeFacts
    <3> QED BY <3>1
  <2>3. avail % RB_ALIGN = 0
    <3>1. \A a, b \in Nat : a % 8 = 0 /\ b % 8 = 0 /\ b < a => (a - b) % 8 = 0
      OBVIOUS
    <3>2. CASE tail < head
      BY <2>1, <2>2, <3>1, <3>2 DEF RB_ALIGN
    <3>3. CASE ~(tail < head)
      BY <2>1, <2>2, <3>1, <3>3, SizeFacts DEF RB_ALIGN
    <3> QED BY <3>2, <3>3
  <2>4. record_write_space = IF avail > 16 THEN avail - 16 ELSE 0
    BY <2>2 DEF record_write_space, RB_ALIGN
  <2>5. avail > 16 /\ record_write_space = avail - 16
    BY <2>4, <2>2
  <2>6. avail - 16 \in Nat /\ (avail - 16) % RB_ALIGN = 0
    BY <2>2, <2>3, <2>5 DEF RB_ALIGN
  <2>7. record_usage(record_write_space) = avail - 8
    BY <2>2, <2>5, <2>6, UsageOfAligned DEF RB_ALIGN
  <2>8. FreeSpace >= avail
    BY <2>1, <2>2, SizeFacts, FreeSpaceIs DEF Used, Dist
  <2>9. FreeSpace \in Int
    BY <2>1, SizeFacts, FreeSpaceIs DEF Used, Dist
  <2> QED BY <2>1, <2>2, <2>7, <2>8, <2>9, SizeFacts DEF Fits
<1> QED BY <1>1, RingInvariant, PTL
-----------------------------------------------------------------------------
(* The ring implements RecordFIFO: the store of tail is Put, the store of  *)
(* head is Get (or Flush), and every other step is invisible.              *)

Queue == [i \in 1 .. Len(recs) |-> AsRecord(recs[i])]
Record == {AsRecord(rec) : rec \in [pos : {0}, sz : RecSizes, val : Payloads]}

\* The writer only writes records it was asked to write.
Asked == wpc # "idle" => w.sz \in RecSizes /\ w.val \in Payloads

\* Only WriteRequest sets what is to be written.
LEMMA AskedInv == Spec => []Asked
<1>1. Init => Asked
  BY DEF Init, Asked
<1>2. TypeOK /\ Asked /\ [Next]_vars => Asked'
  <2> SUFFICES ASSUME TypeOK, Asked, [Next]_vars PROVE Asked'
    OBVIOUS
  <2>0. w \in [req : Nat, sz : Nat, val : Int, pos : Offsets]
    BY DEF TypeOK
  <2>1. CASE WriteRequest
    BY <2>1 DEF WriteRequest, Asked
  <2>2. CASE WriteBegin
    BY <2>0, <2>2 DEF WriteBegin, Asked
  <2>3. CASE WriteBeginWrap
    BY <2>0, <2>3 DEF WriteBeginWrap, Asked
  <2>4. CASE GiveUp \/ WriteCommit
    BY <2>4 DEF GiveUp, WriteCommit, Asked
  <2>5. CASE WriteFill \/ WriteMark \/ WriteReset \/ WriteSize
    BY <2>5 DEF WriteFill, WriteMark, WriteReset, WriteSize, Asked
  <2>6. CASE Reader
    BY <2>6 DEF Reader, ReadTail, ReadSize, ReadTail0, UseData, Peeked, ShiftTail,
                ShiftTail0, ShiftSize, ShiftHead, FlushLoad, FlushCas, Asked,
                writerVars
  <2>7. CASE UNCHANGED vars
    BY <2>7 DEF vars, Asked
  <2> QED BY <2>1, <2>2, <2>3, <2>4, <2>5, <2>6, <2>7 DEF Next, Writer
<1> QED BY <1>1, <1>2, RingTypeOK, PTL DEF Spec

\* What the mapped records are made of.
AnyRecord == {AsRecord(rec) : rec \in RecordType}

\* The mapped queue is a sequence, as long as the sequence of records.
LEMMA QueueFacts ==
    ASSUME recs \in Seq(RecordType)
    PROVE  /\ Queue \in Seq(AnyRecord) /\ Len(Queue) = Len(recs)
           /\ Len(recs) \in Nat
           /\ \A i \in 1 .. Len(recs) : Queue[i] = AsRecord(recs[i])
<1>1. Len(recs) \in Nat /\ \A i \in 1 .. Len(recs) : recs[i] \in RecordType
  OBVIOUS
<1>2. \A i \in 1 .. Len(recs) : AsRecord(recs[i]) \in AnyRecord
  BY <1>1 DEF AnyRecord
<1>3. Queue \in [1 .. Len(recs) -> AnyRecord]
  BY <1>2 DEF Queue
<1>4. Queue \in Seq(AnyRecord)
  BY <1>1, <1>3
<1> QED BY <1>1, <1>3, <1>4 DEF Queue

\* Publishing a record puts it at the end of the queue.
LEMMA CommitIsPut ==
    ASSUME IndInv, Asked, WriteCommit
    PROVE  \E m \in Record : Queue' = Append(Queue, m)
<1> DEFINE nr == [pos |-> w.pos, sz |-> w.sz, val |-> w.val]
           m  == AsRecord(nr)
<1>1. /\ recs \in Seq(RecordType) /\ nr \in RecordType
      /\ recs' = Append(recs, nr) /\ wpc = "commit"
  BY DEF WriteCommit, IndInv, TypeOK, RecordType
<1>2. m \in Record
  <2>1. [pos |-> 0, sz |-> w.sz, val |-> w.val]
           \in [pos : {0}, sz : RecSizes, val : Payloads]
    BY <1>1 DEF Asked
  <2>2. m = AsRecord([pos |-> 0, sz |-> w.sz, val |-> w.val])
    BY DEF AsRecord, WordsOf
  <2> QED BY <2>1, <2>2 DEF Record
<1>3. m \in AnyRecord
  BY <1>1 DEF AnyRecord
<1> HIDE DEF nr
<1>4. /\ recs' \in Seq(RecordType) /\ Len(recs') = Len(recs) + 1
      /\ Len(recs) \in Nat
      /\ \A i \in 1 .. Len(recs) : recs'[i] = recs[i]
      /\ recs'[Len(recs) + 1] = nr
  BY <1>1
<1> HIDE DEF m
<1>5. /\ Queue \in Seq(AnyRecord) /\ Len(Queue) = Len(recs)
      /\ \A i \in 1 .. Len(recs) : Queue[i] = AsRecord(recs[i])
  BY <1>1, QueueFacts
<1>6. /\ Queue' \in Seq(AnyRecord) /\ Len(Queue') = Len(recs')
      /\ \A i \in 1 .. Len(recs') : Queue'[i] = AsRecord(recs'[i])
  <2>1. Queue' = [i \in 1 .. Len(recs') |-> AsRecord(recs'[i])]
    BY DEF Queue, AsRecord, WordsOf
  <2>2. \A i \in 1 .. Len(recs') : AsRecord(recs'[i]) \in AnyRecord
    BY <1>4 DEF AnyRecord
  <2>3. Queue' \in [1 .. Len(recs') -> AnyRecord] /\ Len(recs') \in Nat
    BY <1>4, <2>1, <2>2
  <2> QED BY <2>1, <2>3
<1>7. /\ Append(Queue, m) \in Seq(AnyRecord) /\ Len(Append(Queue, m)) = Len(recs) + 1
      /\ \A i \in 1 .. Len(recs) : Append(Queue, m)[i] = Queue[i]
      /\ Append(Queue, m)[Len(recs) + 1] = m
  BY <1>3, <1>5, AppendProperties
<1>8. \A i \in 1 .. Len(Queue') : Queue'[i] = Append(Queue, m)[i]
  <2> SUFFICES ASSUME NEW i \in 1 .. Len(recs) + 1
               PROVE  Queue'[i] = Append(Queue, m)[i]
    BY <1>4, <1>6
  <2>1. CASE i = Len(recs) + 1
    BY <2>1, <1>4, <1>6, <1>7 DEF m
  <2>2. CASE i # Len(recs) + 1
    <3>1. i \in 1 .. Len(recs) /\ i \in 1 .. Len(recs')
      BY <2>2, <1>4
    <3> QED BY <3>1, <1>4, <1>5, <1>6, <1>7
  <2> QED BY <2>1, <2>2
<1>9. Queue' = Append(Queue, m)
  BY <1>4, <1>6, <1>7, <1>8, SeqEqual
<1> QED BY <1>2, <1>9

\* Dropping the n oldest records drops the n oldest entries of the queue.
LEMMA DropIsSubSeq ==
    ASSUME recs \in Seq(RecordType), recs' \in Seq(RecordType),
           NEW n \in Nat, n <= Len(recs), Len(recs') = Len(recs) - n,
           \A i \in 1 .. Len(recs') : recs'[i] = recs[i + n]
    PROVE  Queue' = SubSeq(Queue, n + 1, Len(Queue))
<1>1. /\ Queue \in Seq(AnyRecord) /\ Len(Queue) = Len(recs) /\ Len(recs) \in Nat
      /\ \A i \in 1 .. Len(recs) : Queue[i] = AsRecord(recs[i])
  BY QueueFacts
<1>2. /\ Queue' \in Seq(AnyRecord) /\ Len(Queue') = Len(recs') /\ Len(recs') \in Nat
      /\ \A i \in 1 .. Len(recs') : Queue'[i] = AsRecord(recs'[i])
  <2>1. Queue' = [i \in 1 .. Len(recs') |-> AsRecord(recs'[i])]
    BY DEF Queue, AsRecord, WordsOf
  <2>2. \A i \in 1 .. Len(recs') : AsRecord(recs'[i]) \in AnyRecord
    BY DEF AnyRecord
  <2>3. Queue' \in [1 .. Len(recs') -> AnyRecord] /\ Len(recs') \in Nat
    BY <2>1, <2>2
  <2> QED BY <2>1, <2>3
<1>3. PICK k \in Nat : k = Len(recs)
  BY <1>1
<1>4. \A i \in n + 1 .. k : Queue[i] \in AnyRecord
  BY <1>1, <1>3
<1>5. /\ SubSeq(Queue, n + 1, k) \in Seq(AnyRecord)
      /\ Len(SubSeq(Queue, n + 1, k)) = k - n
      /\ \A i \in 1 .. k - n : SubSeq(Queue, n + 1, k)[i] = Queue[i + n]
  <2> DEFINE m == n + 1
  <2>1. m \in Int /\ k \in Int /\ m <= k + 1 /\ m >= 1 /\ n = m - 1
    BY <1>3
  <2>2. \A i \in m .. k : Queue[i] \in AnyRecord
    BY <1>4
  <2> HIDE DEF m
  <2>3. /\ SubSeq(Queue, m, k) \in Seq(AnyRecord)
        /\ Len(SubSeq(Queue, m, k)) = IF m <= k THEN k - m + 1 ELSE 0
        /\ \A i \in 1 .. k - m + 1 : SubSeq(Queue, m, k)[i] = Queue[m + i - 1]
    BY <2>1, <2>2, SubSeqProperties
  <2>4. Len(SubSeq(Queue, m, k)) = k - n /\ k - m + 1 = k - n
    BY <2>1, <2>3
  <2>5. ASSUME NEW i \in 1 .. k - n
        PROVE  SubSeq(Queue, m, k)[i] = Queue[i + n]
    <3>1. i \in 1 .. k - m + 1 /\ m + i - 1 = i + n
      BY <2>1, <2>4
    <3> QED BY <3>1, <2>3
  <2> QED BY <2>3, <2>4, <2>5 DEF m
<1>6. ASSUME NEW i \in 1 .. Len(Queue')
      PROVE  Queue'[i] = SubSeq(Queue, n + 1, k)[i]
  <2>1. i \in 1 .. Len(recs') /\ i \in 1 .. k - n /\ i + n \in 1 .. Len(recs)
    BY <1>1, <1>2, <1>3
  <2> QED BY <2>1, <1>1, <1>2, <1>5
<1>7. Queue' = SubSeq(Queue, n + 1, k)
  BY <1>2, <1>3, <1>5, <1>6, SeqEqual
<1> QED BY <1>1, <1>3, <1>7

\* Freeing the oldest record takes it from the front of the queue, and the
\* reader has seen it as it was written.
LEMMA ShiftIsGet ==
    ASSUME IndInv, ShiftHead
    PROVE  Queue # <<>> /\ delivered' = Head(Queue) /\ Queue' = Tail(Queue)
<1>1. /\ recs # <<>> /\ r.sz = recs[1].sz /\ r.words = WordsOf(recs[1])
      /\ recs' = Tail(recs) /\ delivered' = [sz |-> r.sz, words |-> r.words]
  BY DEF IndInv, ReaderHasOldest, ShiftHead
<1>2. recs \in Seq(RecordType) /\ Len(recs) \in Nat /\ 1 \in 1 .. Len(recs)
  BY <1>1, EmptyRing DEF IndInv, TypeOK, RecordType, RingInv
<1>3. /\ recs' \in Seq(RecordType) /\ Len(recs') = Len(recs) - 1
      /\ \A i \in 1 .. Len(recs') : recs'[i] = recs[i + 1]
  BY <1>1, <1>2
<1>4. Queue' = SubSeq(Queue, 1 + 1, Len(Queue))
  BY <1>2, <1>3, DropIsSubSeq
<1>5. /\ Queue \in Seq(AnyRecord) /\ Len(Queue) = Len(recs)
      /\ Queue[1] = AsRecord(recs[1])
  BY <1>2, QueueFacts
<1>6. Queue # <<>>
  BY <1>2, <1>5
<1>7. Tail(Queue) = SubSeq(Queue, 2, Len(Queue))
  BY <1>5, <1>6, TailIsSubSeq
<1>8. Head(Queue) = AsRecord(recs[1])
  BY <1>5, <1>6
<1> QED BY <1>1, <1>4, <1>6, <1>7, <1>8 DEF AsRecord

\* record_flush() loses the oldest entries of the queue.
LEMMA FlushIsFlush ==
    ASSUME IndInv, FlushCas
    PROVE  /\ \E n \in 0 .. Len(Queue) : Queue' = SubSeq(Queue, n + 1, Len(Queue))
           /\ delivered' = delivered
<1>1. /\ recs' = SubSeq(recs, r.sz + 1, Len(recs)) /\ CutAt(r.off, r.sz)
      /\ delivered' = delivered
  BY DEF IndInv, ReaderKnows, FlushCas
<1>2. PICK n \in Nat : n = r.sz /\ n <= Len(recs)
  BY <1>1 DEF CutAt, IndInv, TypeOK
<1>3. /\ recs \in Seq(RecordType) /\ Len(recs) \in Nat
  BY DEF IndInv, TypeOK, RecordType
<1>4. /\ recs' \in Seq(RecordType) /\ Len(recs') = Len(recs) - n
      /\ \A i \in 1 .. Len(recs') : recs'[i] = recs[i + n]
  BY <1>1, <1>2, <1>3, DropFacts
<1>5. Queue' = SubSeq(Queue, n + 1, Len(Queue))
  BY <1>2, <1>3, <1>4, DropIsSubSeq
<1>6. Len(Queue) = Len(recs)
  BY <1>3, QueueFacts
<1>7. n \in 0 .. Len(Queue)
  BY <1>2, <1>3, <1>6
<1> QED BY <1>1, <1>5, <1>7

\* The record ring implements the queue of records: what record_read() and
\* record_shift() deliver is what record_write() was given, in order, complete
\* and once, with record_flush() the only way to lose a record.
THEOREM RingImplementsFIFO == Spec => ImplementsFIFO
<1>1. Init => FIFO!Init
  <2> SUFFICES ASSUME Init PROVE Queue = <<>> /\ delivered = None
    BY DEF FIFO!Init, Queue
  <2>1. recs = <<>> /\ Len(recs) = 0
    BY DEF Init
  <2> QED BY <2>1 DEF Queue, Init
<1>2. IndInv /\ Asked /\ [Next]_vars
         => [FIFO!Next]_<<Queue, delivered>>
  <2> SUFFICES ASSUME IndInv, Asked, [Next]_vars
               PROVE  [FIFO!Next]_<<Queue, delivered>>
    OBVIOUS
  <2>1. CASE WriteCommit
    <3>1. \E m \in Record : Queue' = Append(Queue, m)
      BY <2>1, CommitIsPut
    <3>2. delivered' = delivered
      BY <2>1 DEF WriteCommit, readerVars
    <3> QED BY <3>1, <3>2 DEF FIFO!Next, FIFO!Put, Queue, Record
  <2>2. CASE ShiftHead
    <3>1. Queue # <<>> /\ delivered' = Head(Queue) /\ Queue' = Tail(Queue)
      BY <2>2, ShiftIsGet
    <3> QED BY <3>1 DEF FIFO!Next, FIFO!Get, Queue
  <2>3. CASE FlushCas
    <3>1. /\ \E n \in 0 .. Len(Queue) : Queue' = SubSeq(Queue, n + 1, Len(Queue))
          /\ delivered' = delivered
      BY <2>3, FlushIsFlush
    <3> QED BY <3>1 DEF FIFO!Next, FIFO!Flush, Queue
  <2>4. ASSUME recs' = recs, delivered' = delivered
        PROVE  UNCHANGED <<Queue, delivered>>
    BY <2>4 DEF Queue, AsRecord, WordsOf
  <2>5. CASE \/ WriteRequest \/ GiveUp \/ WriteBegin \/ WriteBeginWrap
             \/ WriteFill \/ WriteMark \/ WriteReset \/ WriteSize
    BY <2>4, <2>5 DEF WriteRequest, GiveUp, WriteBegin, WriteBeginWrap, WriteFill,
                      WriteMark, WriteReset, WriteSize, readerVars
  <2>6. CASE \/ ReadTail \/ ReadSize \/ ReadTail0 \/ UseData \/ Peeked
             \/ ShiftTail \/ ShiftTail0 \/ ShiftSize \/ FlushLoad
    BY <2>4, <2>6 DEF ReadTail, ReadSize, ReadTail0, UseData, Peeked, ShiftTail,
                      ShiftTail0, ShiftSize, FlushLoad
  <2>7. CASE UNCHANGED vars
    BY <2>4, <2>7 DEF vars
  <2> QED BY <2>1, <2>2, <2>3, <2>5, <2>6, <2>7 DEF Next, Writer, Reader
<1>3. [][FIFO!Next]_<<Queue, delivered>> => [][FIFO!Next]_<<Queue, delivered>>
  OBVIOUS
<1> QED BY <1>1, <1>2, RingInvariant, AskedInv, PTL
        DEF Spec, ImplementsFIFO, FIFO!Spec, Queue
=============================================================================

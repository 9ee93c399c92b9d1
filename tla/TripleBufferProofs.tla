-------------------------- MODULE TripleBufferProofs --------------------------
(***************************************************************************)
(* The triple buffer for any number of messages: the consumer sees whole   *)
(* messages, never misses the last one and never goes back.                *)
(***************************************************************************)
EXTENDS TripleBuffer, TLAPS

Roles == {u \in (0 .. 1) \X (0 .. 2) \X (0 .. 2) \X (0 .. 2) :
             u[2] # u[3] /\ u[3] # u[4] /\ u[2] # u[4]}

\* The fields of a packed byte are what was packed.
LEMMA Unpack ==
    ASSUME NEW n \in 0 .. 1, NEW d \in 0 .. 2, NEW c \in 0 .. 2, NEW s \in 0 .. 2
    PROVE  /\ NewWrite(Pack(n, d, c, s)) = n
           /\ Dirty(Pack(n, d, c, s)) = d
           /\ Clean(Pack(n, d, c, s)) = c
           /\ Snap(Pack(n, d, c, s)) = s
           /\ Pack(n, d, c, s) \in Nat
<1>1. n \in Int /\ d \in Int /\ c \in Int /\ s \in Int
  OBVIOUS
<1> QED BY <1>1 DEF NewWrite, Dirty, Clean, Snap, Pack

\* A flag byte gives each of the three buffers one role.
LEMMA ByteFacts ==
    ASSUME NEW f \in FlagBytes
    PROVE  /\ f \in Nat
           /\ NewWrite(f) \in 0 .. 1
           /\ Dirty(f) \in 0 .. 2 /\ Clean(f) \in 0 .. 2 /\ Snap(f) \in 0 .. 2
           /\ Dirty(f) # Clean(f) /\ Clean(f) # Snap(f) /\ Dirty(f) # Snap(f)
<1>1. PICK n \in 0 .. 1, d \in 0 .. 2, c \in 0 .. 2, s \in 0 .. 2 :
         d # c /\ c # s /\ d # s /\ f = Pack(n, d, c, s)
  BY DEF FlagBytes
<1> QED BY <1>1, Unpack

LEMMA PackIsByte ==
    ASSUME NEW n \in 0 .. 1, NEW d \in 0 .. 2, NEW c \in 0 .. 2, NEW s \in 0 .. 2,
           d # c, c # s, d # s
    PROVE  Pack(n, d, c, s) \in FlagBytes
<1>1. <<n, d, c, s>> \in Roles
  BY DEF Roles
<1> QED BY <1>1 DEF FlagBytes, Roles

\* What rtapi_tb_flip() stores.
LEMMA FlippedFacts ==
    ASSUME NEW f \in FlagBytes
    PROVE  /\ Flipped(f) \in FlagBytes
           /\ NewWrite(Flipped(f)) = 1 /\ Dirty(Flipped(f)) = Clean(f)
           /\ Clean(Flipped(f)) = Dirty(f) /\ Snap(Flipped(f)) = Snap(f)
BY ByteFacts, Unpack, PackIsByte DEF Flipped

\* What rtapi_tb_snapshot() stores.
LEMMA SnappedFacts ==
    ASSUME NEW f \in FlagBytes
    PROVE  /\ Snapped(f) \in FlagBytes
           /\ NewWrite(Snapped(f)) = 0 /\ Dirty(Snapped(f)) = Dirty(f)
           /\ Clean(Snapped(f)) = Snap(f) /\ Snap(Snapped(f)) = Clean(f)
BY ByteFacts, Unpack, PackIsByte DEF Snapped

LEMMA InitInv == Init => IndInv
<1> SUFFICES ASSUME Init PROVE IndInv
  OBVIOUS
<1>1. flags = Pack(0, 0, 1, 2)
  BY DEF Init, Pack
<1>2. flags \in FlagBytes /\ NewWrite(flags) = 0
  BY <1>1, PackIsByte, Unpack
<1> QED BY <1>2 DEF Init, IndInv, TypeOK, ProducerBuffer, CleanBuffer, SnapBuffer,
               ReadSoFar, WholeMessages, Message, Blank, NULL

LEMMA NextInv == IndInv /\ [Next]_vars => IndInv'
<1> SUFFICES ASSUME IndInv, [Next]_vars PROVE IndInv'
  OBVIOUS
<1> USE DEF NULL, Message, WholeMessages
<1>1. /\ flags \in FlagBytes
      /\ NewWrite(flags) \in 0 .. 1
      /\ Dirty(flags) \in 0 .. 2 /\ Clean(flags) \in 0 .. 2 /\ Snap(flags) \in 0 .. 2
      /\ Dirty(flags) # Clean(flags) /\ Clean(flags) # Snap(flags)
      /\ Dirty(flags) # Snap(flags)
  BY ByteFacts DEF IndInv, TypeOK
<1>2. CASE WriteFirst
  <2>1. /\ buf' = [buf EXCEPT ![Dirty(flags)].first = made + 1]
        /\ made' = made + 1 /\ flags' = flags /\ made' \in Nat
    BY <1>2 DEF WriteFirst, rtapi_tb_write_idx, IndInv, TypeOK
  <2>2. /\ buf' \in [0 .. 2 -> Message]
        /\ buf'[Dirty(flags)].first = made'
        /\ buf'[Clean(flags)] = buf[Clean(flags)]
        /\ buf'[Snap(flags)] = buf[Snap(flags)]
    BY <1>1, <2>1 DEF IndInv, TypeOK
  <2> QED BY <1>2, <2>1, <2>2 DEF WriteFirst, consumerVars, IndInv, TypeOK,
             ProducerBuffer, CleanBuffer, SnapBuffer, ReadSoFar
<1>3. CASE WriteSecond
  <2>1. /\ buf' = [buf EXCEPT ![Dirty(flags)].second = made]
        /\ made' = made /\ flags' = flags /\ made \in Nat
        /\ buf[Dirty(flags)].first = made
    BY <1>3 DEF WriteSecond, rtapi_tb_write_idx, IndInv, TypeOK, ProducerBuffer
  <2>2. /\ buf' \in [0 .. 2 -> Message]
        /\ buf'[Dirty(flags)] = Msg(made)
        /\ buf'[Clean(flags)] = buf[Clean(flags)]
        /\ buf'[Snap(flags)] = buf[Snap(flags)]
    BY <1>1, <2>1 DEF IndInv, TypeOK, Msg
  <2> QED BY <1>3, <2>1, <2>2 DEF WriteSecond, consumerVars, IndInv, TypeOK,
             ProducerBuffer, CleanBuffer, SnapBuffer, ReadSoFar
<1>4. CASE FlipLoad
  BY <1>1, <1>4, ByteFacts DEF FlipLoad, consumerVars, IndInv, TypeOK,
     ProducerBuffer, CleanBuffer, SnapBuffer, ReadSoFar
<1>5. CASE FlipCas
  <2>1. /\ flags' = Flipped(flags) /\ flags' \in FlagBytes
        /\ NewWrite(flags') = 1 /\ Dirty(flags') = Clean(flags)
        /\ Clean(flags') = Dirty(flags) /\ Snap(flags') = Snap(flags)
    BY <1>1, <1>5, FlippedFacts DEF FlipCas
  <2>2. NewWrite(flags)' = 1 /\ Clean(flags)' = Dirty(flags) /\ Snap(flags)' = Snap(flags)
    BY <2>1
  <2> QED BY <1>5, <2>1, <2>2 DEF FlipCas, consumerVars, IndInv, TypeOK,
             ProducerBuffer, CleanBuffer, SnapBuffer, ReadSoFar, Msg
<1>6. CASE FlipRetry
  BY <1>6 DEF FlipRetry, consumerVars, IndInv, TypeOK,
     ProducerBuffer, CleanBuffer, SnapBuffer, ReadSoFar
<1>7. CASE SnapLoad
  BY <1>1, <1>7, ByteFacts DEF SnapLoad, producerVars, IndInv, TypeOK,
     ProducerBuffer, CleanBuffer, SnapBuffer, ReadSoFar
<1>8. CASE SnapCas
  <2>1. /\ flags' = Snapped(flags) /\ flags' \in FlagBytes /\ NewWrite(flags) = 1
        /\ NewWrite(flags') = 0 /\ Dirty(flags') = Dirty(flags)
        /\ Snap(flags') = Clean(flags)
    BY <1>1, <1>8, SnappedFacts DEF SnapCas, IndInv, SnapBuffer
  <2> QED BY <1>8, <2>1 DEF SnapCas, producerVars, IndInv, TypeOK,
             ProducerBuffer, CleanBuffer, SnapBuffer, ReadSoFar, Msg
<1>9. CASE SnapIdx
  BY <1>1, <1>9 DEF SnapIdx, rtapi_tb_snap_idx, producerVars, IndInv, TypeOK,
     ProducerBuffer, CleanBuffer, SnapBuffer, ReadSoFar
<1>10. CASE ReadFirst
  <2>1. buf[snap].first = taken /\ taken \in Nat
    BY <1>10 DEF ReadFirst, IndInv, TypeOK, SnapBuffer, Msg
  <2>2. got' = [first |-> taken, second |-> got.second]
    BY <1>10, <2>1 DEF ReadFirst, IndInv, TypeOK
  <2> QED BY <1>10, <2>1, <2>2 DEF ReadFirst, producerVars, IndInv, TypeOK,
             ProducerBuffer, CleanBuffer, SnapBuffer, ReadSoFar
<1>11. CASE ReadSecond
  <2>1. buf[snap].second = taken /\ taken \in Nat /\ got.first = taken
    BY <1>11 DEF ReadSecond, IndInv, TypeOK, SnapBuffer, Msg
  <2>2. got' = [first |-> got.first, second |-> taken]
    BY <1>11, <2>1 DEF ReadSecond, IndInv, TypeOK
  <2> QED BY <1>11, <2>1, <2>2 DEF ReadSecond, producerVars, IndInv, TypeOK,
             ProducerBuffer, CleanBuffer, SnapBuffer, ReadSoFar
<1>12. CASE UNCHANGED vars
  BY <1>12 DEF vars, producerVars, consumerVars, IndInv, TypeOK,
     ProducerBuffer, CleanBuffer, SnapBuffer, ReadSoFar
<1> QED BY <1>2, <1>3, <1>4, <1>5, <1>6, <1>7, <1>8, <1>9, <1>10, <1>11, <1>12
        DEF Next, Producer, Update, Flip, Consumer

\* The inductive invariant of the triple buffer, for any number of messages.
THEOREM TripleBufferInv == Spec => []IndInv
BY InitInv, NextInv, PTL DEF Spec

\* The flag byte always gives each of the three buffers one role.
THEOREM TripleBufferTypeOK == Spec => []TypeOK
<1>1. IndInv => TypeOK
  BY DEF IndInv
<1> QED BY <1>1, TripleBufferInv, PTL

\* The consumer's snapshot is one message, however the producer's writes and
\* flips fall between its reads (rtapi_tb_flip, rtapi_tb_snapshot).
THEOREM TripleBufferWhole == Spec => []WholeMessages
<1>1. IndInv => WholeMessages
  BY DEF IndInv, ReadSoFar
<1> QED BY <1>1, TripleBufferInv, PTL

\* When rtapi_tb_snapshot() would return false, the consumer's pointer leads to
\* the message of the last rtapi_tb_flip().
THEOREM TripleBufferLatest == Spec => []LatestTaken
<1>1. IndInv => LatestTaken
  BY DEF IndInv, TypeOK, CleanBuffer, SnapBuffer, LatestTaken, NULL
<1> QED BY <1>1, TripleBufferInv, PTL

\* What the consumer reads is never older than what it read before.
THEOREM TripleBufferNeverOlder == Spec => NeverOlder
<1>1. IndInv /\ [Next]_vars => [got'.first >= got.first /\ got'.second >= got.second]_vars
  <2> SUFFICES ASSUME IndInv, Next
               PROVE  got'.first >= got.first /\ got'.second >= got.second
    OBVIOUS
  <2> USE DEF Message, NULL
  <2>0. got.first \in Nat /\ got.second \in Nat /\ taken \in Nat
    BY DEF IndInv, TypeOK
  <2>1. CASE ReadFirst
    <3>1. buf[snap].first = taken
      BY <2>1 DEF ReadFirst, IndInv, SnapBuffer, Msg
    <3>2. got'.first = taken /\ got'.second = got.second
      BY <2>1, <3>1 DEF ReadFirst, IndInv, TypeOK
    <3> QED BY <3>2, <2>0 DEF IndInv, ReadSoFar
  <2>2. CASE ReadSecond
    <3>1. buf[snap].second = taken
      BY <2>2 DEF ReadSecond, IndInv, SnapBuffer, Msg
    <3>2. got'.first = got.first /\ got'.second = taken
      BY <2>2, <3>1 DEF ReadSecond, IndInv, TypeOK
    <3> QED BY <3>2, <2>0 DEF IndInv, ReadSoFar
  <2>3. CASE ~ReadFirst /\ ~ReadSecond
    <3>1. got' = got
      BY <2>3 DEF Next, Producer, Consumer, Update, Flip, WriteFirst, WriteSecond,
                  FlipLoad, FlipCas, FlipRetry, SnapLoad, SnapCas, SnapIdx,
                  consumerVars
    <3> QED BY <3>1, <2>0
  <2> QED BY <2>1, <2>2, <2>3
<1> QED BY <1>1, TripleBufferInv, PTL DEF Spec, NeverOlder
=============================================================================

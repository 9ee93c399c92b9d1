----------------------------- MODULE TripleBuffer -----------------------------
(***************************************************************************)
(* The triple buffer (runtime/triple-buffer.h): one producer, one consumer *)
(* and three buffers, whose roles are held in one byte of shared memory    *)
(* that both sides change with a compare-and-swap.  A message has two      *)
(* fields, written and read in steps of their own, so that a buffer the    *)
(* two sides used at once would show.                                      *)
(***************************************************************************)
EXTENDS Integers

CONSTANT MaxUpdates   \* bound: the messages the producer prepares

ASSUME UpdatesAssumption == MaxUpdates \in Nat

VARIABLES
    flags,      \* the shared byte: (new write) (dirty) (clean) (snap)
    buf,        \* the three buffers, a message each
    ppc, pnow,  \* the producer's position, flagsNow in rtapi_tb_flip()
    made,       \* the message the producer prepares or prepared last
    flipped,    \* the message of the last flip
    cpc, cnow,  \* the consumer's position, flagsNow in rtapi_tb_snapshot()
    snap,       \* the consumer's pointer to its snapshot
    taken,      \* history: flipped at the last successful snapshot
    got         \* what the consumer read through its pointer

producerVars == <<ppc, pnow, made, flipped>>
consumerVars == <<cpc, cnow, snap, taken, got>>
vars == <<flags, buf, producerVars, consumerVars>>

\* The fields of the flag byte, two bits per index.
NewWrite(f) == (f \div 64) % 2
Dirty(f)    == (f \div 16) % 4
Clean(f)    == (f \div 4) % 4
Snap(f)     == f % 4

Pack(n, d, c, s) == 64 * n + 16 * d + 4 * c + s

\* Mutant: the flip takes the consumer's buffer for the clean one.
Flipped_TakesSnap(f) == Pack(1, Snap(f), Dirty(f), Clean(f))

\* newFlags of rtapi_tb_flip(): clean and dirty swap, and there is new data.
Flipped(f) == Pack(1, Clean(f), Dirty(f), Snap(f))

\* Mutant: the data taken still counts as new.
Snapped_StillNew(f) == Pack(NewWrite(f), Dirty(f), Snap(f), Clean(f))

\* Mutant: the data is taken, and the consumer keeps the buffer it has.
Snapped_Kept(f) == Pack(0, Dirty(f), Clean(f), Snap(f))

\* Mutant: the snap index is copied, not exchanged.
Snapped_Copied(f) == Pack(0, Dirty(f), Clean(f), Clean(f))

\* newFlags of rtapi_tb_snapshot(): clean and snap swap, and the data is taken.
Snapped(f) == Pack(0, Dirty(f), Snap(f), Clean(f))

rtapi_tb_write_idx == Dirty(flags)
rtapi_tb_snap_idx  == Snap(flags)

NULL == 3
Blank == [first |-> 0, second |-> 0]

Init ==
    /\ flags = 6                    \* rtapi_tb_init()
    /\ buf = [i \in 0 .. 2 |-> Blank]
    /\ ppc = "idle" /\ pnow = 0 /\ made = 0 /\ flipped = 0
    /\ cpc = "idle" /\ cnow = 0 /\ snap = NULL /\ taken = 0 /\ got = Blank
-----------------------------------------------------------------------------
(* The producer: fill the write buffer, flip.                              *)

WriteFirst ==
    /\ ppc = "idle" /\ made < MaxUpdates
    /\ made' = made + 1
    /\ buf' = [buf EXCEPT ![rtapi_tb_write_idx].first = made + 1]
    /\ ppc' = "second"
    /\ UNCHANGED <<flags, pnow, flipped, consumerVars>>

WriteSecond ==
    /\ ppc = "second"
    /\ buf' = [buf EXCEPT ![rtapi_tb_write_idx].second = made]
    /\ ppc' = "flip"
    /\ UNCHANGED <<flags, pnow, made, flipped, consumerVars>>

\* rtapi_tb_flip(): load of the flags, again on each turn of its loop, ...
FlipLoad ==
    /\ ppc = "flip"
    /\ pnow' = flags
    /\ ppc' = "flip_cas"
    /\ UNCHANGED <<flags, buf, made, flipped, consumerVars>>

\* ... and the compare-and-swap ...
FlipCas ==
    /\ ppc = "flip_cas"
    /\ flags = pnow
    /\ flags' = Flipped(pnow) /\ flipped' = made
    /\ ppc' = "idle"
    /\ UNCHANGED <<buf, pnow, made, consumerVars>>

\* Mutant: the loop does not load the flags again.
FlipRetry_NoReload ==
    /\ ppc = "flip_cas"
    /\ ppc' = "flip_cas"
    /\ UNCHANGED <<flags, buf, pnow, made, flipped, consumerVars>>

\* ... which the consumer's can make fail (and which may fail for no reason:
\* the compiler's builtin is asked for the weak form).
FlipRetry ==
    /\ ppc = "flip_cas"
    /\ ppc' = "flip"
    /\ UNCHANGED <<flags, buf, pnow, made, flipped, consumerVars>>

Update   == WriteFirst \/ WriteSecond
Flip     == FlipLoad \/ FlipCas \/ FlipRetry
Producer == Update \/ Flip
-----------------------------------------------------------------------------
(* The consumer: take a snapshot, read through the pointer to it.          *)

\* rtapi_tb_snapshot(): the flags are loaded once, before the loop.  Without new
\* data it returns false, and the consumer keeps the snapshot it has.
SnapLoad ==
    /\ cpc = "idle"
    /\ cnow' = flags
    /\ cpc' = IF NewWrite(flags) = 0 THEN "idle" ELSE "snap_cas"
    /\ UNCHANGED <<flags, buf, snap, taken, got, producerVars>>

\* The compare-and-swap; when it fails the loop goes round with the same
\* flagsNow, which changes nothing.
SnapCas ==
    /\ cpc = "snap_cas"
    /\ flags = cnow
    /\ flags' = Snapped(cnow)
    /\ taken' = flipped
    /\ cpc' = "snap_idx"
    /\ UNCHANGED <<buf, cnow, snap, got, producerVars>>

SnapIdx ==
    /\ cpc = "snap_idx"
    /\ snap' = rtapi_tb_snap_idx
    /\ cpc' = "idle"
    /\ UNCHANGED <<flags, buf, cnow, taken, got, producerVars>>

ReadFirst ==
    /\ cpc = "idle" /\ snap # NULL
    /\ got' = [got EXCEPT !.first = buf[snap].first]
    /\ cpc' = "second"
    /\ UNCHANGED <<flags, buf, cnow, snap, taken, producerVars>>

ReadSecond ==
    /\ cpc = "second"
    /\ got' = [got EXCEPT !.second = buf[snap].second]
    /\ cpc' = "idle"
    /\ UNCHANGED <<flags, buf, cnow, snap, taken, producerVars>>

Consumer == SnapLoad \/ SnapCas \/ SnapIdx \/ ReadFirst \/ ReadSecond
-----------------------------------------------------------------------------
Next == Producer \/ Consumer

Spec == Init /\ [][Next]_vars

\* Either side may stop between two calls, but a call once begun goes on, and a
\* compare-and-swap that finds what it compares with does not fail for ever.
FairSpec == /\ Spec
            /\ WF_vars(FlipLoad) /\ WF_vars(FlipRetry) /\ SF_vars(FlipCas)
            /\ WF_vars(SnapCas) /\ WF_vars(SnapIdx)
-----------------------------------------------------------------------------
(* Properties.                                                             *)

Msg(n) == [first |-> n, second |-> n]

\* The bytes the flags can hold: each buffer has one of the three roles.
FlagBytes ==
    {Pack(t[1], t[2], t[3], t[4]) :
        t \in {u \in (0 .. 1) \X (0 .. 2) \X (0 .. 2) \X (0 .. 2) :
                  u[2] # u[3] /\ u[3] # u[4] /\ u[2] # u[4]}}

Message == [first : Nat, second : Nat]

TypeOK ==
    /\ flags \in FlagBytes
    /\ buf \in [0 .. 2 -> Message]
    /\ ppc \in {"idle", "second", "flip", "flip_cas"} /\ pnow \in Nat
    /\ made \in Nat /\ flipped \in Nat
    /\ cpc \in {"idle", "snap_cas", "snap_idx", "second"} /\ cnow \in Nat
    /\ snap \in 0 .. 3 /\ taken \in Nat
    /\ got \in Message

\* The consumer never reads half of one message and half of another, however
\* long it keeps its snapshot and whatever the producer writes meanwhile.
WholeMessages == cpc # "second" => got.first = got.second

\* When there is no new data (rtapi_tb_snapshot() would return false) the buffer
\* the consumer's pointer leads to holds the message of the last flip, whole: none
\* is lost, and the buffer it was handed is the right one.
LatestTaken ==
    NewWrite(flags) = 0 /\ flipped > 0 /\ cpc # "snap_idx" =>
        snap # NULL /\ buf[snap] = Msg(flipped)

\* The consumer never goes back to an older message.
NeverOlder == [][got'.first >= got.first /\ got'.second >= got.second]_vars

\* rtapi_tb_flip() returns, whatever the consumer does.
FlipReturns == ppc = "flip" ~> ppc = "idle"

\* "Consuming a message will never be impacted by actions of the other party":
\* rtapi_tb_snapshot() returns, whatever the producer does.
SnapshotReturns == cpc = "snap_cas" ~> cpc # "snap_cas"
-----------------------------------------------------------------------------
(* The inductive invariant behind the safety properties.                   *)

\* The buffer the producer fills, the one it flipped last and the one the
\* consumer looks at hold what each side thinks they hold.
ProducerBuffer ==
    /\ flipped <= made
    /\ ppc = "idle" => flipped = made
    /\ ppc = "second" => buf[Dirty(flags)].first = made
    /\ ppc \in {"flip", "flip_cas"} => buf[Dirty(flags)] = Msg(made)

CleanBuffer == IF NewWrite(flags) = 0 THEN taken = flipped
               ELSE buf[Clean(flags)] = Msg(flipped)

SnapBuffer ==
    /\ taken <= flipped
    /\ cpc = "snap_cas" => NewWrite(cnow) = 1
    /\ cpc = "snap_idx" \/ snap # NULL => buf[Snap(flags)] = Msg(taken)
    /\ cpc # "snap_idx" /\ snap # NULL => snap = Snap(flags)
    /\ cpc # "snap_idx" /\ taken > 0 => snap # NULL
    /\ cpc = "second" => snap # NULL /\ got.first = taken

ReadSoFar ==
    /\ got.first <= taken /\ got.second <= got.first
    /\ WholeMessages

IndInv == TypeOK /\ ProducerBuffer /\ CleanBuffer /\ SnapBuffer /\ ReadSoFar
=============================================================================

---------------------------- MODULE RecordRingUse ----------------------------
(***************************************************************************)
(* How the record ring is used: the processing loops ring.h recommends,    *)
(* with the scheduling they need to make progress, and                     *)
(* record_flush_reader().                                                  *)
(***************************************************************************)
EXTENDS RecordRing

\* record_flush_reader() is a loop of record_shift() calls, without the
\* record_read() that goes before it elsewhere, until one returns EAGAIN.
ShiftAlone ==
    /\ rpc = "idle"
    /\ rpc' = "shift_tail"
    /\ UNCHANGED <<head, r, delivered, mem, recs, writerVars>>

FlushReaderNext == Next \/ ShiftAlone

FlushReaderSpec == Init /\ [][FlushReaderNext]_vars

\* A side that has begun a call goes on with it, and calls again: the writer
\* after EAGAIN unless it gives up, the reader in its loop.  A reader that peeks
\* at a record does not do so for ever.  Neither side waits for a lock.
WriteCall == \/ WriteBegin \/ WriteBeginWrap \/ WriteFill \/ WriteMark
             \/ WriteReset \/ WriteSize \/ WriteCommit

ReadLoop == \/ ReadTail \/ ReadSize \/ ReadTail0 \/ UseData
            \/ ShiftTail \/ ShiftTail0 \/ ShiftSize \/ ShiftHead \/ FlushCas

FairSpec == Spec /\ WF_vars(WriteCall) /\ WF_vars(ReadLoop) /\ SF_vars(UseData)
-----------------------------------------------------------------------------
\* record_shift() fails with EAGAIN when there is nothing to consume.
ShiftNeedsRecord == rpc = "shift_head" => recs # <<>>

\* A committed record is consumed or flushed: the reader does not stay behind a
\* wrap mark, nor take a ring with records for an empty one.
RecordsReachReader == recs # <<>> ~> rpc \in {"shift_head", "flush"}

\* A writer that tries again after EAGAIN, and does not give up, gets its space
\* once the reader has caught up, for records that take up to half of the ring:
\* in an empty ring such a record fits behind the tail or before head, wherever
\* the two are.  A larger one may fit in neither place and get EAGAIN for ever.
WriteSucceeds ==
    \A sz \in RecSizes : 2 * record_usage(sz) <= Size =>
        (wpc = "begin" /\ w.req = sz ~> wpc \in {"fill", "idle"})
=============================================================================

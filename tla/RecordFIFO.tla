------------------------------ MODULE RecordFIFO ------------------------------
(***************************************************************************)
(* What the record ring promises its two users, without storage, offsets   *)
(* or atomicity: a queue of records (ring.h: "rings by default behave like *)
(* queues: record_write() to add, record_read()/record_shift() to          *)
(* remove").                                                               *)
(***************************************************************************)
EXTENDS Sequences, Naturals

CONSTANTS Record,     \* what a record is, as a reader sees it
          NoRecord

VARIABLES queue, delivered

Init == queue = <<>> /\ delivered = NoRecord

\* record_write()
Put ==
    /\ \E m \in Record : queue' = Append(queue, m)
    /\ UNCHANGED delivered

\* record_read() followed by record_shift()
Get ==
    /\ queue # <<>>
    /\ delivered' = Head(queue)
    /\ queue' = Tail(queue)

\* record_flush(): the oldest records are lost, in one step.
Flush ==
    /\ \E n \in 0 .. Len(queue) : queue' = SubSeq(queue, n + 1, Len(queue))
    /\ UNCHANGED delivered

Next == Put \/ Get \/ Flush

Spec == Init /\ [][Next]_<<queue, delivered>>
=============================================================================

------------------------------- MODULE HalRing -------------------------------
(***************************************************************************)
(* Named rings of the HAL (hal_ring.c): descriptors in the HAL, ring ids   *)
(* in a bitmap, the ring itself in HAL memory or in a segment of shared    *)
(* memory that each process maps through a table of its own                *)
(* (rtapi_shmem.c).  Userland processes attach and detach ringbuffers and  *)
(* may die; plugs are objects of rtapi_app that attach a ring for good.    *)
(* Each call runs under the HAL mutex and is one step.  A segment is never *)
(* removed while the HAL runs, so one that was made once can be mapped.    *)
(***************************************************************************)
EXTENDS Integers, FiniteSets, FiniteSetsExt

CONSTANTS Procs,         \* userland processes
          RtApp,         \* the process rtapi_app
          Names,         \* names of rings
          Halmem,        \* the rings with ALLOC_HALMEM
          Owners,        \* components of rtapi_app that own plugs
          OtherKeys,     \* segments that are no rings: the HAL's own, scope, sampler
          MaxRings,      \* HAL_MAX_RINGS
          MaxShmems,     \* RTAPI_MAX_SHMEMS
          MaxCount,      \* bound: mappings of one segment that a process counts
          MaxOthers,     \* bound: mappings of another segment that a slot counts
          MaxRefs,       \* bound: attachments counted in one header
          None

Ids == 1 .. MaxRings - 1         \* 0 is set aside
Slots == 1 .. MaxShmems - 1
Roles == {"read", "write"}

\* A plug is named <ring>.<owner>.<role>; the others are one ringbuffer_t per process.
Plugs == Names \X Owners \X Roles
Buffers == Plugs \cup Procs
Home(b) == IF b \in Procs THEN b ELSE RtApp

ASSUME RingAssumption ==
    /\ RtApp \notin Procs /\ Procs \cap Plugs = {} /\ Halmem \subseteq Names
    /\ MaxRings \in Nat /\ MaxShmems \in Nat /\ MaxCount \in Nat \ {0} /\ MaxRefs \in Nat
    /\ MaxOthers \in Nat
    /\ None \notin Int /\ None \notin Buffers
    /\ OtherKeys \cap (Int \cup {None}) = {}

VARIABLES ids,      \* hal_data->rings: the ids in use
          ring,     \* ring_id of the ring with that name, None without one
          header,   \* the ringheader_t of each id: refcount, reader, writer
          table,    \* shmem_array of each process: key and count, or Free
          buf       \* id and slot a ringbuffer_t is attached to, or Detached

vars == <<ids, ring, header, table, buf>>

Free == [key |-> None, count |-> 0]
Detached == [id |-> None, slot |-> None]

\* ringheader_init() and the reset of refcount after it.
FreshHeader == [refcount |-> 0, read |-> None, write |-> None]

Init ==
    /\ ids = {} /\ ring = [n \in Names |-> None]
    /\ header = [i \in Ids |-> FreshHeader]
    /\ table = [p \in Procs \cup {RtApp} |-> [s \in Slots |-> Free]]
    /\ buf = [b \in Buffers |-> Detached]
-----------------------------------------------------------------------------
(* The table of segments.                                                  *)

\* rtapi_shmem_new_inst(): the scan ends at the first slot that has the key or is
\* free, also if the key is behind it.
Scan(p, id) == {s \in Slots : table[p][s].key \in {id, None}}
NoSlot(p, id) == Scan(p, id) = {}
SlotFor(p, id) == Min(Scan(p, id))
Countable(p, id) == table[p][SlotFor(p, id)].count < MaxCount

\* A slot that has the key, or gets it, is counted up.
rtapi_shmem_new(p, id) ==
    [table EXCEPT ![p][SlotFor(p, id)] = [key |-> id, count |-> @.count + 1]]

\* rtapi_shmem_delete_inst(): the last user unmaps.
rtapi_shmem_delete(t, p, s) ==
    [t EXCEPT ![p][s] = IF @.count = 1 THEN Free
                        ELSE [key |-> @.key, count |-> @.count - 1]]

\* Whoever else maps segments in a process does it in the same table, and may leave
\* a hole before a ring's slot.  Each handle got this way is given back once.
OtherNew(p, k) ==
    /\ ~NoSlot(p, k) /\ table[p][SlotFor(p, k)].count < MaxOthers
    /\ table' = rtapi_shmem_new(p, k)
    /\ UNCHANGED <<ids, ring, header, buf>>

OtherDelete(p, k) ==
    /\ \E s \in Slots : table[p][s].key = k /\ table' = rtapi_shmem_delete(table, p, s)
    /\ UNCHANGED <<ids, ring, header, buf>>
-----------------------------------------------------------------------------
(* Rings.                                                                  *)

next_ring_id == Min(Ids \ ids)

\* A ring in a segment is mapped by the process that makes it; without a slot the
\* call fails and gives the id back.
CreateRing(p, n) ==
    LET id == next_ring_id IN
    /\ ring[n] = None /\ ids # Ids
    /\ n \notin Halmem => ~NoSlot(p, id) /\ Countable(p, id)
    /\ ids' = ids \cup {id} /\ ring' = [ring EXCEPT ![n] = id]
    /\ header' = [header EXCEPT ![id] = FreshHeader]
    /\ table' = IF n \in Halmem THEN table ELSE rtapi_shmem_new(p, id)
    /\ UNCHANGED buf

\* The name is taken: the call fails, gives back its own id, and frees the
\* descriptor it has found, whose id stays in use.
RingExists(n) ==
    /\ ring[n] # None /\ ids # Ids
    /\ ring' = [ring EXCEPT ![n] = None]
    /\ UNCHANGED <<ids, header, table, buf>>

halg_ring_new(p, n) == CreateRing(p, n) \/ RingExists(n)

\* Mutant: attached rings are deleted.
Unused_Any(n) == TRUE

Unused(n) == header[ring[n]].refcount = 0

\* free_ring_struct(): the segment is mapped to look at the header, and unmapped
\* only if the ring is deleted.  halg_ring_delete() ignores the result.
halg_ring_delete(p, n) ==
    LET id == ring[n] IN
    /\ id # None
    /\ n \notin Halmem => ~NoSlot(p, id) /\ Countable(p, id)
    /\ LET mapped == IF n \in Halmem THEN table ELSE rtapi_shmem_new(p, id) IN
          \/ ~Unused(n) /\ table' = mapped /\ UNCHANGED <<ids, ring>>
          \/ /\ Unused(n)
             /\ table' = IF n \in Halmem THEN table
                         ELSE rtapi_shmem_delete(mapped, p, SlotFor(p, id))
             /\ ring' = [ring EXCEPT ![n] = None] /\ ids' = ids \ {id}
    /\ UNCHANGED <<header, buf>>

\* halg_ring_attachfv() of a ringbuffer_t; in a plug also the mark in the header.
Attach(b, n, marked) ==
    LET id == ring[n]  p == Home(b) IN
    /\ id # None /\ buf[b] = Detached /\ marked.refcount < MaxRefs
    /\ n \notin Halmem => ~NoSlot(p, id) /\ Countable(p, id)
    /\ table' = IF n \in Halmem THEN table ELSE rtapi_shmem_new(p, id)
    /\ buf' = [buf EXCEPT ![b] = [id |-> id, slot |-> IF n \in Halmem THEN None ELSE SlotFor(p, id)]]
    /\ header' = [header EXCEPT ![id] = [marked EXCEPT !.refcount = @ + 1]]
    /\ UNCHANGED <<ids, ring>>

\* halg_ring_detach(): the mapping stays.
Detach(b, unmarked) ==
    /\ buf[b] # Detached
    /\ buf' = [buf EXCEPT ![b] = Detached]
    /\ header' = [header EXCEPT ![buf[b].id] = [unmarked EXCEPT !.refcount = @ - 1]]
    /\ UNCHANGED <<ids, ring, table>>

halg_ring_attach(p, n) == ring[n] # None /\ Attach(p, n, header[ring[n]])
halg_ring_detach(p) == Detach(p, header[buf[p].id])
-----------------------------------------------------------------------------
(* Plugs.                                                                  *)

Mark(h, b) == IF b[3] = "write" THEN [h EXCEPT !.write = b] ELSE [h EXCEPT !.read = b]

\* Mutant: the reader's mark is left.
Unmark_Writer(h, b) == [h EXCEPT !.write = IF @ = b THEN None ELSE @]

Unmark(h, b) ==
    [h EXCEPT !.write = IF @ = b THEN None ELSE @, !.read = IF @ = b THEN None ELSE @]

\* The ring must exist and the name be free: the paths for when they do not read an
\* uninitialized pointer, and are left out.
halg_plug_new(b) == ring[b[1]] # None /\ Attach(b, b[1], Mark(header[ring[b[1]]], b))

\* Also when the component or instance that owns it is freed.
halg_plug_delete(b) == buf[b] # Detached /\ Detach(b, Unmark(header[buf[b].id], b))
-----------------------------------------------------------------------------
\* A process dies, or exits without detaching; its next start has an empty table.
Die(p) ==
    /\ \/ buf[p] # Detached \/ \E s \in Slots : table[p][s] # Free
    /\ table' = [table EXCEPT ![p] = [s \in Slots |-> Free]]
    /\ buf' = [buf EXCEPT ![p] = Detached]
    /\ UNCHANGED <<ids, ring, header>>

Next ==
    \/ \E p \in Procs \cup {RtApp}, n \in Names : halg_ring_new(p, n) \/ halg_ring_delete(p, n)
    \/ \E p \in Procs \cup {RtApp}, k \in OtherKeys : OtherNew(p, k) \/ OtherDelete(p, k)
    \/ \E p \in Procs : (\E n \in Names : halg_ring_attach(p, n)) \/ halg_ring_detach(p) \/ Die(p)
    \/ \E b \in Plugs : halg_plug_new(b) \/ halg_plug_delete(b)

Spec == Init /\ [][Next]_vars
-----------------------------------------------------------------------------
Attached(i) == {b \in Buffers : buf[b].id = i}

(* A ring that is attached is not taken away: whoever creates, deletes and *)
(* attaches rings, dies while attached, or asks for a ring that exists,    *)
(* and however the tables of the processes fill up and get holes, the id   *)
(* of an attached ring is not handed out again (its header would be        *)
(* initialised under the reader), its count is never below the number of   *)
(* users, and the slot its user got still maps it.                         *)
AttachedKept ==
    /\ \A i \in Ids : Attached(i) # {} =>
          i \in ids /\ header[i].refcount >= Cardinality(Attached(i))
    /\ \A b \in Buffers : buf[b].slot # None => table[Home(b)][buf[b].slot].key = buf[b].id
    /\ \A n \in Names : ring[n] # None =>
          ring[n] \in ids /\ \A m \in Names : ring[m] = ring[n] => m = n

(* The reader and writer a header names are plugs that exist, attached to  *)
(* this ring and in this role: with several plugs of several owners on one *)
(* ring, deleted in any order, and with ids of rings used again.           *)
MarksRight ==
    \A i \in ids, role \in Roles : header[i][role] # None =>
        LET b == header[i][role] IN buf[b].id = i /\ b[3] = role
=============================================================================

---------------------------- MODULE HalRingProofs ----------------------------
(***************************************************************************)
(* Theorems about HalRing, for any processes, names, owners and sizes of   *)
(* the tables: an attached ring is kept, and a header names the plugs it   *)
(* has.                                                                    *)
(***************************************************************************)
EXTENDS HalRing, FiniteSetTheorems, WellFoundedInduction, TLAPS

Users == Procs \cup {RtApp}

Headers == [refcount : Nat, read : Plugs \cup {None}, write : Plugs \cup {None}]
Keys == Ids \cup OtherKeys
Tables == [Users -> [Slots -> [key : Keys \cup {None}, count : Nat]]]

\* The values the variables take.
Types ==
    /\ ids \subseteq Ids
    /\ ring \in [Names -> Ids \cup {None}]
    /\ header \in [Ids -> Headers]
    /\ table \in Tables
    /\ buf \in [Buffers -> [id : Ids \cup {None}, slot : Slots \cup {None}]]

\* Those who are attached are counted, and their id stays in use.
CountInv ==
    \A i \in Ids : /\ IsFiniteSet(Attached(i))
                   /\ header[i].refcount >= Cardinality(Attached(i))
                   /\ Attached(i) # {} => i \in ids

\* The names of rings.
NamesInv ==
    \A n \in Names : ring[n] # None =>
        ring[n] \in ids /\ \A m \in Names : ring[m] = ring[n] => m = n

\* A slot counts if and only if it has a key.
TableInv(t) ==
    /\ t \in Tables
    /\ \A p \in Users, s \in Slots : t[p][s].key = None <=> t[p][s].count = 0

\* What is attached through a slot finds its segment there.
MapsInv ==
    \A b \in Buffers : /\ buf[b].id = None => buf[b].slot = None
                       /\ buf[b].slot # None => table[Home(b)][buf[b].slot].key = buf[b].id

\* The plugs a header names.
MarksInv ==
    \A i \in ids :
        /\ header[i].read # None =>
             LET b == header[i].read IN b \in Plugs /\ buf[b].id = i /\ b[3] = "read"
        /\ header[i].write # None =>
             LET b == header[i].write IN b \in Plugs /\ buf[b].id = i /\ b[3] = "write"

RingInv == Types /\ CountInv /\ NamesInv /\ TableInv(table) /\ MapsInv /\ MarksInv
-----------------------------------------------------------------------------
(* The constants.                                                          *)

(* None is no id, slot, plug or process, a process is no plug, and the key *)
(* of another segment is no id.                                            *)
LEMMA Apart ==
    /\ None \notin Ids /\ None \notin Slots /\ None \notin Plugs /\ None \notin Procs
    /\ \A p \in Procs : p \notin Plugs /\ p # RtApp
    /\ Ids \subseteq Nat /\ Slots \subseteq Nat
    /\ Ids \subseteq Keys /\ None \notin Keys /\ OtherKeys \cap Ids = {}
    /\ \A b \in Buffers : Home(b) \in Users
BY RingAssumption DEF Ids, Slots, Buffers, Home, Users, Keys

(* A set of naturals has a least member: what the scans of the code find.  *)
LEMMA MinIs ==
    ASSUME NEW S \in SUBSET Nat, S # {}
    PROVE  Min(S) \in S /\ \A y \in S : Min(S) <= y
<1>1. PICK R : R = OpToRel(<, Nat)
  BY Zenon
<1>2. R = {ss \in Nat \X Nat : ss[1] < ss[2]}
  BY <1>1, Zenon DEF OpToRel
<1>3. IsWellFoundedOn(R, Nat)
  BY <1>1, NatLessThanWellFounded, Zenon
<1>4. PICK x \in S : \A y \in S : ~(<<y, x>> \in R)
  BY <1>3, WFMin
<1>5. ASSUME NEW y \in S
      PROVE  x <= y
  <2>1. <<y, x>> \in Nat \X Nat /\ <<y, x>>[1] = y /\ <<y, x>>[2] = x
    OBVIOUS
  <2>2. ~(y < x)
    BY <1>2, <1>4, <2>1, Zenon
  <2>3. x \in Nat /\ y \in Nat
    OBVIOUS
  <2> QED
    BY <2>2, <2>3
<1> QED
  BY <1>5 DEF Min
-----------------------------------------------------------------------------
(* The table of segments.                                                  *)

(* The slot that rtapi_shmem_new() takes has the key or is free.           *)
LEMMA SlotForIs ==
    ASSUME NEW p \in Users, NEW id \in Keys, ~NoSlot(p, id)
    PROVE  /\ SlotFor(p, id) \in Slots
           /\ table[p][SlotFor(p, id)].key \in {id, None}
<1>1. Scan(p, id) \in SUBSET Nat /\ Scan(p, id) # {} /\ Scan(p, id) \subseteq Slots
  BY Apart DEF Scan, NoSlot
<1>2. SlotFor(p, id) \in Scan(p, id)
  BY <1>1, MinIs DEF SlotFor
<1> QED
  BY <1>1, <1>2 DEF Scan

(* Mapping a segment keeps the table in order, and every key in its slot.  *)
LEMMA ShmemNew ==
    ASSUME TableInv(table), NEW p \in Users, NEW id \in Keys, ~NoSlot(p, id)
    PROVE  LET t == rtapi_shmem_new(p, id)
           IN  /\ TableInv(t)
               /\ t[p][SlotFor(p, id)].key = id
               /\ \A q \in Users, s \in Slots : table[q][s].key # None =>
                     t[q][s].key = table[q][s].key
<1> DEFINE t == rtapi_shmem_new(p, id)
<1>1. PICK z \in Slots : z = SlotFor(p, id) /\ table[p][z].key \in {id, None}
  BY SlotForIs
<1>2. table \in Tables
  BY DEF TableInv
<1>3. t = [table EXCEPT ![p][z] = [key |-> id, count |-> table[p][z].count + 1]]
  BY <1>1, <1>2 DEF rtapi_shmem_new, Tables
<1>4. table[p][z].count + 1 \in Nat /\ table[p][z].count + 1 # 0 /\ id # None
  BY <1>2, Apart DEF Tables
<1>5. t \in Tables
  BY <1>2, <1>3, <1>4 DEF Tables
<1>6. /\ t[p][z].key = id /\ t[p][z].count = table[p][z].count + 1
      /\ \A q \in Users, s \in Slots : q # p \/ s # z => t[q][s] = table[q][s]
  BY <1>2, <1>3 DEF Tables
<1> HIDE DEF t
<1>7. \A q \in Users, s \in Slots : t[q][s].key = None <=> t[q][s].count = 0
  BY <1>4, <1>6 DEF TableInv
<1>8. \A q \in Users, s \in Slots : table[q][s].key # None => t[q][s].key = table[q][s].key
  BY <1>1, <1>6
<1> QED
  BY <1>1, <1>5, <1>6, <1>7, <1>8 DEF TableInv, t

(* Unmapping what was just mapped gives the table back: halg_ring_delete() *)
(* takes no slot away that somebody uses.                                  *)
LEMMA ShmemDelete ==
    ASSUME TableInv(table), NEW p \in Users, NEW id \in Keys, ~NoSlot(p, id)
    PROVE  rtapi_shmem_delete(rtapi_shmem_new(p, id), p, SlotFor(p, id)) = table
<1>1. PICK z \in Slots : z = SlotFor(p, id) /\ table[p][z].key \in {id, None}
  BY SlotForIs
<1>2. table \in Tables
  BY DEF TableInv
<1>3. PICK c \in Nat : c = table[p][z].count
  BY <1>2 DEF Tables
<1>4. PICK t : /\ t = rtapi_shmem_new(p, id)
               /\ t = [table EXCEPT ![p][z] = [key |-> id, count |-> c + 1]]
  BY <1>1, <1>2, <1>3 DEF rtapi_shmem_new, Tables
<1>5. t[p][z] = [key |-> id, count |-> c + 1]
  BY <1>2, <1>4 DEF Tables
<1>6. PICK e : /\ e = IF t[p][z].count = 1 THEN Free ELSE [key |-> t[p][z].key, count |-> t[p][z].count - 1]
               /\ rtapi_shmem_delete(t, p, z) = [t EXCEPT ![p][z] = e]
  BY <1>2, <1>4 DEF rtapi_shmem_delete, Tables
<1>7. table[p][z] = [key |-> table[p][z].key, count |-> c]
  BY <1>2, <1>3 DEF Tables
<1>8. table[p][z].key = None <=> c = 0
  BY <1>3, Zenon DEF TableInv
<1>9. e = table[p][z]
  <2>1. CASE c = 0
    <3>1. table[p][z].key = None /\ c + 1 = 1
      BY <1>8, <2>1
    <3> QED
      BY <1>5, <1>6, <1>7, <2>1, <3>1 DEF Free
  <2>2. CASE c # 0
    <3>1. table[p][z].key = id /\ c + 1 # 1 /\ c + 1 - 1 = c
      BY <1>1, <1>8, <2>2
    <3>2. e = [key |-> id, count |-> c + 1 - 1]
      BY <1>5, <1>6, <3>1
    <3> QED
      BY <1>7, <3>1, <3>2
  <2> QED
    BY <2>1, <2>2
<1>10. [t EXCEPT ![p][z] = table[p][z]] = table
  <2>1. PICK f : f = [t EXCEPT ![p][z] = table[p][z]]
    OBVIOUS
  <2>2. PICK E : table \in [Users -> [Slots -> E]]
    BY <1>2 DEF Tables
  <2>3. t = [q \in Users |-> IF q = p THEN [table[p] EXCEPT ![z] = [key |-> id, count |-> c + 1]]
                             ELSE table[q]]
    BY <1>4, <2>2
  <2>4. f = [q \in Users |-> IF q = p THEN [t[p] EXCEPT ![z] = table[p][z]] ELSE t[q]]
    BY <2>1, <2>3
  <2>5. [t[p] EXCEPT ![z] = table[p][z]] = table[p]
    BY <2>2, <2>3
  <2> QED
    BY <2>1, <2>2, <2>3, <2>4, <2>5
<1> QED
  BY <1>1, <1>4, <1>6, <1>9, <1>10
-----------------------------------------------------------------------------
(* Each call keeps the invariant.                                          *)

(* Who is attached depends on buf alone.                                   *)
LEMMA AttachedSame ==
    ASSUME buf' = buf
    PROVE  \A i : Attached(i)' = Attached(i)
BY DEF Attached

(* The ring that is made gets an id nobody is attached to.                 *)
LEMMA CreateRingInv ==
    ASSUME RingInv, NEW p \in Users, NEW n \in Names, CreateRing(p, n)
    PROVE  RingInv'
<1>1. Types /\ CountInv /\ NamesInv /\ TableInv(table) /\ MapsInv /\ MarksInv
  BY DEF RingInv
<1>2. PICK id \in Ids : id = next_ring_id /\ id \notin ids
  <2>1. Ids \ ids \in SUBSET Nat /\ Ids \ ids # {}
    BY <1>1, Apart DEF CreateRing, Types
  <2> QED
    BY <2>1, MinIs DEF next_ring_id
<1>3. /\ ring[n] = None /\ ids' = ids \cup {id} /\ ring' = [ring EXCEPT ![n] = id]
      /\ header' = [header EXCEPT ![id] = FreshHeader] /\ buf' = buf
      /\ n \notin Halmem => ~NoSlot(p, id)
      /\ table' = IF n \in Halmem THEN table ELSE rtapi_shmem_new(p, id)
  BY <1>2 DEF CreateRing
<1>4. /\ TableInv(table')
      /\ \A q \in Users, s \in Slots : table[q][s].key # None => table'[q][s].key = table[q][s].key
  BY <1>1, <1>3, Apart, ShmemNew
<1>5. FreshHeader \in Headers /\ id # None
  BY Apart DEF FreshHeader, Headers
<1>6. Types'
  BY <1>1, <1>3, <1>4, <1>5 DEF Types, TableInv
<1>7. header'[id] = FreshHeader /\ \A i \in Ids : i # id => header'[i] = header[i]
  BY <1>1, <1>3 DEF Types
<1>8. CountInv'
  <2>1. Attached(id) = {}
    BY <1>1, <1>2 DEF CountInv
  <2>2. Cardinality({}) = 0 /\ IsFiniteSet({})
    BY FS_EmptySet
  <2>3. FreshHeader.refcount = 0
    BY DEF FreshHeader
  <2>4. \A i \in Ids : Attached(i)' = Attached(i)
    BY <1>3, AttachedSame
  <2>5. ASSUME NEW i \in Ids
        PROVE  /\ IsFiniteSet(Attached(i))
               /\ header'[i].refcount >= Cardinality(Attached(i))
               /\ Attached(i) # {} => i \in ids'
    <3>1. CASE i = id
      BY <1>7, <2>1, <2>2, <2>3, <3>1
    <3>2. CASE i # id
      BY <1>1, <1>3, <1>7, <3>2 DEF CountInv
    <3> QED
      BY <3>1, <3>2
  <2> QED
    BY <2>4, <2>5 DEF CountInv
<1>9. NamesInv'
  BY <1>1, <1>2, <1>3, <1>5 DEF Types, NamesInv
<1>10. MapsInv'
  <2>1. \A b \in Buffers : buf[b].id \in Ids \cup {None} /\ buf[b].slot \in Slots \cup {None}
    BY <1>1 DEF Types
  <2>2. ASSUME NEW b \in Buffers, buf[b].slot # None
        PROVE  table'[Home(b)][buf[b].slot].key = buf[b].id
    BY <1>1, <1>4, <2>1, <2>2, Apart DEF MapsInv
  <2> QED
    BY <1>1, <1>3, <2>2 DEF MapsInv
<1>11. MarksInv'
  <2>1. FreshHeader.read = None /\ FreshHeader.write = None
    BY DEF FreshHeader
  <2> QED
    BY <1>1, <1>2, <1>3, <1>7, <2>1 DEF MarksInv, Types
<1> QED
  BY <1>4, <1>6, <1>8, <1>9, <1>10, <1>11 DEF RingInv

(* A name that is taken loses its descriptor; the id and its users stay.   *)
LEMMA RingExistsInv ==
    ASSUME RingInv, NEW n \in Names, RingExists(n)
    PROVE  RingInv'
<1>1. Types /\ CountInv /\ NamesInv /\ TableInv(table) /\ MapsInv /\ MarksInv
  BY DEF RingInv
<1>2. /\ ring' = [ring EXCEPT ![n] = None]
      /\ ids' = ids /\ header' = header /\ table' = table /\ buf' = buf
  BY DEF RingExists
<1>3. Types' /\ NamesInv'
  BY <1>1, <1>2 DEF Types, NamesInv
<1>4. CountInv'
  BY <1>1, <1>2, AttachedSame DEF CountInv
<1>5. TableInv(table)' /\ MapsInv' /\ MarksInv'
  BY <1>1, <1>2 DEF TableInv, MapsInv, MarksInv
<1> QED
  BY <1>3, <1>4, <1>5 DEF RingInv

(* Only a ring nobody is attached to is deleted; the mapping made to look  *)
(* at its header is undone, or stays counted.                              *)
LEMMA RingDeleteInv ==
    ASSUME RingInv, NEW p \in Users, NEW n \in Names, halg_ring_delete(p, n)
    PROVE  RingInv'
<1>1. Types /\ CountInv /\ NamesInv /\ TableInv(table) /\ MapsInv /\ MarksInv
  BY DEF RingInv
<1>2. PICK id \in Ids : id = ring[n] /\ id # None /\ id \in ids
  BY <1>1 DEF halg_ring_delete, Types, NamesInv
<1>3. header' = header /\ buf' = buf /\ (n \notin Halmem => ~NoSlot(p, id))
  BY <1>2 DEF halg_ring_delete
<1>4. /\ TableInv(table')
      /\ \A q \in Users, s \in Slots : table[q][s].key # None => table'[q][s].key = table[q][s].key
  <2>1. \/ table' = table
        \/ n \notin Halmem /\ table' = rtapi_shmem_new(p, id)
        \/ n \notin Halmem /\ table' = rtapi_shmem_delete(rtapi_shmem_new(p, id), p, SlotFor(p, id))
    BY <1>2 DEF halg_ring_delete
  <2> QED
    BY <1>1, <1>3, <2>1, Apart, ShmemNew, ShmemDelete
<1>5. MapsInv'
  <2>1. \A b \in Buffers : buf[b].id \in Ids \cup {None} /\ buf[b].slot \in Slots \cup {None}
    BY <1>1 DEF Types
  <2>2. ASSUME NEW b \in Buffers, buf[b].slot # None
        PROVE  table'[Home(b)][buf[b].slot].key = buf[b].id
    BY <1>1, <1>4, <2>1, <2>2, Apart DEF MapsInv
  <2> QED
    BY <1>1, <1>3, <2>2 DEF MapsInv
<1>6. CASE ids' = ids /\ ring' = ring
  <2>1. Types' /\ NamesInv'
    BY <1>1, <1>3, <1>4, <1>6 DEF Types, NamesInv, TableInv
  <2>2. CountInv'
    BY <1>1, <1>3, <1>6, AttachedSame DEF CountInv
  <2>3. MarksInv'
    BY <1>1, <1>3, <1>6 DEF MarksInv
  <2> QED
    BY <1>4, <1>5, <2>1, <2>2, <2>3 DEF RingInv
<1>7. CASE Unused(n) /\ ring' = [ring EXCEPT ![n] = None] /\ ids' = ids \ {id}
  <2>1. Types'
    BY <1>1, <1>3, <1>4, <1>7 DEF Types, TableInv
  <2>2. NamesInv'
    BY <1>1, <1>2, <1>7 DEF Types, NamesInv
  <2>3. Attached(id) = {}
    <3>1. header[id].refcount = 0 /\ IsFiniteSet(Attached(id))
          /\ header[id].refcount >= Cardinality(Attached(id))
      BY <1>1, <1>2, <1>7 DEF Unused, CountInv
    <3>2. Cardinality(Attached(id)) \in Nat
      BY <3>1, FS_CardinalityType
    <3>3. Cardinality(Attached(id)) = 0
      BY <3>1, <3>2
    <3> QED
      BY <3>1, <3>3, FS_EmptySet
  <2>4. CountInv'
    BY <1>1, <1>3, <1>7, <2>3, AttachedSame DEF CountInv
  <2>5. MarksInv'
    BY <1>1, <1>3, <1>7 DEF MarksInv
  <2> QED
    BY <1>4, <1>5, <2>1, <2>2, <2>4, <2>5 DEF RingInv
<1> QED
  BY <1>2, <1>6, <1>7 DEF halg_ring_delete

\* The header h with the mark of b added, or none.
MarkedFor(marked, h, b) ==
    /\ marked \in Headers /\ marked.refcount = h.refcount
    /\ marked.read = h.read \/ (marked.read = b /\ b \in Plugs /\ b[3] = "read")
    /\ marked.write = h.write \/ (marked.write = b /\ b \in Plugs /\ b[3] = "write")

(* An attachment is counted, its id is in use and its slot maps it.        *)
LEMMA AttachInv ==
    ASSUME RingInv, NEW b \in Buffers, NEW n \in Names, NEW marked, ring[n] # None,
           MarkedFor(marked, header[ring[n]], b), Attach(b, n, marked)
    PROVE  RingInv'
<1>1. Types /\ CountInv /\ NamesInv /\ TableInv(table) /\ MapsInv /\ MarksInv
  BY DEF RingInv
<1>2. PICK id \in Ids : id = ring[n] /\ id # None /\ id \in ids
  BY <1>1 DEF Types, NamesInv
<1>3. PICK p \in Users : p = Home(b)
  BY Apart
<1>4. PICK slot : /\ slot = IF n \in Halmem THEN None ELSE SlotFor(p, id)
                  /\ buf' = [buf EXCEPT ![b] = [id |-> id, slot |-> slot]]
  BY <1>2, <1>3 DEF Attach
<1>5. PICK h \in Headers : /\ h = [marked EXCEPT !.refcount = @ + 1]
                           /\ header' = [header EXCEPT ![id] = h]
                           /\ h.refcount = header[id].refcount + 1
                           /\ h.read = marked.read /\ h.write = marked.write
  <2>1. marked \in Headers /\ marked.refcount = header[id].refcount
    BY <1>2 DEF MarkedFor
  <2>2. [marked EXCEPT !.refcount = @ + 1] =
           [refcount |-> marked.refcount + 1, read |-> marked.read, write |-> marked.write]
    BY <2>1 DEF Headers
  <2>3. [marked EXCEPT !.refcount = @ + 1] \in Headers
    BY <2>1, <2>2 DEF Headers
  <2> QED
    BY <1>2, <2>1, <2>2, <2>3 DEF Attach
<1>6. /\ buf[b] = Detached /\ ids' = ids /\ ring' = ring
      /\ n \notin Halmem => ~NoSlot(p, id)
      /\ table' = IF n \in Halmem THEN table ELSE rtapi_shmem_new(p, id)
  BY <1>2, <1>3 DEF Attach
<1>7. /\ TableInv(table') /\ slot \in Slots \cup {None}
      /\ slot # None => table'[p][slot].key = id
      /\ \A q \in Users, s \in Slots : table[q][s].key # None => table'[q][s].key = table[q][s].key
  BY <1>1, <1>4, <1>6, Apart, ShmemNew, SlotForIs
<1>8. buf[b].id = None /\ buf[b].slot = None
  BY <1>6 DEF Detached
<1>9. /\ buf'[b].id = id /\ buf'[b].slot = slot
      /\ \A c \in Buffers : c # b => buf'[c] = buf[c]
  BY <1>1, <1>4 DEF Types
<1>10. Types'
  BY <1>1, <1>4, <1>5, <1>6, <1>7 DEF Types, TableInv
<1>11. header'[id] = h /\ \A i \in Ids : i # id => header'[i] = header[i]
  BY <1>1, <1>5 DEF Types
<1>12. CountInv'
  <2>1. Attached(id)' = Attached(id) \cup {b} /\ b \notin Attached(id)
    BY <1>2, <1>8, <1>9 DEF Attached
  <2>2. \A i \in Ids : i # id => Attached(i)' = Attached(i)
    BY <1>8, <1>9, Apart DEF Attached
  <2>3. IsFiniteSet(Attached(id)) /\ header[id].refcount >= Cardinality(Attached(id))
    BY <1>1 DEF CountInv
  <2>4. /\ IsFiniteSet(Attached(id)')
        /\ Cardinality(Attached(id)') = Cardinality(Attached(id)) + 1
    BY <2>1, <2>3, FS_AddElement, Zenon
  <2>5. header[id].refcount \in Nat /\ Cardinality(Attached(id)) \in Nat
    BY <1>1, <2>3, FS_CardinalityType DEF Types, Headers
  <2>6. header'[id].refcount >= Cardinality(Attached(id)')
    <3>1. header'[id].refcount = header[id].refcount + 1
      BY <1>5, <1>11
    <3>2. \A x, y \in Nat : x >= y => x + 1 >= y + 1
      OBVIOUS
    <3> QED
      BY <2>3, <2>4, <2>5, <3>1, <3>2, Zenon
  <2>7. ASSUME NEW i \in Ids
        PROVE  (/\ IsFiniteSet(Attached(i))
                /\ header[i].refcount >= Cardinality(Attached(i))
                /\ Attached(i) # {} => i \in ids)'
    <3>1. CASE i = id
      BY <1>2, <1>6, <2>4, <2>6, <3>1
    <3>2. CASE i # id
      BY <1>1, <1>6, <1>11, <2>2, <3>2 DEF CountInv
    <3> QED
      BY <3>1, <3>2
  <2> QED
    BY <2>7 DEF CountInv
<1>13. NamesInv'
  BY <1>1, <1>6 DEF NamesInv
<1>14. MapsInv'
  <2>1. ASSUME NEW c \in Buffers
        PROVE  /\ buf'[c].id = None => buf'[c].slot = None
               /\ buf'[c].slot # None => table'[Home(c)][buf'[c].slot].key = buf'[c].id
    <3>1. CASE c = b
      BY <1>2, <1>3, <1>7, <1>9, <3>1
    <3>2. CASE c # b
      <4>1. Home(c) \in Users /\ buf[c].id \in Ids \cup {None} /\ buf[c].slot \in Slots \cup {None}
        BY <1>1, Apart DEF Types
      <4> QED
        BY <1>1, <1>7, <1>9, <3>2, <4>1 DEF MapsInv
    <3> QED
      BY <3>1, <3>2
  <2> QED
    BY <2>1 DEF MapsInv
<1>15. MarksInv'
  <2> SUFFICES ASSUME NEW i \in ids
               PROVE  /\ header'[i].read # None =>
                           LET c == header'[i].read
                           IN  c \in Plugs /\ buf'[c].id = i /\ c[3] = "read"
                      /\ header'[i].write # None =>
                           LET c == header'[i].write
                           IN  c \in Plugs /\ buf'[c].id = i /\ c[3] = "write"
    BY <1>6 DEF MarksInv
  <2>1. \A c \in Plugs : buf[c].id = i => buf'[c].id = i
    <3>1. i \in Ids /\ i # None /\ Plugs \subseteq Buffers
      BY <1>1, Apart DEF Types, Buffers
    <3> QED
      BY <1>8, <1>9, <3>1
  <2>2. CASE i # id
    BY <1>1, <1>11, <2>1, <2>2 DEF MarksInv, Types
  <2>3. CASE i = id
    BY <1>1, <1>2, <1>5, <1>9, <1>11, <2>1, <2>3 DEF MarksInv, MarkedFor
  <2> QED
    BY <2>2, <2>3
<1> QED
  BY <1>7, <1>10, <1>12, <1>13, <1>14, <1>15 DEF RingInv

\* The header h without a mark of b.
UnmarkedFor(unmarked, h, b) ==
    /\ unmarked \in Headers /\ unmarked.refcount = h.refcount
    /\ unmarked.read \in {h.read, None} \ {b}
    /\ unmarked.write \in {h.write, None} \ {b}

(* A detachment is counted, and leaves no mark.                            *)
LEMMA DetachInv ==
    ASSUME RingInv, NEW b \in Buffers, NEW unmarked, buf[b] # Detached,
           buf[b].id \in Ids => UnmarkedFor(unmarked, header[buf[b].id], b),
           Detach(b, unmarked)
    PROVE  RingInv'
<1>1. Types /\ CountInv /\ NamesInv /\ TableInv(table) /\ MapsInv /\ MarksInv
  BY DEF RingInv
<1>2. PICK id \in Ids : id = buf[b].id /\ id # None
  <2>1. buf[b] \in [id : Ids \cup {None}, slot : Slots \cup {None}]
    BY <1>1 DEF Types
  <2>2. buf[b].id # None
    BY <1>1, <2>1 DEF MapsInv, Detached
  <2> QED
    BY <2>1, <2>2
<1>3. b \in Attached(id) /\ id \in ids
  <2>1. b \in Attached(id)
    BY <1>2 DEF Attached
  <2> QED
    BY <1>1, <2>1 DEF CountInv
<1>4. /\ IsFiniteSet(Attached(id)) /\ header[id].refcount >= Cardinality(Attached(id))
      /\ Cardinality(Attached(id)) \in Nat /\ Cardinality(Attached(id)) # 0
      /\ header[id].refcount \in Nat
  <2>1. IsFiniteSet(Attached(id)) /\ header[id].refcount >= Cardinality(Attached(id))
        /\ header[id].refcount \in Nat
    BY <1>1 DEF CountInv, Types, Headers
  <2>2. Attached(id) # {}
    BY <1>3
  <2> QED
    BY <2>1, <2>2, FS_CardinalityType, FS_EmptySet
<1>5. PICK h \in Headers : /\ header' = [header EXCEPT ![id] = h]
                           /\ h.refcount = header[id].refcount - 1
                           /\ h.read = unmarked.read /\ h.write = unmarked.write
  <2>1. unmarked \in Headers /\ unmarked.refcount = header[id].refcount
    BY <1>2 DEF UnmarkedFor
  <2>2. [unmarked EXCEPT !.refcount = @ - 1] =
           [refcount |-> unmarked.refcount - 1, read |-> unmarked.read, write |-> unmarked.write]
    BY <2>1 DEF Headers
  <2>3. [unmarked EXCEPT !.refcount = @ - 1] \in Headers
    BY <1>4, <2>1, <2>2 DEF Headers
  <2> QED
    BY <1>2, <2>1, <2>2, <2>3 DEF Detach
<1>6. buf' = [buf EXCEPT ![b] = Detached] /\ ids' = ids /\ ring' = ring /\ table' = table
  BY DEF Detach
<1>7. /\ buf'[b].id = None /\ buf'[b].slot = None
      /\ \A c \in Buffers : c # b => buf'[c] = buf[c]
  BY <1>1, <1>6 DEF Types, Detached
<1>8. Types'
  BY <1>1, <1>5, <1>6 DEF Types, Detached
<1>9. header'[id] = h /\ \A i \in Ids : i # id => header'[i] = header[i]
  BY <1>1, <1>5 DEF Types
<1>10. CountInv'
  <2>1. Attached(id)' = Attached(id) \ {b}
    BY <1>2, <1>7 DEF Attached
  <2>2. \A i \in Ids : i # id => Attached(i)' = Attached(i)
    BY <1>2, <1>7, Apart DEF Attached
  <2>3. /\ IsFiniteSet(Attached(id)')
        /\ Cardinality(Attached(id)') = Cardinality(Attached(id)) - 1
    BY <1>3, <1>4, <2>1, FS_RemoveElement
  <2>4. header'[id].refcount >= Cardinality(Attached(id)')
    BY <1>4, <1>5, <1>9, <2>3
  <2>5. ASSUME NEW i \in Ids
        PROVE  (/\ IsFiniteSet(Attached(i))
                /\ header[i].refcount >= Cardinality(Attached(i))
                /\ Attached(i) # {} => i \in ids)'
    <3>1. CASE i = id
      BY <1>3, <1>6, <2>3, <2>4, <3>1
    <3>2. CASE i # id
      BY <1>1, <1>6, <1>9, <2>2, <3>2 DEF CountInv
    <3> QED
      BY <3>1, <3>2
  <2> QED
    BY <2>5 DEF CountInv
<1>11. NamesInv' /\ TableInv(table)'
  BY <1>1, <1>6 DEF NamesInv, TableInv
<1>12. MapsInv'
  BY <1>1, <1>6, <1>7 DEF MapsInv
<1>13. MarksInv'
  <2> SUFFICES ASSUME NEW i \in ids
               PROVE  /\ header'[i].read # None =>
                           LET c == header'[i].read
                           IN  c \in Plugs /\ buf'[c].id = i /\ c[3] = "read"
                      /\ header'[i].write # None =>
                           LET c == header'[i].write
                           IN  c \in Plugs /\ buf'[c].id = i /\ c[3] = "write"
    BY <1>6 DEF MarksInv
  <2>1. \A c \in Plugs : c # b /\ buf[c].id = i => buf'[c].id = i
    BY <1>7 DEF Buffers
  <2>2. CASE i # id
    BY <1>1, <1>2, <1>9, <2>1, <2>2 DEF MarksInv, Types
  <2>3. CASE i = id
    BY <1>1, <1>2, <1>5, <1>9, <2>1, <2>3 DEF MarksInv, UnmarkedFor
  <2> QED
    BY <2>2, <2>3
<1> QED
  BY <1>8, <1>10, <1>11, <1>12, <1>13 DEF RingInv

(* A process that dies stays counted in the header, and leaves no slot.    *)
LEMMA DieInv ==
    ASSUME RingInv, NEW p \in Procs, Die(p)
    PROVE  RingInv'
<1>1. Types /\ CountInv /\ NamesInv /\ TableInv(table) /\ MapsInv /\ MarksInv
  BY DEF RingInv
<1>2. /\ table' = [table EXCEPT ![p] = [s \in Slots |-> Free]]
      /\ buf' = [buf EXCEPT ![p] = Detached]
      /\ ids' = ids /\ ring' = ring /\ header' = header
  BY DEF Die
<1>3. p \in Users /\ p \in Buffers /\ p \notin Plugs
  BY Apart DEF Users, Buffers
<1>4. /\ buf'[p].id = None /\ buf'[p].slot = None
      /\ \A c \in Buffers : c # p => buf'[c] = buf[c]
  BY <1>1, <1>2, <1>3 DEF Types, Detached
<1>5. /\ \A s \in Slots : table'[p][s] = Free
      /\ \A q \in Users : q # p => table'[q] = table[q]
  BY <1>1, <1>2, <1>3 DEF Types, Tables
<1>6. TableInv(table')
  <2>1. table' \in Tables
    BY <1>1, <1>2 DEF TableInv, Tables, Free
  <2>2. Free.key = None /\ Free.count = 0
    BY DEF Free
  <2> QED
    BY <1>1, <1>5, <2>1, <2>2 DEF TableInv
<1>7. Types'
  BY <1>1, <1>2, <1>6 DEF Types, TableInv, Detached
<1>8. CountInv'
  <2> SUFFICES ASSUME NEW i \in Ids
               PROVE  (/\ IsFiniteSet(Attached(i))
                       /\ header[i].refcount >= Cardinality(Attached(i))
                       /\ Attached(i) # {} => i \in ids)'
    BY DEF CountInv
  <2>1. Attached(i)' = Attached(i) \ {p}
    BY <1>4, Apart DEF Attached
  <2>2. /\ IsFiniteSet(Attached(i)) /\ header[i].refcount >= Cardinality(Attached(i))
        /\ header[i].refcount \in Nat
        /\ Attached(i) # {} => i \in ids
    BY <1>1 DEF CountInv, Types, Headers
  <2>3. /\ IsFiniteSet(Attached(i) \ {p}) /\ Cardinality(Attached(i)) \in Nat
        /\ Cardinality(Attached(i) \ {p}) \in Nat
        /\ Cardinality(Attached(i) \ {p}) <= Cardinality(Attached(i))
    <3>1. IsFiniteSet(Attached(i) \ {p})
          /\ Cardinality(Attached(i) \ {p}) <= Cardinality(Attached(i))
      BY <2>2, FS_Subset
    <3> QED
      BY <2>2, <3>1, FS_CardinalityType
  <2>4. header[i].refcount >= Cardinality(Attached(i) \ {p})
    BY <2>2, <2>3
  <2> QED
    BY <1>2, <2>1, <2>2, <2>3, <2>4
<1>9. NamesInv'
  BY <1>1, <1>2 DEF NamesInv
<1>10. MapsInv'
  <2> SUFFICES ASSUME NEW c \in Buffers
               PROVE  /\ buf'[c].id = None => buf'[c].slot = None
                      /\ buf'[c].slot # None => table'[Home(c)][buf'[c].slot].key = buf'[c].id
    BY DEF MapsInv
  <2>1. CASE c = p
    BY <1>4, <2>1
  <2>2. CASE c # p
    <3>1. Home(c) # p /\ Home(c) \in Users
      BY <2>2, Apart DEF Home
    <3> QED
      BY <1>1, <1>4, <1>5, <2>2, <3>1 DEF MapsInv
  <2> QED
    BY <2>1, <2>2
<1>11. MarksInv'
  <2>1. \A c \in Plugs : buf'[c] = buf[c]
    BY <1>3, <1>4 DEF Buffers
  <2> QED
    BY <1>1, <1>2, <2>1 DEF MarksInv
<1> QED
  BY <1>6, <1>7, <1>8, <1>9, <1>10, <1>11 DEF RingInv

(* Only the table changes, and what is attached finds its slots as before. *)
LEMMA TableOnly ==
    ASSUME RingInv, ids' = ids, ring' = ring, header' = header, buf' = buf, TableInv(table'),
           \A q \in Users, s \in Slots : table[q][s].key \in Ids =>
              table'[q][s].key = table[q][s].key
    PROVE  RingInv'
<1>1. Types /\ CountInv /\ NamesInv /\ TableInv(table) /\ MapsInv /\ MarksInv
  BY DEF RingInv
<1>2. Types' /\ NamesInv' /\ MarksInv'
  BY <1>1 DEF Types, NamesInv, MarksInv, TableInv
<1>3. CountInv'
  BY <1>1, AttachedSame DEF CountInv
<1>4. MapsInv'
  <2>1. \A b \in Buffers : buf[b].id \in Ids \cup {None} /\ buf[b].slot \in Slots \cup {None}
    BY <1>1 DEF Types
  <2>2. ASSUME NEW b \in Buffers, buf[b].slot # None
        PROVE  table'[Home(b)][buf[b].slot].key = buf[b].id
    BY <1>1, <2>1, <2>2, Apart DEF MapsInv
  <2> QED
    BY <1>1, <2>2 DEF MapsInv
<1> QED
  BY <1>2, <1>3, <1>4 DEF RingInv

(* Another user of the table takes no slot that maps a ring, and leaves    *)
(* none.                                                                   *)
LEMMA OtherInv ==
    ASSUME RingInv, NEW p \in Users, NEW k \in OtherKeys, OtherNew(p, k) \/ OtherDelete(p, k)
    PROVE  RingInv'
<1>1. TableInv(table) /\ k \in Keys /\ k \notin Ids /\ k # None /\ None \notin Ids
  BY Apart DEF RingInv, Keys
<1>2. ids' = ids /\ ring' = ring /\ header' = header /\ buf' = buf
  BY DEF OtherNew, OtherDelete
<1>3. CASE OtherNew(p, k)
  <2>1. ~NoSlot(p, k) /\ table' = rtapi_shmem_new(p, k)
    BY <1>3 DEF OtherNew
  <2>2. /\ TableInv(table')
        /\ \A q \in Users, s \in Slots : table[q][s].key # None =>
              table'[q][s].key = table[q][s].key
    BY <1>1, <2>1, ShmemNew
  <2> QED
    BY <1>1, <1>2, <2>2, TableOnly
<1>4. CASE OtherDelete(p, k)
  <2>1. PICK z \in Slots : table[p][z].key = k /\ table' = rtapi_shmem_delete(table, p, z)
    BY <1>4 DEF OtherDelete
  <2>2. table \in Tables
    BY <1>1 DEF TableInv
  <2>3. PICK c \in Nat : c = table[p][z].count /\ c # 0 /\ table[p][z] = [key |-> k, count |-> c]
    BY <1>1, <2>1, <2>2 DEF TableInv, Tables
  <2>4. PICK e : e = IF c = 1 THEN Free ELSE [key |-> k, count |-> c - 1]
    OBVIOUS
  <2>5. table' = [table EXCEPT ![p][z] = e]
    <3>1. PICK E : table \in [Users -> [Slots -> E]]
      BY <2>2 DEF Tables
    <3>2. table[p][z].count = c /\ table[p][z].key = k
      BY <2>1, <2>3
    <3> QED
      BY <2>1, <2>4, <3>1, <3>2 DEF rtapi_shmem_delete
  <2>6. /\ e \in [key : Keys \cup {None}, count : Nat]
        /\ e.key = None <=> e.count = 0
    BY <1>1, <2>3, <2>4 DEF Free
  <2>7. table' \in Tables
    BY <2>2, <2>5, <2>6 DEF Tables
  <2>8. table'[p][z] = e /\ \A q \in Users, s \in Slots : q # p \/ s # z => table'[q][s] = table[q][s]
    BY <2>2, <2>5 DEF Tables
  <2>9. TableInv(table')
    BY <1>1, <2>6, <2>7, <2>8 DEF TableInv
  <2>10. \A q \in Users, s \in Slots : table[q][s].key \in Ids => table'[q][s].key = table[q][s].key
    BY <1>1, <2>1, <2>8
  <2> QED
    BY <1>2, <2>9, <2>10, TableOnly
<1> QED
  BY <1>3, <1>4

(* The mark that a plug sets and clears is its own.                        *)
LEMMA Marking ==
    ASSUME NEW h \in Headers, NEW b \in Plugs
    PROVE  MarkedFor(Mark(h, b), h, b) /\ UnmarkedFor(Unmark(h, b), h, b)
<1>1. b[3] = "read" \/ b[3] = "write"
  BY DEF Plugs, Roles
<1>2. h = [refcount |-> h.refcount, read |-> h.read, write |-> h.write] /\ h.refcount \in Nat
      /\ h.read \in Plugs \cup {None} /\ h.write \in Plugs \cup {None} /\ b # None
  BY Apart DEF Headers
<1>3. MarkedFor(Mark(h, b), h, b)
  <2>1. Mark(h, b) = [refcount |-> h.refcount,
                      read |-> IF b[3] = "write" THEN h.read ELSE b,
                      write |-> IF b[3] = "write" THEN b ELSE h.write]
    BY <1>2 DEF Mark
  <2> QED
    BY <1>1, <1>2, <2>1 DEF MarkedFor, Headers
<1>4. UnmarkedFor(Unmark(h, b), h, b)
  <2>1. PICK x, y \in Plugs \cup {None} : /\ x = IF h.read = b THEN None ELSE h.read
                                          /\ y = IF h.write = b THEN None ELSE h.write
    BY <1>2
  <2>2. PICK u : u = [h EXCEPT !.write = y, !.read = x]
    OBVIOUS
  <2>3. u \in Headers /\ u.refcount = h.refcount /\ u.read = x /\ u.write = y
    BY <2>2 DEF Headers
  <2>4. Unmark(h, b) = u
    BY <1>2, <2>1, <2>2 DEF Unmark
  <2> QED
    BY <1>2, <2>1, <2>3, <2>4 DEF UnmarkedFor
<1> QED
  BY <1>3, <1>4

(* At the start there is nothing.                                          *)
LEMMA RingInit == Init => RingInv
<1> SUFFICES ASSUME Init
             PROVE  RingInv
  OBVIOUS
<1>1. \A i \in Ids : Attached(i) = {}
  BY Apart DEF Init, Attached, Detached
<1>2. Types
  BY DEF Init, Types, Tables, Users, Free, Headers, FreshHeader, Detached
<1>3. CountInv
  <2>1. \A i \in Ids : header[i].refcount = 0
    BY DEF Init, FreshHeader
  <2> QED
    BY <1>1, <2>1, FS_EmptySet DEF CountInv
<1>4. NamesInv /\ MapsInv /\ MarksInv
  BY DEF Init, NamesInv, MapsInv, MarksInv, Detached
<1>5. TableInv(table)
  <2>1. Free.key = None /\ Free.count = 0
    BY DEF Free
  <2>2. \A p \in Users, s \in Slots : table[p][s] = Free
    BY DEF Init, Users
  <2> QED
    BY <1>2, <2>1, <2>2 DEF TableInv, Types
<1> QED
  BY <1>2, <1>3, <1>4, <1>5 DEF RingInv

(* Every step keeps the invariant.                                         *)
LEMMA RingStep ==
    ASSUME RingInv, [Next]_vars
    PROVE  RingInv'
<1>1. ASSUME NEW p \in Users, NEW n \in Names, halg_ring_new(p, n)
      PROVE  RingInv'
  BY <1>1, CreateRingInv, RingExistsInv DEF halg_ring_new
<1>2. ASSUME NEW p \in Users, NEW n \in Names, halg_ring_delete(p, n)
      PROVE  RingInv'
  BY <1>2, RingDeleteInv
<1>3. ASSUME NEW i \in Ids
      PROVE  header[i] \in Headers
  BY DEF RingInv, Types
<1>4. ASSUME NEW n \in Names, ring[n] # None
      PROVE  ring[n] \in Ids
  BY <1>4 DEF RingInv, Types
<1>5. ASSUME NEW p \in Procs, NEW h \in Headers
      PROVE  MarkedFor(h, h, p) /\ UnmarkedFor(h, h, p)
  BY Apart DEF MarkedFor, UnmarkedFor, Headers
<1>6. ASSUME NEW p \in Procs, NEW n \in Names, halg_ring_attach(p, n)
      PROVE  RingInv'
  <2>1. p \in Buffers /\ ring[n] # None /\ MarkedFor(header[ring[n]], header[ring[n]], p)
    BY <1>3, <1>4, <1>5, <1>6 DEF halg_ring_attach, Buffers
  <2>2. Attach(p, n, header[ring[n]])
    BY <1>6 DEF halg_ring_attach
  <2> QED
    BY <2>1, <2>2, AttachInv
<1>7. ASSUME NEW p \in Procs, halg_ring_detach(p)
      PROVE  RingInv'
  <2>1. /\ p \in Buffers /\ buf[p] # Detached
        /\ buf[p].id \in Ids => UnmarkedFor(header[buf[p].id], header[buf[p].id], p)
    <3>1. p \in Buffers /\ buf[p] # Detached
      BY <1>7 DEF halg_ring_detach, Detach, Buffers
    <3> QED
      BY <1>3, <1>5, <3>1
  <2>2. Detach(p, header[buf[p].id])
    BY <1>7 DEF halg_ring_detach
  <2> QED
    BY <2>1, <2>2, DetachInv
<1>8. ASSUME NEW p \in Procs, Die(p)
      PROVE  RingInv'
  BY <1>8, DieInv
<1>9. ASSUME NEW b \in Plugs, halg_plug_new(b)
      PROVE  RingInv'
  <2>1. b \in Buffers /\ b[1] \in Names /\ ring[b[1]] # None
    BY <1>9 DEF halg_plug_new, Buffers, Plugs
  <2>2. MarkedFor(Mark(header[ring[b[1]]], b), header[ring[b[1]]], b)
    BY <1>3, <1>4, <2>1, Marking
  <2> QED
    BY <1>9, <2>1, <2>2, AttachInv DEF halg_plug_new
<1>10. ASSUME NEW b \in Plugs, halg_plug_delete(b)
       PROVE  RingInv'
  <2>1. /\ b \in Buffers /\ buf[b] # Detached
        /\ buf[b].id \in Ids => UnmarkedFor(Unmark(header[buf[b].id], b), header[buf[b].id], b)
    BY <1>3, <1>10, Marking DEF halg_plug_delete, Buffers
  <2> QED
    BY <1>10, <2>1, DetachInv DEF halg_plug_delete
<1>11. CASE UNCHANGED vars
  <2>1. ids' = ids /\ ring' = ring /\ header' = header /\ table' = table /\ buf' = buf
    BY <1>11 DEF vars
  <2>2. CountInv'
    BY <2>1, AttachedSame DEF RingInv, CountInv
  <2>3. Types' /\ NamesInv' /\ TableInv(table)' /\ MapsInv' /\ MarksInv'
    BY <2>1 DEF RingInv, Types, NamesInv, TableInv, MapsInv, MarksInv
  <2> QED
    BY <2>2, <2>3 DEF RingInv
<1>12. ASSUME NEW p \in Users, NEW k \in OtherKeys, OtherNew(p, k) \/ OtherDelete(p, k)
       PROVE  RingInv'
  BY <1>12, OtherInv
<1> QED
  BY <1>1, <1>2, <1>6, <1>7, <1>8, <1>9, <1>10, <1>11, <1>12 DEF Next, Users
-----------------------------------------------------------------------------
(* The theorems.                                                           *)

(* The invariant holds in every state.                                     *)
LEMMA RingInvariant == Spec => []RingInv
<1>1. Init => RingInv
  BY RingInit
<1>2. RingInv /\ [Next]_vars => RingInv'
  BY RingStep
<1> QED
  BY <1>1, <1>2, PTL DEF Spec

(* An attached ring is kept, for any number of processes, names, owners,   *)
(* ids and slots: its id is not handed out again by halg_ring_new(), its   *)
(* count covers its users, and the slot each user got still maps it.       *)
THEOREM RingAttachedKept == Spec => []AttachedKept
<1>1. RingInv => AttachedKept
  <2> SUFFICES ASSUME RingInv
               PROVE  AttachedKept
    OBVIOUS
  <2>1. \A i \in Ids : Attached(i) # {} =>
           i \in ids /\ header[i].refcount >= Cardinality(Attached(i))
    BY DEF RingInv, CountInv
  <2>2. \A b \in Buffers : buf[b].slot # None => table[Home(b)][buf[b].slot].key = buf[b].id
    BY DEF RingInv, MapsInv
  <2>3. \A n \in Names : ring[n] # None =>
           ring[n] \in ids /\ \A m \in Names : ring[m] = ring[n] => m = n
    BY DEF RingInv, NamesInv
  <2> QED
    BY <2>1, <2>2, <2>3 DEF AttachedKept
<1> QED
  BY <1>1, RingInvariant, PTL

(* The reader and the writer that a header names are plugs that exist, are *)
(* attached to this ring and have this role (halg_plug_new(),              *)
(* halg_plug_delete()).                                                    *)
THEOREM RingMarksRight == Spec => []MarksRight
<1>1. RingInv => MarksRight
  <2> SUFFICES ASSUME RingInv, NEW i \in ids, NEW role \in Roles, header[i][role] # None
               PROVE  buf[header[i][role]].id = i /\ header[i][role][3] = role
    BY DEF MarksRight
  <2>1. CASE role = "read"
    BY <2>1 DEF RingInv, MarksInv
  <2>2. CASE role = "write"
    BY <2>2 DEF RingInv, MarksInv
  <2> QED
    BY <2>1, <2>2 DEF Roles
<1> QED
  BY <1>1, RingInvariant, PTL
=============================================================================

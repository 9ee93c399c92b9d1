---------------------------- MODULE HalTalkProofs ----------------------------
(***************************************************************************)
(* Theorems about HalObject and HalTalk, for any descriptors, names and    *)
(* processes, and any number of starts that the reference count can hold:  *)
(* owners are valid, members hold their signals, and what haltalk serves   *)
(* is kept, whatever other processes do.                                   *)
(***************************************************************************)
EXTENDS HalTalk, FiniteSetTheorems, TLAPS

\* An object as hal_object.h declares it.
Header == [type : Types \cup {"unused"}, name : Names \cup {None}, owner : Desc \cup {None},
           refcnt : 0 .. MaxRefs, valid : BOOLEAN, state : States \cup {"none"},
           pid : Pids \cup {None}, sig : Desc \cup {None}]

\* The types of objects that have an owner.
Owners == {"pin", "funct", "inst", "member"}

\* An object of a type and name is there once.
UniqueInv(m) ==
    \A d, e \in Desc : m[d].valid /\ m[e].valid /\ m[d].type = m[e].type /\ m[d].name = m[e].name
                          => d = e

\* Owners are valid and of the right type; only realtime components have instances.
OwnerInv(m) ==
    \A d \in Desc : m[d].valid /\ m[d].type \in Owners =>
        /\ m[d].owner \in Desc /\ m[m[d].owner].valid
        /\ m[m[d].owner].type \in OwnerTypes(m[d].type)
        /\ m[d].type = "inst" => m[m[d].owner].name \in RtComps

\* Nothing refers to an object with an owner; the process that has acquired a remote
\* component refers to it, and nothing else does.
RefInv(m) ==
    \A d \in Desc : m[d].valid =>
        /\ m[d].type \in Owners => m[d].refcnt = 0
        /\ m[d].type = "comp" => /\ m[d].refcnt = IF m[d].pid = None THEN 0 ELSE 1
                                 /\ m[d].pid # None => m[d].name \in RemoteComps
        /\ m[d].type = "group" => m[d].name \in Groups
        /\ m[d].type # "unused"

\* The signal of a member is valid, has its name, and is referenced.
SigInv(m) ==
    \A d \in Desc : m[d].valid /\ m[d].type = "member" =>
        /\ m[d].sig \in Desc /\ m[m[d].sig].valid /\ m[m[d].sig].type = "signal"
        /\ m[m[d].sig].name = m[d].name /\ m[m[d].sig].refcnt # 0

ObjInv(m) == m \in [Desc -> Header] /\ UniqueInv(m) /\ OwnerInv(m) /\ RefInv(m) /\ SigInv(m)

\* While a destructor runs, its instance is valid and has no functs.
RtInv(m, r) ==
    /\ r \in [call : {"none", "delinst", "exit"}, comp : Desc \cup {None}, inst : Desc \cup {None}]
    /\ r # NoCall => /\ r.inst \in Desc /\ m[r.inst].valid /\ m[r.inst].type = "inst"
                     /\ m[r.inst].owner = r.comp
                     /\ \A d \in Desc : m[d].valid /\ m[d].type = "funct" => m[d].owner # r.inst

\* The starts of haltalk that are over.
Past == HtPids \ (unborn \cup {self})

\* The component in descriptor h is a remote one, if it is still there.
CompAt(m, h) == h \in Desc /\ (IsComp(m, h) => m[h].name \in RemoteComps)

\* There is a component nm, and process s holds it.
HeldAt(m, nm, s) == \E d \in Desc : IsComp(m, d) /\ m[d].name = nm /\ m[d].pid = s

\* Where haltalk is, and the component it creates.
PlaceInv ==
    /\ self = None <=> pc \in {"down", "dead"}
    /\ self \notin unborn
    /\ self = None => /\ \A c \in RemoteComps : rcomps[c] = NoRcomp
                      /\ \A g \in Groups : groups[g] = NoGroup
    /\ pc \in {"release", "bind", "xinit", "pins", "acquire", "compile", "undo", "subscribe"}
          => req \in RemoteComps
    /\ pc = "release" => rcomps[req] # NoRcomp
    /\ pc \in {"pins", "acquire", "compile", "undo"} => CompAt(mem, comp)
    /\ pc = "compile" => HeldAt(mem, req, self)

\* The components that process s serves are acquired by it, and have their pins.
RcompsInv(m, s, rc) ==
    \A c \in RemoteComps : rc[c] # NoRcomp =>
        /\ rc[c].comp \in Desc /\ IsRemote(m, rc[c].comp)
        /\ m[rc[c].comp].name = c /\ m[rc[c].comp].pid = s
        /\ rc[c].pins \subseteq Owned(m, "pin", rc[c].comp)

\* The groups that are served are referenced; they have their members, unless members
\* are deleted in the name of another group.
GroupsInv(m, gr) ==
    \A n \in Groups : gr[n] # NoGroup =>
        /\ gr[n].group \in Desc /\ m[gr[n].group].valid /\ m[gr[n].group].type = "group"
        /\ m[gr[n].group].name = n /\ m[gr[n].group].refcnt # 0
        /\ ~DeleteThroughOther => gr[n].members \subseteq Owned(m, "member", gr[n].group)

ServedInv == RcompsInv(mem, self, rcomps) /\ GroupsInv(mem, groups)

\* A group has at most a reference of each of the past starts, and one if it is served.
CountInv(m, past, gr) ==
    \A g \in Desc : m[g].valid /\ m[g].type = "group" =>
        m[g].refcnt <= past + (IF gr[m[g].name] = NoGroup THEN 0 ELSE 1)

GroupRefInv == CountInv(mem, Cardinality(Past), groups)

TalkInv ==
    /\ TalkTypeOK /\ ObjInv(mem) /\ RtInv(mem, rt)
    /\ PlaceInv /\ ServedInv /\ GroupRefInv
-----------------------------------------------------------------------------
(* Objects.                                                                *)

(* What owns an object of a type.                                          *)
LEMMA OwnerTypesAre ==
    /\ OwnerTypes("pin") = {"comp", "inst"} /\ OwnerTypes("funct") = {"comp", "inst"}
    /\ OwnerTypes("inst") = {"comp"} /\ OwnerTypes("member") = {"group"}
    /\ OwnerTypes("comp") = {} /\ OwnerTypes("signal") = {} /\ OwnerTypes("group") = {}
    /\ OwnerTypes("unused") = {}
BY DEF OwnerTypes

(* The fields of a header have their types.                                *)
LEMMA HeaderFields ==
    ASSUME NEW o \in Header
    PROVE  /\ o.type \in Types \cup {"unused"} /\ o.name \in Names \cup {None}
           /\ o.owner \in Desc \cup {None} /\ o.refcnt \in 0 .. MaxRefs /\ o.valid \in BOOLEAN
           /\ o.state \in States \cup {"none"} /\ o.pid \in Pids \cup {None}
           /\ o.sig \in Desc \cup {None}
BY DEF Header

(* The bounds of a count.                                                  *)
LEMMA Counts == MaxRefs \in Nat /\ 1 <= MaxRefs /\ MaxRefs <= 63 /\ None \notin Desc /\ None \notin Pids
BY ObjectAssumption, TalkAssumption

(* Within its bounds the count of 7 bits is exact.                         *)
LEMMA WidthExact ==
    ASSUME NEW k \in 0 .. MaxRefs
    PROVE  /\ k < MaxRefs => Width7(k + 1) = k + 1 /\ k + 1 \in 0 .. MaxRefs
           /\ k # 0 => Width7(k - 1) = k - 1 /\ k - 1 \in 0 .. MaxRefs
<1>1. k \in Nat /\ k <= 63
  BY Counts
<1>2. k < MaxRefs => Width7(k + 1) = k + 1
  BY <1>1, Counts DEF Width7
<1>3. k # 0 => Width7(k - 1) = k - 1
  BY <1>1 DEF Width7
<1> QED
  BY <1>1, <1>2, <1>3, Counts

(* A new object.                                                           *)
LEMMA ObjectIs ==
    ASSUME NEW t \in Types, NEW nm \in Names \cup {None}, NEW ow \in Desc \cup {None}
    PROVE  /\ Object(t, nm, ow) \in Header
           /\ Object(t, nm, ow).type = t /\ Object(t, nm, ow).name = nm
           /\ Object(t, nm, ow).owner = ow /\ Object(t, nm, ow).refcnt = 0
           /\ Object(t, nm, ow).valid /\ Object(t, nm, ow).pid = None
           /\ Object(t, nm, ow).state = "none" /\ Object(t, nm, ow).sig = None
<1>1. 0 \in 0 .. MaxRefs
  BY Counts
<1> QED
  BY <1>1 DEF Object, Unused, Header

(* An unused descriptor is a header.                                       *)
LEMMA UnusedIs == Unused \in Header /\ Unused.valid = FALSE
<1>1. 0 \in 0 .. MaxRefs
  BY Counts
<1> QED
  BY <1>1 DEF Unused, Header

(* Only the count changes.                                                 *)
LEMMA CountChanges ==
    ASSUME NEW o \in Header
    PROVE  /\ o.refcnt < MaxRefs =>
                 /\ ho_incref(o) \in Header /\ ho_incref(o).refcnt = o.refcnt + 1
                 /\ ho_incref(o).type = o.type /\ ho_incref(o).name = o.name
                 /\ ho_incref(o).owner = o.owner /\ ho_incref(o).valid = o.valid
                 /\ ho_incref(o).pid = o.pid /\ ho_incref(o).sig = o.sig
           /\ o.refcnt # 0 =>
                 /\ ho_decref(o) \in Header /\ ho_decref(o).refcnt = o.refcnt - 1
                 /\ ho_decref(o).type = o.type /\ ho_decref(o).name = o.name
                 /\ ho_decref(o).owner = o.owner /\ ho_decref(o).valid = o.valid
                 /\ ho_decref(o).pid = o.pid /\ ho_decref(o).sig = o.sig
<1>1. PICK k \in 0 .. MaxRefs : k = o.refcnt
  BY HeaderFields
<1>2. ASSUME k < MaxRefs
      PROVE  ho_incref(o) = [o EXCEPT !.refcnt = k + 1] /\ k + 1 \in 0 .. MaxRefs
  BY <1>1, <1>2, WidthExact DEF ho_incref
<1>3. ASSUME k # 0
      PROVE  ho_decref(o) = [o EXCEPT !.refcnt = k - 1] /\ k - 1 \in 0 .. MaxRefs
  BY <1>1, <1>3, WidthExact DEF ho_decref
<1>4. ASSUME NEW j \in 0 .. MaxRefs, NEW q, q = [o EXCEPT !.refcnt = j]
      PROVE  /\ q \in Header /\ q.refcnt = j /\ q.type = o.type /\ q.name = o.name
             /\ q.owner = o.owner /\ q.valid = o.valid /\ q.pid = o.pid /\ q.sig = o.sig
  BY <1>4 DEF Header
<1>5. ASSUME k < MaxRefs
      PROVE  /\ ho_incref(o) \in Header /\ ho_incref(o).refcnt = k + 1
             /\ ho_incref(o).type = o.type /\ ho_incref(o).name = o.name
             /\ ho_incref(o).owner = o.owner /\ ho_incref(o).valid = o.valid
             /\ ho_incref(o).pid = o.pid /\ ho_incref(o).sig = o.sig
  BY <1>2, <1>4, <1>5
<1>6. ASSUME k # 0
      PROVE  /\ ho_decref(o) \in Header /\ ho_decref(o).refcnt = k - 1
             /\ ho_decref(o).type = o.type /\ ho_decref(o).name = o.name
             /\ ho_decref(o).owner = o.owner /\ ho_decref(o).valid = o.valid
             /\ ho_decref(o).pid = o.pid /\ ho_decref(o).sig = o.sig
  BY <1>3, <1>4, <1>6
<1> QED
  BY <1>1, <1>5, <1>6

\* f is m with ds freed, up to objects that are not valid anyway.
Freed(m, f, ds) ==
    /\ f \in [Desc -> Header]
    /\ \A d \in Desc : IF d \in ds /\ m[d].refcnt = 0 THEN ~f[d].valid
                       ELSE f[d] = m[d] \/ (~f[d].valid /\ ~m[d].valid)

(* halg_free_object() frees the objects that nothing refers to.            *)
LEMMA FreeIs ==
    ASSUME NEW m \in [Desc -> Header], NEW ds
    PROVE  Freed(m, halg_free_object(m, ds), ds)
<1>1. \A o \in Header : /\ [o EXCEPT !.owner = None, !.valid = FALSE] \in Header
                        /\ [o EXCEPT !.owner = None, !.valid = FALSE].valid = FALSE
  BY DEF Header
<1>2. PICK f : f = halg_free_object(m, ds)
  OBVIOUS
<1>3. \A d \in Desc : m[d] \in Header
  OBVIOUS
<1>4. \A d \in Desc : f[d] = IF d \in ds /\ m[d].refcnt = 0
                             THEN [m[d] EXCEPT !.owner = None, !.valid = FALSE] ELSE m[d]
  BY <1>2 DEF halg_free_object
<1>5. \A d \in Desc : f[d] \in Header
  BY <1>1, <1>3, <1>4
<1>6. f \in [Desc -> Header]
  BY <1>2, <1>5 DEF halg_free_object
<1>7. \A d \in Desc : IF d \in ds /\ m[d].refcnt = 0 THEN ~f[d].valid ELSE f[d] = m[d]
  BY <1>1, <1>3, <1>4
<1> QED
  BY <1>2, <1>6, <1>7 DEF Freed

\* What is owned by an object of ds is in ds.
Closed(m, ds) ==
    \A d, e \in Desc :
        d \in ds /\ m[d].refcnt = 0 /\ m[e].valid /\ m[e].type \in Owners /\ m[e].owner = d
            => e \in ds

(* Freeing objects together with what they own keeps the objects in order. *)
LEMMA FreeKeeps ==
    ASSUME NEW m, NEW f, NEW ds, ObjInv(m), Freed(m, f, ds), Closed(m, ds)
    PROVE  ObjInv(f)
<1>1. f \in [Desc -> Header] /\ m \in [Desc -> Header]
  BY DEF Freed, ObjInv
<1>2. \A d \in Desc : f[d].valid => f[d] = m[d] /\ ~(d \in ds /\ m[d].refcnt = 0)
  BY DEF Freed
<1>3. UniqueInv(f)
  BY <1>2 DEF ObjInv, UniqueInv
<1>4. RefInv(f)
  BY <1>2 DEF ObjInv, RefInv
<1>5. SigInv(f)
  <2> SUFFICES ASSUME NEW d \in Desc, f[d].valid, f[d].type = "member"
               PROVE  /\ f[d].sig \in Desc /\ f[f[d].sig].valid /\ f[f[d].sig].type = "signal"
                      /\ f[f[d].sig].name = f[d].name /\ f[f[d].sig].refcnt # 0
    BY DEF SigInv
  <2>1. f[d] = m[d]
    BY <1>2
  <2>2. PICK s \in Desc : /\ s = m[d].sig /\ m[s].valid /\ m[s].type = "signal"
                          /\ m[s].name = m[d].name /\ m[s].refcnt # 0
    BY <2>1 DEF ObjInv, SigInv
  <2>3. f[s] = m[s]
    BY <2>2 DEF Freed
  <2> QED
    BY <2>1, <2>2, <2>3
<1>6. OwnerInv(f)
  <2> SUFFICES ASSUME NEW d \in Desc, f[d].valid, f[d].type \in Owners
               PROVE  /\ f[d].owner \in Desc /\ f[f[d].owner].valid
                      /\ f[f[d].owner].type \in OwnerTypes(f[d].type)
                      /\ f[d].type = "inst" => f[f[d].owner].name \in RtComps
    BY DEF OwnerInv
  <2>1. f[d] = m[d] /\ ~(d \in ds /\ m[d].refcnt = 0)
    BY <1>2
  <2>2. PICK o \in Desc : /\ o = m[d].owner /\ m[o].valid
                          /\ m[o].type \in OwnerTypes(m[d].type)
                          /\ m[d].type = "inst" => m[o].name \in RtComps
    BY <2>1 DEF ObjInv, OwnerInv
  <2>3. m[d].refcnt = 0
    BY <2>1 DEF ObjInv, RefInv
  <2>4. ~(o \in ds /\ m[o].refcnt = 0)
    BY <2>1, <2>2, <2>3 DEF Closed
  <2>5. f[o] = m[o]
    BY <2>2, <2>4 DEF Freed
  <2> QED
    BY <2>1, <2>2, <2>5
<1> QED
  BY <1>1, <1>3, <1>4, <1>5, <1>6 DEF ObjInv

\* The fields that freeing and creating set stay.
SameShape(m, f) ==
    \A d \in Desc : /\ f[d].type = m[d].type /\ f[d].name = m[d].name /\ f[d].owner = m[d].owner
                    /\ f[d].valid = m[d].valid /\ f[d].sig = m[d].sig

(* A change of counts and owners' pids keeps the objects in order, if it   *)
(* keeps the rules for them.                                               *)
LEMMA RetagKeeps ==
    ASSUME NEW m, NEW f \in [Desc -> Header], ObjInv(m), SameShape(m, f), RefInv(f),
           \A d \in Desc : m[d].valid /\ m[d].type = "member" => f[m[d].sig].refcnt # 0
    PROVE  ObjInv(f)
<1>1. UniqueInv(f)
  BY DEF ObjInv, UniqueInv, SameShape
<1>2. OwnerInv(f)
  <2> SUFFICES ASSUME NEW d \in Desc, f[d].valid, f[d].type \in Owners
               PROVE  /\ f[d].owner \in Desc /\ f[f[d].owner].valid
                      /\ f[f[d].owner].type \in OwnerTypes(f[d].type)
                      /\ f[d].type = "inst" => f[f[d].owner].name \in RtComps
    BY DEF OwnerInv
  <2>1. m[d].valid /\ m[d].type = f[d].type /\ m[d].owner = f[d].owner
    BY DEF SameShape
  <2>2. PICK o \in Desc : /\ o = m[d].owner /\ m[o].valid
                          /\ m[o].type \in OwnerTypes(m[d].type)
                          /\ m[d].type = "inst" => m[o].name \in RtComps
    BY <2>1 DEF ObjInv, OwnerInv
  <2>3. f[o].valid = m[o].valid /\ f[o].type = m[o].type /\ f[o].name = m[o].name
    BY DEF SameShape
  <2> QED
    BY <2>1, <2>2, <2>3
<1>3. SigInv(f)
  <2> SUFFICES ASSUME NEW d \in Desc, f[d].valid, f[d].type = "member"
               PROVE  /\ f[d].sig \in Desc /\ f[f[d].sig].valid /\ f[f[d].sig].type = "signal"
                      /\ f[f[d].sig].name = f[d].name /\ f[f[d].sig].refcnt # 0
    BY DEF SigInv
  <2>1. m[d].valid /\ m[d].type = "member" /\ m[d].sig = f[d].sig /\ m[d].name = f[d].name
    BY DEF SameShape
  <2>2. PICK s \in Desc : /\ s = m[d].sig /\ m[s].valid /\ m[s].type = "signal"
                          /\ m[s].name = m[d].name
    BY <2>1 DEF ObjInv, SigInv
  <2>3. f[s].valid = m[s].valid /\ f[s].type = m[s].type /\ f[s].name = m[s].name
    BY DEF SameShape
  <2> QED
    BY <2>1, <2>2, <2>3
<1> QED
  BY <1>1, <1>2, <1>3 DEF ObjInv

\* f is m with an object o in d.
Created(m, f, d, o) ==
    /\ f \in [Desc -> Header] /\ f[d] = o /\ ~m[d].valid
    /\ \A e \in Desc : e # d => f[e] = m[e]

\* The rules for a new object o.
MayCreate(m, o) ==
    /\ o.valid /\ o.type \in Types /\ o.refcnt = 0 /\ o.pid = None
    /\ \A e \in Desc : m[e].valid /\ m[e].type = o.type => m[e].name # o.name
    /\ o.type = "group" => o.name \in Groups
    /\ o.type \in Owners => /\ o.owner \in Desc /\ m[o.owner].valid
                            /\ m[o.owner].type \in OwnerTypes(o.type)
                            /\ o.type = "inst" => m[o.owner].name \in RtComps
    /\ o.type = "member" => /\ o.sig \in Desc /\ m[o.sig].valid /\ m[o.sig].type = "signal"
                            /\ m[o.sig].name = o.name /\ m[o.sig].refcnt # 0

(* A new object with a new name and a valid owner.                         *)
LEMMA NewKeeps ==
    ASSUME NEW m, NEW f, NEW d \in Desc, NEW o, ObjInv(m), Created(m, f, d, o), MayCreate(m, o)
    PROVE  ObjInv(f)
<1>1. /\ f \in [Desc -> Header] /\ f[d] = o /\ ~m[d].valid
      /\ \A e \in Desc : e # d => f[e] = m[e]
  BY DEF Created
<1>2. UniqueInv(f)
  <2> SUFFICES ASSUME NEW a \in Desc, NEW b \in Desc, f[a].valid, f[b].valid,
                      f[a].type = f[b].type, f[a].name = f[b].name
               PROVE  a = b
    BY DEF UniqueInv
  <2>1. CASE a # d /\ b # d
    BY <1>1, <2>1 DEF ObjInv, UniqueInv
  <2>2. CASE a = d /\ b # d
    BY <1>1, <2>2 DEF MayCreate
  <2>3. CASE a # d /\ b = d
    BY <1>1, <2>3 DEF MayCreate
  <2> QED
    BY <2>1, <2>2, <2>3
<1>3. RefInv(f)
  <2> SUFFICES ASSUME NEW a \in Desc, f[a].valid
               PROVE  /\ f[a].type \in Owners => f[a].refcnt = 0
                      /\ f[a].type = "comp" => /\ f[a].refcnt = IF f[a].pid = None THEN 0 ELSE 1
                                               /\ f[a].pid # None => f[a].name \in RemoteComps
                      /\ f[a].type = "group" => f[a].name \in Groups
                      /\ f[a].type # "unused"
    BY DEF RefInv
  <2>1. CASE a # d
    BY <1>1, <2>1 DEF ObjInv, RefInv
  <2>2. CASE a = d
    BY <1>1, <2>2 DEF MayCreate, Types
  <2> QED
    BY <2>1, <2>2
<1>4. OwnerInv(f)
  <2> SUFFICES ASSUME NEW a \in Desc, f[a].valid, f[a].type \in Owners
               PROVE  /\ f[a].owner \in Desc /\ f[f[a].owner].valid
                      /\ f[f[a].owner].type \in OwnerTypes(f[a].type)
                      /\ f[a].type = "inst" => f[f[a].owner].name \in RtComps
    BY DEF OwnerInv
  <2>1. PICK p \in Desc : /\ p = f[a].owner /\ m[p].valid
                          /\ m[p].type \in OwnerTypes(f[a].type)
                          /\ f[a].type = "inst" => m[p].name \in RtComps
    <3>1. CASE a # d
      BY <1>1, <3>1 DEF ObjInv, OwnerInv
    <3>2. CASE a = d
      BY <1>1, <3>2 DEF MayCreate
    <3> QED
      BY <3>1, <3>2
  <2>2. f[p] = m[p]
    BY <1>1, <2>1
  <2> QED
    BY <2>1, <2>2
<1>5. SigInv(f)
  <2> SUFFICES ASSUME NEW a \in Desc, f[a].valid, f[a].type = "member"
               PROVE  /\ f[a].sig \in Desc /\ f[f[a].sig].valid /\ f[f[a].sig].type = "signal"
                      /\ f[f[a].sig].name = f[a].name /\ f[f[a].sig].refcnt # 0
    BY DEF SigInv
  <2>1. PICK s \in Desc : /\ s = f[a].sig /\ m[s].valid /\ m[s].type = "signal"
                          /\ m[s].name = f[a].name /\ m[s].refcnt # 0
    <3>1. CASE a # d
      BY <1>1, <3>1 DEF ObjInv, SigInv
    <3>2. CASE a = d
      BY <1>1, <3>2 DEF MayCreate
    <3> QED
      BY <3>1, <3>2
  <2>2. f[s] = m[s]
    BY <1>1, <2>1
  <2> QED
    BY <2>1, <2>2
<1> QED
  BY <1>1, <1>2, <1>3, <1>4, <1>5 DEF ObjInv
-----------------------------------------------------------------------------
(* What haltalk relies on.                                                 *)

\* Between m and f nobody has taken from haltalk what it has acquired or referenced,
\* nor referenced a group, nor made another component in descriptor h.
Keeps(m, f, h) ==
    /\ \A d \in Desc : IsRemote(m, d) /\ m[d].pid \in HtPids =>
          /\ IsRemote(f, d) /\ f[d].name = m[d].name /\ f[d].pid = m[d].pid
          /\ Owned(m, "pin", d) \subseteq Owned(f, "pin", d)
    /\ \A g \in Desc : m[g].valid /\ m[g].type = "group" /\ m[g].refcnt # 0 =>
          /\ f[g].valid /\ f[g].type = "group" /\ f[g].name = m[g].name /\ f[g].refcnt # 0
          /\ ~DeleteThroughOther => Owned(m, "member", g) \subseteq Owned(f, "member", g)
    /\ \A g \in Desc : f[g].valid /\ f[g].type = "group" /\ f[g].refcnt # 0 =>
          m[g].valid /\ m[g].type = "group" /\ m[g].name = f[g].name /\ m[g].refcnt = f[g].refcnt
    /\ h \in Desc /\ IsComp(f, h) => IsComp(m, h) /\ f[h].name = m[h].name

(* One such step after the other.                                          *)
LEMMA KeepsTwice ==
    ASSUME NEW m, NEW k, NEW f, NEW h, Keeps(m, k, h), Keeps(k, f, h)
    PROVE  Keeps(m, f, h)
<1>1. ASSUME NEW d \in Desc, IsRemote(m, d), m[d].pid \in HtPids
      PROVE  /\ IsRemote(f, d) /\ f[d].name = m[d].name /\ f[d].pid = m[d].pid
             /\ Owned(m, "pin", d) \subseteq Owned(f, "pin", d)
  <2>1. /\ IsRemote(k, d) /\ k[d].name = m[d].name /\ k[d].pid = m[d].pid
        /\ Owned(m, "pin", d) \subseteq Owned(k, "pin", d)
    BY <1>1 DEF Keeps
  <2>2. /\ IsRemote(f, d) /\ f[d].name = k[d].name /\ f[d].pid = k[d].pid
        /\ Owned(k, "pin", d) \subseteq Owned(f, "pin", d)
    BY <1>1, <2>1 DEF Keeps
  <2> QED
    BY <2>1, <2>2
<1>2. ASSUME NEW g \in Desc, m[g].valid, m[g].type = "group", m[g].refcnt # 0
      PROVE  /\ f[g].valid /\ f[g].type = "group" /\ f[g].name = m[g].name /\ f[g].refcnt # 0
             /\ ~DeleteThroughOther => Owned(m, "member", g) \subseteq Owned(f, "member", g)
  <2>1. /\ k[g].valid /\ k[g].type = "group" /\ k[g].name = m[g].name /\ k[g].refcnt # 0
        /\ ~DeleteThroughOther => Owned(m, "member", g) \subseteq Owned(k, "member", g)
    BY <1>2 DEF Keeps
  <2>2. /\ f[g].valid /\ f[g].type = "group" /\ f[g].name = k[g].name /\ f[g].refcnt # 0
        /\ ~DeleteThroughOther => Owned(k, "member", g) \subseteq Owned(f, "member", g)
    BY <2>1 DEF Keeps
  <2> QED
    BY <2>1, <2>2
<1>3. ASSUME NEW g \in Desc, f[g].valid, f[g].type = "group", f[g].refcnt # 0
      PROVE  m[g].valid /\ m[g].type = "group" /\ m[g].name = f[g].name /\ m[g].refcnt = f[g].refcnt
  <2>1. k[g].valid /\ k[g].type = "group" /\ k[g].name = f[g].name /\ k[g].refcnt = f[g].refcnt
    BY <1>3 DEF Keeps
  <2> QED
    BY <1>3, <2>1 DEF Keeps
<1>4. ASSUME h \in Desc, IsComp(f, h)
      PROVE  IsComp(m, h) /\ f[h].name = m[h].name
  BY <1>4 DEF Keeps
<1> QED
  BY <1>1, <1>2, <1>3, <1>4 DEF Keeps

\* Of what is freed, a pin has an owner that nothing refers to; a member too, unless
\* members are deleted through other groups.
Unreferenced(m, ds) ==
    \A e \in Desc :
        e \in ds /\ m[e].valid /\ (m[e].type = "pin" \/ (m[e].type = "member" /\ ~DeleteThroughOther))
            => m[m[e].owner].refcnt = 0

(* Freeing takes nothing from haltalk.                                     *)
LEMMA FreeServes ==
    ASSUME NEW m, NEW f, NEW ds, NEW h, ObjInv(m), Freed(m, f, ds), Unreferenced(m, ds)
    PROVE  Keeps(m, f, h)
<1>1. \A d \in Desc : m[d].valid /\ m[d].refcnt # 0 => f[d] = m[d]
  BY DEF Freed
<1>2. \A d \in Desc : f[d].valid => f[d] = m[d]
  BY DEF Freed
<1>3. ASSUME NEW d \in Desc, m[d].refcnt # 0
      PROVE  /\ Owned(m, "pin", d) \subseteq Owned(f, "pin", d)
             /\ ~DeleteThroughOther => Owned(m, "member", d) \subseteq Owned(f, "member", d)
  <2>1. ASSUME NEW t \in {"pin", "member"}, t = "member" => ~DeleteThroughOther,
               NEW e \in Owned(m, t, d)
        PROVE  e \in Owned(f, t, d)
    <3>1. e \in Desc /\ m[e].valid /\ m[e].type = t /\ m[e].owner = d
      BY DEF Owned
    <3>2. ~(e \in ds)
      BY <1>3, <2>1, <3>1 DEF Unreferenced
    <3>3. f[e] = m[e]
      BY <3>1, <3>2 DEF Freed
    <3> QED
      BY <3>1, <3>3 DEF Owned
  <2> QED
    BY <2>1
<1>4. ASSUME NEW d \in Desc, IsRemote(m, d), m[d].pid \in HtPids
      PROVE  m[d].refcnt # 0
  <2>1. m[d].pid # None
    BY <1>4, TalkAssumption, Counts
  <2> QED
    BY <1>4, <2>1 DEF ObjInv, RefInv, IsRemote, IsComp
<1> QED
  BY <1>1, <1>2, <1>3, <1>4 DEF Keeps, IsRemote, IsComp

(* A new object takes nothing from haltalk.                                *)
LEMMA NewServes ==
    ASSUME NEW m, NEW f, NEW d \in Desc, NEW o, NEW h, ObjInv(m), Created(m, f, d, o),
           MayCreate(m, o), d # h
    PROVE  Keeps(m, f, h)
<1>1. f[d] = o /\ ~m[d].valid /\ \A e \in Desc : e # d => f[e] = m[e]
  BY DEF Created
<1>2. \A e \in Desc : m[e].valid => f[e] = m[e]
  BY <1>1
<1>3. \A t, e : Owned(m, t, e) \subseteq Owned(f, t, e)
  BY <1>2 DEF Owned
<1>4. o.refcnt = 0
  BY DEF MayCreate
<1> QED
  BY <1>1, <1>2, <1>3, <1>4 DEF Keeps, IsRemote, IsComp

(* Neither do changes of other counts and pids.                            *)
LEMMA RetagServes ==
    ASSUME NEW m, NEW f, NEW h, SameShape(m, f),
           \A d \in Desc : IsRemote(m, d) /\ m[d].pid \in HtPids => f[d].pid = m[d].pid,
           \A g \in Desc : m[g].valid /\ m[g].type = "group" => f[g].refcnt = m[g].refcnt
    PROVE  Keeps(m, f, h)
<1>1. \A t, e : Owned(m, t, e) \subseteq Owned(f, t, e)
  BY DEF Owned, SameShape
<1>2. \A d \in Desc : /\ IsComp(f, d) <=> IsComp(m, d)
                      /\ IsRemote(f, d) <=> IsRemote(m, d)
                      /\ f[d].name = m[d].name /\ f[d].type = m[d].type /\ f[d].valid = m[d].valid
  BY DEF SameShape, IsComp, IsRemote
<1> QED
  BY <1>1, <1>2 DEF Keeps

(* A destructor goes on while its instance stays and gets no functs.       *)
LEMMA RtFrame ==
    ASSUME NEW m, NEW f, NEW r, RtInv(m, r),
           \A d \in Desc : m[d].valid /\ m[d].type = "inst" =>
                              f[d].valid /\ f[d].type = "inst" /\ f[d].owner = m[d].owner,
           r # NoCall => \A d \in Desc : f[d].valid /\ f[d].type = "funct" =>
                              m[d].valid /\ m[d].type = "funct" /\ m[d].owner = f[d].owner
    PROVE  RtInv(f, r)
<1>1. r \in [call : {"none", "delinst", "exit"}, comp : Desc \cup {None}, inst : Desc \cup {None}]
  BY DEF RtInv
<1>2. ASSUME r # NoCall
      PROVE  /\ r.inst \in Desc /\ f[r.inst].valid /\ f[r.inst].type = "inst"
             /\ f[r.inst].owner = r.comp
             /\ \A d \in Desc : f[d].valid /\ f[d].type = "funct" => f[d].owner # r.inst
  BY <1>2 DEF RtInv
<1> QED
  BY <1>1, <1>2 DEF RtInv

(* So does it while objects are created, if no funct is.                   *)
LEMMA NewRt ==
    ASSUME NEW m, NEW f, NEW r, NEW d \in Desc, NEW o, RtInv(m, r), Created(m, f, d, o),
           o.type = "funct" => r = NoCall
    PROVE  RtInv(f, r)
<1>1. f[d] = o /\ ~m[d].valid /\ \A e \in Desc : e # d => f[e] = m[e]
  BY DEF Created
<1>2. \A e \in Desc : m[e].valid /\ m[e].type = "inst" => f[e] = m[e]
  BY <1>1
<1>3. r # NoCall => \A e \in Desc : f[e].valid /\ f[e].type = "funct" => f[e] = m[e]
  BY <1>1
<1> QED
  BY <1>2, <1>3, RtFrame
-----------------------------------------------------------------------------
(* The calls of the HAL library, made by any process.                      *)

(* An object is created.                                                   *)
LEMMA NewStep ==
    ASSUME ObjInv(mem), RtInv(mem, rt), NEW h, NEW d \in Desc, Fresh(d, h), NEW o \in Header,
           mem' = [mem EXCEPT ![d] = o], UNCHANGED rt, MayCreate(mem, o),
           o.type = "funct" => rt = NoCall
    PROVE  ObjInv(mem') /\ RtInv(mem', rt') /\ Keeps(mem, mem', h)
<1>1. mem \in [Desc -> Header]
  BY DEF ObjInv
<1>2. ~mem[d].valid /\ d # h
  BY UnusedIs DEF Fresh
<1>3. Created(mem, mem', d, o)
  BY <1>1, <1>2 DEF Created
<1>4. ObjInv(mem')
  BY <1>3, NewKeeps
<1>5. Keeps(mem, mem', h)
  BY <1>2, <1>3, NewServes
<1>6. RtInv(mem', rt)
  BY <1>3, NewRt
<1> QED
  BY <1>4, <1>5, <1>6

(* Counts and pids are changed, by rules.                                  *)
LEMMA RetagStep ==
    ASSUME ObjInv(mem), RtInv(mem, rt), NEW h, UNCHANGED rt, mem' \in [Desc -> Header],
           SameShape(mem, mem'), RefInv(mem'),
           \A d \in Desc : mem[d].valid /\ mem[d].type = "signal" => mem'[d].refcnt = mem[d].refcnt,
           \A d \in Desc : IsRemote(mem, d) /\ mem[d].pid \in HtPids => mem'[d].pid = mem[d].pid,
           \A g \in Desc : mem[g].valid /\ mem[g].type = "group" => mem'[g].refcnt = mem[g].refcnt
    PROVE  ObjInv(mem') /\ RtInv(mem', rt') /\ Keeps(mem, mem', h)
<1>1. \A d \in Desc : mem[d].valid /\ mem[d].type = "member" => mem'[mem[d].sig].refcnt # 0
  BY DEF ObjInv, SigInv
<1>2. ObjInv(mem')
  BY <1>1, RetagKeeps
<1>3. Keeps(mem, mem', h)
  BY RetagServes
<1>4. RtInv(mem', rt)
  BY RtFrame DEF SameShape
<1> QED
  BY <1>2, <1>3, <1>4

(* Objects are freed, but no instance.                                     *)
LEMMA FreeStep ==
    ASSUME ObjInv(mem), RtInv(mem, rt), NEW h, UNCHANGED rt, NEW ds, Freed(mem, mem', ds),
           Closed(mem, ds), Unreferenced(mem, ds),
           \A d \in Desc : mem[d].valid /\ mem[d].type = "inst" => d \notin ds
    PROVE  ObjInv(mem') /\ RtInv(mem', rt') /\ Keeps(mem, mem', h)
<1>1. ObjInv(mem')
  BY FreeKeeps
<1>2. Keeps(mem, mem', h)
  BY FreeServes
<1>3. /\ \A d \in Desc : mem[d].valid /\ mem[d].type = "inst" => mem'[d] = mem[d]
      /\ \A d \in Desc : mem'[d].valid => mem'[d] = mem[d]
  BY DEF Freed
<1>4. RtInv(mem', rt)
  BY <1>3, RtFrame
<1> QED
  BY <1>1, <1>2, <1>4

(* halg_xinitfv() makes a component that is nobody's.                      *)
LEMMA XinitIs ==
    ASSUME NEW c \in Comps
    PROVE  LET o == [Object("comp", c, None) EXCEPT !.state = "initializing"]
           IN  /\ o \in Header /\ o.type = "comp" /\ o.name = c /\ o.refcnt = 0 /\ o.pid = None
               /\ o.valid
<1>1. PICK q : q = Object("comp", c, None)
  OBVIOUS
<1>2. /\ q \in Header /\ q.type = "comp" /\ q.name = c /\ q.refcnt = 0 /\ q.pid = None
      /\ q.valid
  <2>1. "comp" \in Types /\ c \in Names \cup {None} /\ None \in Desc \cup {None}
    BY DEF Types, Names
  <2> QED
    BY <1>1, <2>1, ObjectIs
<1>3. PICK o : o = [q EXCEPT !.state = "initializing"]
  OBVIOUS
<1>4. /\ o \in Header /\ o.type = "comp" /\ o.name = c /\ o.refcnt = 0 /\ o.pid = None
      /\ o.valid
  BY <1>2, <1>3 DEF Header, States
<1> QED
  BY <1>1, <1>3, <1>4

(* A component is created.                                                 *)
LEMMA XinitStep ==
    ASSUME ObjInv(mem), RtInv(mem, rt), NEW h, NEW d \in Desc, Fresh(d, h), NEW c \in Comps,
           Find("comp", c) = {}, mem' = Xinit(mem, d, c), UNCHANGED rt
    PROVE  ObjInv(mem') /\ RtInv(mem', rt') /\ Keeps(mem, mem', h)
<1>1. PICK o : o = [Object("comp", c, None) EXCEPT !.state = "initializing"]
  OBVIOUS
<1>2. /\ o \in Header /\ o.type = "comp" /\ o.name = c /\ o.refcnt = 0 /\ o.pid = None
      /\ o.valid
  BY <1>1, XinitIs
<1>3. MayCreate(mem, o)
  BY <1>2 DEF MayCreate, Types, Owners, Find
<1>4. mem' = [mem EXCEPT ![d] = o]
  BY <1>1 DEF Xinit
<1> QED
  BY <1>2, <1>3, <1>4, NewStep

(* What may own pins.                                                      *)
LEMMA OwningIs ==
    ASSUME NEW o \in Desc, HasOwningComp(o)
    PROVE  mem[o].valid /\ mem[o].type \in {"comp", "inst"}
BY DEF HasOwningComp, IsComp

(* A pin or a funct is created.                                            *)
LEMMA PinStep ==
    ASSUME ObjInv(mem), RtInv(mem, rt), NEW h, NEW d \in Desc, Fresh(d, h), UNCHANGED rt,
           NEW t \in {"pin", "funct"}, NEW nm \in Names, NEW ow \in Desc, Find(t, nm) = {},
           HasOwningComp(ow), t = "funct" => rt = NoCall,
           mem' = [mem EXCEPT ![d] = Object(t, nm, ow)]
    PROVE  ObjInv(mem') /\ RtInv(mem', rt') /\ Keeps(mem, mem', h)
<1>1. PICK o : o = Object(t, nm, ow)
  OBVIOUS
<1>2. t \in Types /\ nm \in Names \cup {None} /\ ow \in Desc \cup {None}
  BY DEF Types
<1>3. /\ o \in Header /\ o.type = t /\ o.name = nm /\ o.owner = ow /\ o.refcnt = 0
      /\ o.pid = None /\ o.valid
  BY <1>1, <1>2, ObjectIs
<1>4. \A e \in Desc : mem[e].valid /\ mem[e].type = t => mem[e].name # nm
  BY DEF Find
<1>5. OwnerTypes(t) = {"comp", "inst"}
  BY OwnerTypesAre
<1>6. mem[ow].valid /\ mem[ow].type \in OwnerTypes(t)
  BY <1>5, OwningIs
<1>7. MayCreate(mem, o)
  BY <1>2, <1>3, <1>4, <1>6 DEF MayCreate
<1> QED
  BY <1>1, <1>3, <1>7, NewStep

(* An object without an owner, or an instance, is created.                 *)
LEMMA TopStep ==
    ASSUME ObjInv(mem), RtInv(mem, rt), NEW h, NEW d \in Desc, Fresh(d, h), UNCHANGED rt,
           NEW t \in {"signal", "group", "inst"}, NEW nm \in Names, NEW ow \in Desc \cup {None},
           Find(t, nm) = {}, t = "group" => nm \in Groups,
           t = "inst" => ow \in Desc /\ IsComp(mem, ow) /\ mem[ow].name \in RtComps,
           mem' = [mem EXCEPT ![d] = Object(t, nm, ow)]
    PROVE  ObjInv(mem') /\ RtInv(mem', rt') /\ Keeps(mem, mem', h)
<1>1. PICK o : o = Object(t, nm, ow)
  OBVIOUS
<1>2. t \in Types /\ nm \in Names \cup {None} /\ ow \in Desc \cup {None}
  BY DEF Types
<1>3. /\ o \in Header /\ o.type = t /\ o.name = nm /\ o.owner = ow /\ o.refcnt = 0
      /\ o.pid = None /\ o.valid
  BY <1>1, <1>2, ObjectIs
<1>4. \A e \in Desc : mem[e].valid /\ mem[e].type = t => mem[e].name # nm
  BY DEF Find
<1>5. t = "inst" => ow \in Desc /\ mem[ow].valid /\ mem[ow].type \in OwnerTypes(t)
  BY OwnerTypesAre DEF IsComp
<1>6. MayCreate(mem, o)
  BY <1>2, <1>3, <1>4, <1>5 DEF MayCreate, Owners
<1> QED
  BY <1>1, <1>3, <1>6, NewStep

(* A member is created, and refers to its signal.                          *)
LEMMA MemberStep ==
    ASSUME ObjInv(mem), RtInv(mem, rt), NEW h, NEW d \in Desc, Fresh(d, h),
           NEW g \in Desc, NEW s \in Desc, halg_member_new(g, s, d)
    PROVE  ObjInv(mem') /\ RtInv(mem', rt') /\ Keeps(mem, mem', h)
<1>1. /\ mem[g].valid /\ mem[g].type = "group"
      /\ mem[s].valid /\ mem[s].type = "signal" /\ mem[s].refcnt < MaxRefs
      /\ Find("member", mem[s].name) = {} /\ UNCHANGED rt
      /\ mem' = [mem EXCEPT ![d] = [Object("member", mem[s].name, g) EXCEPT !.sig = s],
                            ![s] = ho_incref(@)]
  BY DEF halg_member_new, NewMember
<1>2. mem \in [Desc -> Header] /\ ~mem[d].valid /\ d # h /\ d # s /\ s # g
  BY <1>1, UnusedIs DEF ObjInv, Fresh
<1>3. PICK r : r = ho_incref(mem[s])
  OBVIOUS
<1>4. /\ r \in Header /\ r.refcnt = mem[s].refcnt + 1 /\ r.type = "signal"
      /\ r.name = mem[s].name /\ r.owner = mem[s].owner /\ r.valid = mem[s].valid
      /\ r.sig = mem[s].sig /\ mem[s].refcnt \in Nat
  <2>1. mem[s] \in Header /\ mem[s].refcnt \in Nat
    BY <1>2, HeaderFields, Counts
  <2> QED
    BY <1>1, <1>3, <2>1, CountChanges
<1>5. PICK k : k = [mem EXCEPT ![s] = r]
  OBVIOUS
<1>6. k \in [Desc -> Header] /\ k[s] = r /\ \A e \in Desc : e # s => k[e] = mem[e]
  BY <1>2, <1>4, <1>5
<1>7. SameShape(mem, k)
  BY <1>1, <1>4, <1>6 DEF SameShape
<1>8. ObjInv(k)
  <2>1. RefInv(k)
    BY <1>1, <1>4, <1>6 DEF ObjInv, RefInv, Owners
  <2>2. \A e \in Desc : mem[e].valid /\ mem[e].type = "member" => k[mem[e].sig].refcnt # 0
    BY <1>4, <1>6 DEF ObjInv, SigInv
  <2> QED
    BY <1>6, <1>7, <2>1, <2>2, RetagKeeps
<1>9. Keeps(mem, k, h)
  <2>1. \A e \in Desc : IsRemote(mem, e) => k[e] = mem[e]
    BY <1>1, <1>6 DEF IsRemote, IsComp
  <2>2. \A e \in Desc : mem[e].type = "group" => k[e] = mem[e]
    BY <1>1, <1>6
  <2> QED
    BY <1>7, <2>1, <2>2, RetagServes
<1>10. PICK o : o = [Object("member", mem[s].name, g) EXCEPT !.sig = s]
  OBVIOUS
<1>11. /\ o \in Header /\ o.type = "member" /\ o.name = mem[s].name /\ o.owner = g /\ o.refcnt = 0
       /\ o.pid = None /\ o.valid /\ o.sig = s
  <2>1. PICK q : q = Object("member", mem[s].name, g)
    OBVIOUS
  <2>2. "member" \in Types /\ mem[s].name \in Names \cup {None} /\ g \in Desc \cup {None}
    BY <1>2, HeaderFields DEF Types
  <2>3. /\ q \in Header /\ q.type = "member" /\ q.name = mem[s].name /\ q.owner = g /\ q.refcnt = 0
        /\ q.pid = None /\ q.valid
    BY <2>1, <2>2, ObjectIs
  <2>4. o = [q EXCEPT !.sig = s]
    BY <1>10, <2>1
  <2> QED
    BY <2>3, <2>4 DEF Header
<1>12. MayCreate(k, o)
  <2>1. \A e \in Desc : k[e].valid /\ k[e].type = "member" => k[e].name # o.name
    BY <1>1, <1>4, <1>6, <1>11 DEF Find
  <2>2. k[g].valid /\ k[g].type \in OwnerTypes("member")
    BY <1>1, <1>2, <1>6, OwnerTypesAre
  <2>3. k[s].valid /\ k[s].type = "signal" /\ k[s].name = o.name /\ k[s].refcnt # 0
    <3>1. mem[s].refcnt + 1 # 0
      BY <1>4
    <3> QED
      BY <1>1, <1>4, <1>6, <1>11, <3>1
  <2> QED
    BY <1>11, <2>1, <2>2, <2>3 DEF MayCreate, Types
<1>13. Created(k, mem', d, o)
  <2>1. mem' = [mem EXCEPT ![d] = o, ![s] = r]
    BY <1>1, <1>2, <1>3, <1>10
  <2>2. mem' \in [Desc -> Header] /\ mem'[d] = o /\ mem'[s] = r
        /\ \A e \in Desc : e # d /\ e # s => mem'[e] = mem[e]
    BY <1>2, <1>4, <1>11, <2>1
  <2> QED
    BY <1>2, <1>6, <2>2 DEF Created
<1>14. ObjInv(mem')
  BY <1>8, <1>12, <1>13, NewKeeps
<1>15. Keeps(mem, mem', h)
  BY <1>2, <1>8, <1>9, <1>12, <1>13, NewServes, KeepsTwice
<1>16. RtInv(mem', rt)
  <2>1. \A e \in Desc : e # d /\ e # s => mem'[e] = mem[e]
    BY <1>6, <1>13 DEF Created
  <2>2. mem'[d].type = "member" /\ mem'[s].type = "signal"
    BY <1>2, <1>4, <1>6, <1>11, <1>13 DEF Created
  <2>3. \A e \in Desc : mem[e].valid /\ mem[e].type = "inst" => mem'[e] = mem[e]
    BY <1>1, <1>2, <2>1
  <2>4. \A e \in Desc : mem'[e].valid /\ mem'[e].type = "funct" => mem'[e] = mem[e]
    BY <2>1, <2>2
  <2> QED
    BY <2>3, <2>4, RtFrame
<1> QED
  BY <1>1, <1>14, <1>15, <1>16
-----------------------------------------------------------------------------
(* Components change hands.                                                *)

\* Of m, f changes the state and the holder of component d only.
Recast(m, f, d) ==
    /\ f \in [Desc -> Header] /\ \A e \in Desc : e # d => f[e] = m[e]
    /\ IsComp(m, d)
    /\ f[d].type = m[d].type /\ f[d].name = m[d].name /\ f[d].owner = m[d].owner
    /\ f[d].valid = m[d].valid /\ f[d].sig = m[d].sig
    /\ f[d].refcnt = IF f[d].pid = None THEN 0 ELSE 1
    /\ f[d].pid # None => m[d].name \in RemoteComps

(* Such a change keeps the objects in order.                               *)
LEMMA RecastKeeps ==
    ASSUME NEW m, NEW f, NEW d \in Desc, ObjInv(m), Recast(m, f, d)
    PROVE  SameShape(m, f) /\ ObjInv(f)
<1>1. f \in [Desc -> Header] /\ \A e \in Desc : e # d => f[e] = m[e]
  BY DEF Recast
<1>2. SameShape(m, f)
  BY <1>1 DEF SameShape, Recast
<1>3. m[d].valid /\ m[d].type = "comp" /\ f[d].type = "comp" /\ f[d].name = m[d].name
  BY DEF Recast, IsComp
<1>4. RefInv(f)
  <2> SUFFICES ASSUME NEW a \in Desc, f[a].valid
               PROVE  /\ f[a].type \in Owners => f[a].refcnt = 0
                      /\ f[a].type = "comp" => /\ f[a].refcnt = IF f[a].pid = None THEN 0 ELSE 1
                                               /\ f[a].pid # None => f[a].name \in RemoteComps
                      /\ f[a].type = "group" => f[a].name \in Groups
                      /\ f[a].type # "unused"
    BY DEF RefInv
  <2>1. CASE a # d
    BY <1>1, <2>1 DEF ObjInv, RefInv
  <2>2. CASE a = d
    BY <1>3, <2>2 DEF Recast, Owners
  <2> QED
    BY <2>1, <2>2
<1>5. \A e \in Desc : m[e].valid /\ m[e].type = "member" => f[m[e].sig].refcnt # 0
  BY <1>1, <1>3 DEF ObjInv, SigInv
<1> QED
  BY <1>1, <1>2, <1>4, <1>5, RetagKeeps

(* And leaves a destructor alone.                                          *)
LEMMA ShapeRt ==
    ASSUME NEW m, NEW f, NEW r, RtInv(m, r), SameShape(m, f)
    PROVE  RtInv(f, r)
BY RtFrame DEF SameShape

(* Haltalk keeps what others do not take.                                  *)
LEMMA RecastServes ==
    ASSUME NEW m, NEW f, NEW d \in Desc, NEW h, ObjInv(m), Recast(m, f, d),
           m[d].pid \in HtPids => f[d].pid = m[d].pid
    PROVE  Keeps(m, f, h)
<1>1. \A e \in Desc : e # d => f[e] = m[e]
  BY DEF Recast
<1>2. m[d].type = "comp"
  BY DEF Recast, IsComp
<1>3. SameShape(m, f)
  BY RecastKeeps
<1>4. \A e \in Desc : IsRemote(m, e) /\ m[e].pid \in HtPids => f[e].pid = m[e].pid
  BY <1>1
<1>5. \A g \in Desc : m[g].valid /\ m[g].type = "group" => f[g].refcnt = m[g].refcnt
  BY <1>1, <1>2
<1> QED
  BY <1>3, <1>4, <1>5, RetagServes

(* A component gets another state.                                         *)
LEMMA StateIs ==
    ASSUME NEW m, ObjInv(m), NEW d \in Desc, IsComp(m, d), NEW st \in States
    PROVE  /\ Recast(m, [m EXCEPT ![d].state = st], d)
           /\ [m EXCEPT ![d].state = st][d].pid = m[d].pid
<1>1. m \in [Desc -> Header] /\ m[d] \in Header
  BY DEF ObjInv
<1>2. PICK o : o = [m[d] EXCEPT !.state = st]
  OBVIOUS
<1>3. /\ o \in Header /\ o.type = m[d].type /\ o.name = m[d].name /\ o.owner = m[d].owner
      /\ o.refcnt = m[d].refcnt /\ o.valid = m[d].valid /\ o.pid = m[d].pid /\ o.sig = m[d].sig
  BY <1>1, <1>2 DEF Header
<1>4. PICK f : f = [m EXCEPT ![d].state = st]
  OBVIOUS
<1>5. f \in [Desc -> Header] /\ f[d] = o /\ \A e \in Desc : e # d => f[e] = m[e]
  BY <1>1, <1>2, <1>3, <1>4
<1>6. /\ m[d].refcnt = IF m[d].pid = None THEN 0 ELSE 1
      /\ m[d].pid # None => m[d].name \in RemoteComps
  BY DEF ObjInv, RefInv, IsComp
<1>7. Recast(m, f, d) /\ f[d].pid = m[d].pid
  BY <1>3, <1>5, <1>6 DEF Recast
<1> QED
  BY <1>4, <1>7

(* A component is left as it is.                                           *)
LEMMA SameIs ==
    ASSUME NEW m, ObjInv(m), NEW d \in Desc, IsComp(m, d)
    PROVE  Recast(m, m, d)
<1>1. m \in [Desc -> Header]
  BY DEF ObjInv
<1>2. /\ m[d].refcnt = IF m[d].pid = None THEN 0 ELSE 1
      /\ m[d].pid # None => m[d].name \in RemoteComps
  BY DEF ObjInv, RefInv, IsComp
<1> QED
  BY <1>1, <1>2 DEF Recast

(* halg_bind(), halg_unbind() and halg_ready().                            *)
LEMMA BoundIs ==
    ASSUME NEW m, ObjInv(m), NEW d \in Desc, IsComp(m, d)
    PROVE  /\ Recast(m, Bound(m, d), d) /\ Bound(m, d)[d].pid = m[d].pid
           /\ Recast(m, Unbound(m, d), d) /\ Unbound(m, d)[d].pid = m[d].pid
           /\ ReadyState(m, d) \in States
<1>1. "bound" \in States /\ "unbound" \in States /\ "ready" \in States
  BY DEF States
<1>2. /\ Recast(m, [m EXCEPT ![d].state = "bound"], d)
      /\ [m EXCEPT ![d].state = "bound"][d].pid = m[d].pid
  BY <1>1, StateIs
<1>3. /\ Recast(m, [m EXCEPT ![d].state = "unbound"], d)
      /\ [m EXCEPT ![d].state = "unbound"][d].pid = m[d].pid
  BY <1>1, StateIs
<1>4. Recast(m, m, d)
  BY SameIs
<1>5. Recast(m, Bound(m, d), d) /\ Bound(m, d)[d].pid = m[d].pid
  BY <1>2, <1>4, Zenon DEF Bound
<1>6. Recast(m, Unbound(m, d), d) /\ Unbound(m, d)[d].pid = m[d].pid
  BY <1>3, <1>4, Zenon DEF Unbound
<1> QED
  BY <1>1, <1>5, <1>6 DEF ReadyState

(* A component that may be acquired is disowned: nobody acquires one in    *)
(* the name of rtapi_app.                                                  *)
LEMMA Disowned ==
    ASSUME NEW m, m \in [Desc -> Header], NEW d \in Desc, MayAcquire(m, d)
    PROVE  m[d].pid = None
<1>1. m[d].pid \in Pids \cup {None}
  BY HeaderFields
<1> QED
  BY <1>1, ObjectAssumption DEF MayAcquire

(* The process that acquires a component refers to it.                     *)
LEMMA AcquiredIs ==
    ASSUME NEW m, ObjInv(m), NEW d \in Desc, MayAcquire(m, d), NEW pid \in Pids
    PROVE  Recast(m, Acquired(m, d, pid), d) /\ Acquired(m, d, pid)[d].pid = pid
<1>1. m \in [Desc -> Header] /\ m[d] \in Header /\ IsComp(m, d) /\ m[d].name \in RemoteComps
      /\ m[d].pid = None
  BY Disowned DEF ObjInv, MayAcquire, IsRemote
<1>2. m[d].refcnt = 0 /\ pid # None
  BY <1>1, Counts DEF ObjInv, RefInv, IsComp
<1>3. PICK o : o = [m[d] EXCEPT !.pid = pid]
  OBVIOUS
<1>4. /\ o \in Header /\ o.type = m[d].type /\ o.name = m[d].name /\ o.owner = m[d].owner
      /\ o.refcnt = 0 /\ o.valid = m[d].valid /\ o.pid = pid /\ o.sig = m[d].sig
  BY <1>1, <1>2, <1>3 DEF Header
<1>5. PICK q : q = ho_incref(o)
  OBVIOUS
<1>6. /\ q \in Header /\ q.type = m[d].type /\ q.name = m[d].name /\ q.owner = m[d].owner
      /\ q.refcnt = 1 /\ q.valid = m[d].valid /\ q.pid = pid /\ q.sig = m[d].sig
  <2>1. o.refcnt < MaxRefs /\ o.refcnt + 1 = 1
    BY <1>4, Counts
  <2> QED
    BY <1>4, <1>5, <2>1, CountChanges
<1>7. PICK f : f = [m EXCEPT ![d] = q]
  OBVIOUS
<1>8. f \in [Desc -> Header] /\ f[d] = q /\ \A e \in Desc : e # d => f[e] = m[e]
  BY <1>1, <1>6, <1>7
<1>9. f = Acquired(m, d, pid)
  BY <1>1, <1>3, <1>5, <1>7 DEF Acquired
<1>10. Recast(m, f, d) /\ f[d].pid = pid
  BY <1>1, <1>2, <1>6, <1>8 DEF Recast
<1> QED
  BY <1>9, <1>10

(* And gives the reference back.                                           *)
LEMMA ReleasedIs ==
    ASSUME NEW m, ObjInv(m), NEW d \in Desc, NEW pid \in Pids, IsRemote(m, d), m[d].pid = pid
    PROVE  Recast(m, Released(m, d, pid), d) /\ Released(m, d, pid)[d].pid = None
<1>1. m \in [Desc -> Header] /\ m[d] \in Header /\ IsComp(m, d) /\ m[d].name \in RemoteComps
  BY DEF ObjInv, IsRemote
<1>2. m[d].pid # None /\ m[d].refcnt = 1
  BY Counts DEF ObjInv, RefInv, IsRemote, IsComp
<1>3. PICK o : o = [m[d] EXCEPT !.pid = None]
  OBVIOUS
<1>4. /\ o \in Header /\ o.type = m[d].type /\ o.name = m[d].name /\ o.owner = m[d].owner
      /\ o.refcnt = 1 /\ o.valid = m[d].valid /\ o.pid = None /\ o.sig = m[d].sig
  BY <1>1, <1>2, <1>3 DEF Header
<1>5. PICK q : q = ho_decref(o)
  OBVIOUS
<1>6. /\ q \in Header /\ q.type = m[d].type /\ q.name = m[d].name /\ q.owner = m[d].owner
      /\ q.refcnt = 0 /\ q.valid = m[d].valid /\ q.pid = None /\ q.sig = m[d].sig
  <2>1. o.refcnt # 0 /\ o.refcnt - 1 = 0
    BY <1>4
  <2> QED
    BY <1>4, <1>5, <2>1, CountChanges
<1>7. PICK f : f = [m EXCEPT ![d] = q]
  OBVIOUS
<1>8. f \in [Desc -> Header] /\ f[d] = q /\ \A e \in Desc : e # d => f[e] = m[e]
  BY <1>1, <1>6, <1>7
<1>9. f = Released(m, d, pid)
  BY <1>1, <1>3, <1>5, <1>7 DEF Released
<1>10. Recast(m, f, d) /\ f[d].pid = None
  BY <1>1, <1>2, <1>6, <1>8 DEF Recast
<1> QED
  BY <1>9, <1>10

(* The calls that change a component, made by another process.             *)
LEMMA RecastStep ==
    ASSUME ObjInv(mem), RtInv(mem, rt), NEW h, NEW d \in Desc,
           \/ halg_ready(d) \/ halg_bind(d) \/ halg_unbind(d)
           \/ \E pid \in Pids \ HtPids : halg_acquire(d, pid) \/ halg_release(d, pid)
    PROVE  ObjInv(mem') /\ RtInv(mem', rt') /\ Keeps(mem, mem', h)
<1>1. ASSUME NEW f, Recast(mem, f, d), mem[d].pid \in HtPids => f[d].pid = mem[d].pid
      PROVE  ObjInv(f) /\ RtInv(f, rt) /\ Keeps(mem, f, h)
  BY <1>1, RecastKeeps, ShapeRt, RecastServes
<1>2. CASE halg_ready(d)
  <2>1. IsComp(mem, d) /\ mem' = [mem EXCEPT ![d].state = ReadyState(mem, d)] /\ rt' = rt
    BY <1>2 DEF halg_ready
  <2>2. PICK st \in States : st = ReadyState(mem, d)
    BY <2>1, BoundIs
  <2>3. Recast(mem, mem', d) /\ mem'[d].pid = mem[d].pid
    BY <2>1, <2>2, StateIs
  <2> QED
    BY <1>1, <2>1, <2>3
<1>3. CASE halg_bind(d)
  <2>1. IsComp(mem, d) /\ mem' = Bound(mem, d) /\ rt' = rt
    BY <1>3 DEF halg_bind, IsRemote
  <2> QED
    BY <1>1, <2>1, BoundIs
<1>4. CASE halg_unbind(d)
  <2>1. IsComp(mem, d) /\ mem' = Unbound(mem, d) /\ rt' = rt
    BY <1>4 DEF halg_unbind, IsRemote
  <2> QED
    BY <1>1, <2>1, BoundIs
<1>5. ASSUME NEW pid \in Pids \ HtPids, halg_acquire(d, pid)
      PROVE  ObjInv(mem') /\ RtInv(mem', rt') /\ Keeps(mem, mem', h)
  <2>1. MayAcquire(mem, d) /\ mem' = Acquired(mem, d, pid) /\ rt' = rt
    BY <1>5 DEF halg_acquire
  <2>2. mem[d].pid \notin HtPids
    BY <2>1, Disowned, TalkAssumption, Counts DEF ObjInv
  <2> QED
    BY <1>1, <2>1, <2>2, AcquiredIs
<1>6. ASSUME NEW pid \in Pids \ HtPids, halg_release(d, pid)
      PROVE  ObjInv(mem') /\ RtInv(mem', rt') /\ Keeps(mem, mem', h)
  <2>1. IsRemote(mem, d) /\ mem[d].pid = pid /\ mem' = Released(mem, d, pid) /\ rt' = rt
    BY <1>6 DEF halg_release
  <2> QED
    BY <1>1, <2>1, ReleasedIs
<1> QED
  BY <1>2, <1>3, <1>4, <1>5, <1>6
-----------------------------------------------------------------------------
(* Objects are freed.                                                      *)

\* ds may be freed from m, which gives f.
FreedOK(m, f, ds) == Freed(m, f, ds) /\ Closed(m, ds) /\ Unreferenced(m, ds)

(* So the objects stay in order, and haltalk keeps its own.                *)
LEMMA FreedOKKeeps ==
    ASSUME NEW m, NEW f, NEW ds, NEW h, ObjInv(m), FreedOK(m, f, ds)
    PROVE  ObjInv(f) /\ Keeps(m, f, h)
BY FreeKeeps, FreeServes DEF FreedOK

(* What an object may own.                                                 *)
LEMMA OwnedIs ==
    ASSUME NEW m, ObjInv(m), NEW d \in Desc, NEW e \in Desc,
           m[e].valid, m[e].type \in Owners, m[e].owner = d
    PROVE  /\ m[d].type \in {"comp", "inst", "group"}
           /\ m[d].type = "comp" => m[e].type \in {"pin", "funct", "inst"}
           /\ m[d].type = "inst" => m[e].type \in {"pin", "funct"}
           /\ m[d].type = "group" => m[e].type = "member"
<1>1. m[d].type \in OwnerTypes(m[e].type)
  BY DEF ObjInv, OwnerInv
<1>2. m[e].type = "pin" \/ m[e].type = "funct" \/ m[e].type = "inst" \/ m[e].type = "member"
  BY DEF Owners
<1> QED
  BY <1>1, <1>2, OwnerTypesAre

(* A component goes with its pins and functs, unless it is referenced.     *)
LEMMA FreeCompIs ==
    ASSUME NEW m, ObjInv(m), NEW c \in Desc, IsComp(m, c), Owned(m, "inst", c) = {}
    PROVE  \E ds : /\ FreedOK(m, free_comp_struct(m, c), ds)
                   /\ \A d \in Desc : m[d].type = "inst" => d \notin ds
<1>1. m \in [Desc -> Header] /\ m[c].type = "comp"
  BY DEF ObjInv, IsComp
<1>2. CASE m[c].refcnt # 0
  <2>1. Freed(m, m, {})
    BY <1>1 DEF Freed
  <2>2. FreedOK(m, m, {})
    BY <2>1 DEF FreedOK, Closed, Unreferenced
  <2>3. free_comp_struct(m, c) = m
    BY <1>2 DEF free_comp_struct
  <2> QED
    BY <2>2, <2>3
<1>3. CASE m[c].refcnt = 0
  <2>1. PICK ds : ds = {c} \cup Owned(m, "pin", c) \cup Owned(m, "funct", c)
    OBVIOUS
  <2>2. Freed(m, free_comp_struct(m, c), ds)
    BY <1>1, <1>3, <2>1, FreeIs DEF free_comp_struct
  <2>3. \A d \in Desc : d \in ds <=> \/ d = c
                                     \/ m[d].valid /\ m[d].type \in {"pin", "funct"} /\ m[d].owner = c
    BY <2>1 DEF Owned
  <2>4. Closed(m, ds)
    <3> SUFFICES ASSUME NEW d \in Desc, NEW e \in Desc, d \in ds,
                        m[e].valid, m[e].type \in Owners, m[e].owner = d
                 PROVE  e \in ds
      BY DEF Closed
    <3>1. d = c
      BY <2>3, OwnedIs
    <3>2. m[e].type \in {"pin", "funct", "inst"}
      BY <1>1, <3>1, OwnedIs
    <3>3. m[e].type # "inst"
      BY <3>1 DEF Owned
    <3> QED
      BY <2>3, <3>1, <3>2, <3>3
  <2>5. Unreferenced(m, ds)
    BY <1>1, <1>3, <2>3 DEF Unreferenced
  <2>6. \A d \in Desc : m[d].type = "inst" => d \notin ds
    BY <1>1, <2>3
  <2> QED
    BY <2>2, <2>4, <2>5, <2>6 DEF FreedOK
<1> QED
  BY <1>1, <1>2, <1>3

(* Functs, a signal, or nothing at all.                                    *)
LEMMA FreeLeaves ==
    ASSUME NEW m, NEW f, NEW ds, ObjInv(m), Freed(m, f, ds),
           \A d \in Desc : d \in ds => m[d].type \in {"funct", "signal"}
    PROVE  FreedOK(m, f, ds)
<1>1. Closed(m, ds)
  <2> SUFFICES ASSUME NEW d \in Desc, NEW e \in Desc, d \in ds,
                      m[e].valid, m[e].type \in Owners, m[e].owner = d
               PROVE  FALSE
    BY DEF Closed
  <2> QED
    BY OwnedIs
<1>2. Unreferenced(m, ds)
  BY DEF Unreferenced
<1> QED
  BY <1>1, <1>2 DEF FreedOK

(* A group goes with its members.                                          *)
LEMMA FreeGroupIs ==
    ASSUME NEW m, ObjInv(m), NEW g \in Desc, m[g].type = "group", m[g].refcnt = 0
    PROVE  \E ds : /\ FreedOK(m, free_group_struct(m, g), ds)
                   /\ \A d \in Desc : m[d].type = "inst" => d \notin ds
<1>1. m \in [Desc -> Header]
  BY DEF ObjInv
<1>2. PICK ds : ds = {g} \cup Owned(m, "member", g)
  OBVIOUS
<1>3. Freed(m, free_group_struct(m, g), ds)
  BY <1>1, <1>2, FreeIs DEF free_group_struct
<1>4. \A d \in Desc : d \in ds <=> \/ d = g
                                   \/ m[d].valid /\ m[d].type = "member" /\ m[d].owner = g
  BY <1>2 DEF Owned
<1>5. Closed(m, ds)
  <2> SUFFICES ASSUME NEW d \in Desc, NEW e \in Desc, d \in ds,
                      m[e].valid, m[e].type \in Owners, m[e].owner = d
               PROVE  e \in ds
    BY DEF Closed
  <2>1. d = g
    BY <1>4, OwnedIs
  <2> QED
    BY <1>4, <2>1, OwnedIs
<1>6. Unreferenced(m, ds)
  BY <1>4 DEF Unreferenced
<1> QED
  BY <1>3, <1>4, <1>5, <1>6 DEF FreedOK

(* An instance without functs goes with its pins.                          *)
LEMMA FreeInstIs ==
    ASSUME NEW m, ObjInv(m), NEW i \in Desc, m[i].valid, m[i].type = "inst",
           \A d \in Desc : m[d].valid /\ m[d].type = "funct" => m[d].owner # i
    PROVE  FreedOK(m, free_inst_struct(m, i), {i} \cup Owned(m, "pin", i))
<1>1. m \in [Desc -> Header] /\ m[i].refcnt = 0
  BY DEF ObjInv, RefInv, Owners
<1>2. PICK ds : ds = {i} \cup Owned(m, "pin", i)
  OBVIOUS
<1>3. Freed(m, free_inst_struct(m, i), ds)
  BY <1>1, <1>2, FreeIs DEF free_inst_struct
<1>4. \A d \in Desc : d \in ds <=> \/ d = i
                                   \/ m[d].valid /\ m[d].type = "pin" /\ m[d].owner = i
  BY <1>2 DEF Owned
<1>5. Closed(m, ds)
  <2> SUFFICES ASSUME NEW d \in Desc, NEW e \in Desc, d \in ds,
                      m[e].valid, m[e].type \in Owners, m[e].owner = d
               PROVE  e \in ds
    BY DEF Closed
  <2>1. d = i
    BY <1>4, OwnedIs
  <2> QED
    BY <1>4, <2>1, OwnedIs
<1>6. Unreferenced(m, ds)
  BY <1>1, <1>4 DEF Unreferenced
<1> QED
  BY <1>2, <1>3, <1>5, <1>6 DEF FreedOK

(* halg_exit() of a remote component, and the deletion of signals and      *)
(* groups.                                                                 *)
LEMMA DeleteStep ==
    ASSUME ObjInv(mem), RtInv(mem, rt), NEW h, NEW d \in Desc,
           halg_exit(d) \/ halg_signal_delete(d) \/ halg_group_delete(d)
    PROVE  ObjInv(mem') /\ RtInv(mem', rt') /\ Keeps(mem, mem', h)
<1>1. ASSUME NEW f, NEW ds, FreedOK(mem, f, ds), \A e \in Desc : mem[e].type = "inst" => e \notin ds
      PROVE  ObjInv(f) /\ RtInv(f, rt) /\ Keeps(mem, f, h)
  <2>1. ObjInv(f) /\ Keeps(mem, f, h)
    BY <1>1, FreedOKKeeps
  <2>2. /\ \A e \in Desc : mem[e].valid /\ mem[e].type = "inst" => f[e] = mem[e]
        /\ \A e \in Desc : f[e].valid => f[e] = mem[e]
    BY <1>1 DEF FreedOK, Freed
  <2> QED
    BY <2>1, <2>2, RtFrame
<1>2. CASE halg_exit(d)
  <2>1. IsRemote(mem, d) /\ mem' = free_comp_struct(mem, d) /\ rt' = rt
    BY <1>2 DEF halg_exit
  <2>2. IsComp(mem, d) /\ mem[d].name \in RemoteComps
    BY <2>1 DEF IsRemote
  <2>3. Owned(mem, "inst", d) = {}
    <3> SUFFICES ASSUME NEW e \in Owned(mem, "inst", d)
                 PROVE  FALSE
      OBVIOUS
    <3>1. e \in Desc /\ mem[e].valid /\ mem[e].type = "inst" /\ mem[e].owner = d
      BY DEF Owned
    <3>2. mem[d].name \in RtComps
      BY <3>1 DEF ObjInv, OwnerInv, Owners
    <3> QED
      BY <2>2, <3>2, ObjectAssumption
  <2>4. PICK ds : /\ FreedOK(mem, mem', ds)
                  /\ \A e \in Desc : mem[e].type = "inst" => e \notin ds
    BY <2>1, <2>2, <2>3, FreeCompIs
  <2> QED
    BY <1>1, <2>1, <2>4
<1>3. CASE halg_signal_delete(d)
  <2>1. mem[d].type = "signal" /\ mem' = halg_free_object(mem, {d}) /\ rt' = rt
    BY <1>3 DEF halg_signal_delete
  <2>2. Freed(mem, mem', {d})
    BY <2>1, FreeIs DEF ObjInv
  <2>3. FreedOK(mem, mem', {d})
    BY <2>1, <2>2, FreeLeaves
  <2> QED
    BY <1>1, <2>1, <2>3
<1>4. CASE halg_group_delete(d)
  <2>1. /\ mem[d].type = "group" /\ mem[d].refcnt = 0 /\ rt' = rt
        /\ mem' = free_group_struct(mem, d)
    BY <1>4 DEF halg_group_delete
  <2>2. PICK ds : /\ FreedOK(mem, mem', ds)
                  /\ \A e \in Desc : mem[e].type = "inst" => e \notin ds
    BY <2>1, FreeGroupIs
  <2> QED
    BY <1>1, <2>1, <2>2
<1> QED
  BY <1>2, <1>3, <1>4

(* hal_sweep() takes what is not valid.                                    *)
LEMMA SweepStep ==
    ASSUME ObjInv(mem), RtInv(mem, rt), NEW h, hal_sweep
    PROVE  ObjInv(mem') /\ RtInv(mem', rt') /\ Keeps(mem, mem', h)
<1>1. mem \in [Desc -> Header] /\ rt' = rt
  BY DEF ObjInv, hal_sweep
<1>2. mem' = [d \in Desc |-> IF mem[d].valid THEN mem[d] ELSE Unused]
  BY DEF hal_sweep
<1>3. Freed(mem, mem', {})
  BY <1>1, <1>2, UnusedIs DEF Freed
<1>4. FreedOK(mem, mem', {})
  BY <1>3, FreeLeaves
<1>5. ObjInv(mem') /\ Keeps(mem, mem', h)
  BY <1>4, FreedOKKeeps
<1>6. /\ \A e \in Desc : mem[e].valid => mem'[e] = mem[e]
      /\ \A e \in Desc : mem'[e].valid => mem'[e] = mem[e]
  BY <1>3 DEF Freed
<1>7. RtInv(mem', rt)
  <2>1. PICK f : f = mem'
    OBVIOUS
  <2>2. /\ \A e \in Desc : mem[e].valid => f[e] = mem[e]
        /\ \A e \in Desc : f[e].valid => f[e] = mem[e]
    BY <1>6, <2>1
  <2>3. RtInv(f, rt)
    BY <2>2, RtFrame
  <2> QED
    BY <2>1, <2>3
<1> QED
  BY <1>1, <1>5, <1>7

(* The last member of a signal is deleted.                                 *)
LEMMA MemberGone ==
    ASSUME NEW m, NEW k, NEW f, NEW d \in Desc, NEW s \in Desc, ObjInv(m), ObjInv(k),
           m[d].valid, m[d].type = "member", m[s].valid, m[s].type = "signal",
           m[s].name = m[d].name, ~k[d].valid, \A e \in Desc : k[e].valid => k[e] = m[e],
           k[s] = m[s], f \in [Desc -> Header], f[s] = ho_decref(m[s]),
           \A e \in Desc : e # s => f[e] = k[e]
    PROVE  ObjInv(f) /\ SameShape(k, f)
<1>1. m \in [Desc -> Header] /\ m[s] \in Header
  BY DEF ObjInv
<1>2. m[s].refcnt # 0
  <2>1. PICK q \in Desc : /\ q = m[d].sig /\ m[q].valid /\ m[q].type = "signal"
                          /\ m[q].name = m[d].name /\ m[q].refcnt # 0
    BY DEF ObjInv, SigInv
  <2>2. q = s
    BY <2>1 DEF ObjInv, UniqueInv
  <2> QED
    BY <2>1, <2>2
<1>3. /\ f[s].type = m[s].type /\ f[s].name = m[s].name /\ f[s].owner = m[s].owner
      /\ f[s].valid = m[s].valid /\ f[s].pid = m[s].pid /\ f[s].sig = m[s].sig
  <2>1. PICK o \in Header : o = m[s]
    BY <1>1
  <2>2. PICK q : q = ho_decref(o)
    OBVIOUS
  <2>3. /\ q.type = o.type /\ q.name = o.name /\ q.owner = o.owner
        /\ q.valid = o.valid /\ q.pid = o.pid /\ q.sig = o.sig
    BY <1>2, <2>1, <2>2, CountChanges
  <2>4. f[s] = q
    BY <2>1, <2>2
  <2> QED
    BY <2>1, <2>3, <2>4
<1>4. SameShape(k, f)
  <2>1. \A a \in Desc : a # s => f[a] = k[a]
    OBVIOUS
  <2>2. /\ f[s].type = k[s].type /\ f[s].name = k[s].name /\ f[s].owner = k[s].owner
        /\ f[s].valid = k[s].valid /\ f[s].sig = k[s].sig
    BY <1>3
  <2> QED
    BY <2>1, <2>2 DEF SameShape
<1>5. RefInv(f)
  <2> SUFFICES ASSUME NEW a \in Desc, f[a].valid
               PROVE  /\ f[a].type \in Owners => f[a].refcnt = 0
                      /\ f[a].type = "comp" => /\ f[a].refcnt = IF f[a].pid = None THEN 0 ELSE 1
                                               /\ f[a].pid # None => f[a].name \in RemoteComps
                      /\ f[a].type = "group" => f[a].name \in Groups
                      /\ f[a].type # "unused"
    BY DEF RefInv
  <2>1. CASE a # s
    BY <2>1 DEF ObjInv, RefInv
  <2>2. CASE a = s
    BY <1>3, <2>2 DEF Owners
  <2> QED
    BY <2>1, <2>2
<1>6. ASSUME NEW e \in Desc, k[e].valid, k[e].type = "member"
      PROVE  f[k[e].sig].refcnt # 0
  <2>1. k[e] = m[e] /\ e # d
    BY <1>6
  <2>2. PICK q \in Desc : /\ q = k[e].sig /\ k[q].name = k[e].name /\ k[q].refcnt # 0
    BY <1>6 DEF ObjInv, SigInv
  <2>3. q # s
    BY <1>6, <2>1, <2>2 DEF ObjInv, UniqueInv
  <2> QED
    BY <2>2, <2>3
<1> QED
  BY <1>4, <1>5, <1>6, RetagKeeps

(* A member is deleted, and its signal loses the reference.                *)
LEMMA MemberDeleteStep ==
    ASSUME ObjInv(mem), RtInv(mem, rt), NEW h, NEW g \in Desc, NEW d \in Desc,
           halg_member_delete(g, d)
    PROVE  ObjInv(mem') /\ RtInv(mem', rt') /\ Keeps(mem, mem', h)
<1>1. /\ mem[g].type = "group" /\ mem[g].refcnt = 0 /\ mem[d].valid /\ mem[d].type = "member"
      /\ ~DeleteThroughOther => mem[d].owner = g
      /\ rt' = rt
  BY DEF halg_member_delete
<1>2. PICK s \in Find("signal", mem[d].name) :
          mem' = halg_free_object([mem EXCEPT ![s] = ho_decref(@)], {d})
  BY DEF halg_member_delete
<1>3. s \in Desc /\ mem[s].valid /\ mem[s].type = "signal" /\ mem[s].name = mem[d].name /\ s # d
  BY <1>1, <1>2 DEF Find
<1>4. mem \in [Desc -> Header] /\ mem[s] \in Header /\ mem[d].refcnt = 0
  BY <1>1, <1>3 DEF ObjInv, RefInv, Owners
<1>5. PICK k : k = halg_free_object(mem, {d})
  OBVIOUS
<1>6. Freed(mem, k, {d})
  BY <1>4, <1>5, FreeIs
<1>7. FreedOK(mem, k, {d})
  <2>1. Closed(mem, {d})
    <3> SUFFICES ASSUME NEW e \in Desc, mem[e].valid, mem[e].type \in Owners, mem[e].owner = d
                 PROVE  FALSE
      BY DEF Closed
    <3> QED
      BY <1>1, OwnedIs
  <2>2. Unreferenced(mem, {d})
    BY <1>1 DEF Unreferenced
  <2> QED
    BY <1>6, <2>1, <2>2 DEF FreedOK
<1>8. ObjInv(k) /\ Keeps(mem, k, h)
  BY <1>7, FreedOKKeeps
<1>9. /\ k \in [Desc -> Header] /\ ~k[d].valid /\ \A e \in Desc : k[e].valid => k[e] = mem[e]
      /\ \A e \in Desc : mem[e].valid /\ e # d => k[e] = mem[e]
  BY <1>4, <1>6 DEF Freed
<1>10. mem[s].refcnt # 0
  <2>1. PICK q \in Desc : /\ q = mem[d].sig /\ mem[q].valid /\ mem[q].type = "signal"
                          /\ mem[q].name = mem[d].name /\ mem[q].refcnt # 0
    BY <1>1 DEF ObjInv, SigInv
  <2>2. q = s
    BY <1>3, <2>1 DEF ObjInv, UniqueInv
  <2> QED
    BY <2>1, <2>2
<1>11. PICK r : r = ho_decref(mem[s])
  OBVIOUS
<1>12. r \in Header
  BY <1>4, <1>10, <1>11, CountChanges
<1>13. /\ \A e \in Desc : e # s => mem'[e] = k[e]
       /\ mem'[s] = r
       /\ mem' \in [Desc -> Header]
  <2>1. PICK j : j = [mem EXCEPT ![s] = r]
    OBVIOUS
  <2>2. j \in [Desc -> Header] /\ j[s] = r /\ \A e \in Desc : e # s => j[e] = mem[e]
    BY <1>3, <1>4, <1>12, <2>1
  <2>3. mem' = halg_free_object(j, {d})
    BY <1>2, <1>3, <1>4, <1>11, <2>1
  <2>4. \A e \in Desc : e # d => mem'[e] = j[e]
    BY <2>3 DEF halg_free_object
  <2>5. mem'[d] = k[d]
    BY <1>3, <1>5, <2>2, <2>3 DEF halg_free_object
  <2>6. \A e \in Desc : e # d => k[e] = mem[e]
    BY <1>5 DEF halg_free_object
  <2>7. mem' \in [Desc -> Header]
    BY <2>2, <2>3, FreeIs DEF Freed
  <2> QED
    BY <1>3, <2>2, <2>4, <2>5, <2>6, <2>7
<1>14. PICK f : f = mem'
  OBVIOUS
<1>15. /\ f \in [Desc -> Header] /\ f[s] = ho_decref(mem[s]) /\ \A e \in Desc : e # s => f[e] = k[e]
  BY <1>11, <1>13, <1>14
<1>16. ObjInv(f) /\ SameShape(k, f)
  BY <1>1, <1>3, <1>8, <1>9, <1>15, MemberGone
<1>17. Keeps(k, f, h)
  <2>1. k[s] = mem[s] /\ k[s].type = "signal"
    BY <1>3, <1>9
  <2>2. \A e \in Desc : IsRemote(k, e) => f[e] = k[e]
    BY <1>15, <2>1 DEF IsRemote, IsComp
  <2>3. \A e \in Desc : k[e].type = "group" => f[e] = k[e]
    BY <1>15, <2>1
  <2> QED
    BY <1>16, <2>2, <2>3, RetagServes
<1>18. RtInv(f, rt)
  <2>1. RtInv(k, rt)
    <3>1. \A e \in Desc : mem[e].valid /\ mem[e].type = "inst" => k[e] = mem[e]
      BY <1>1, <1>9
    <3> QED
      BY <1>9, <3>1, RtFrame
  <2> QED
    BY <1>16, <2>1, ShapeRt
<1> QED
  BY <1>1, <1>8, <1>14, <1>16, <1>17, <1>18, KeepsTwice
-----------------------------------------------------------------------------
(* rtapi_app deletes instances.                                            *)

(* The functs of an instance go, and its destructor is called.             *)
LEMMA FreeInstStep ==
    ASSUME NEW m, ObjInv(m), NEW i \in Desc, m[i].valid, m[i].type = "inst",
           NEW call \in {"delinst", "exit"}, FreeInst(m, call, i), NEW h, Keeps(mem, m, h)
    PROVE  ObjInv(mem') /\ RtInv(mem', rt') /\ Keeps(mem, mem', h)
<1>1. mem' = halg_free_object(m, Owned(m, "funct", i))
  BY DEF FreeInst
<1>2. rt' = [call |-> call, comp |-> m[i].owner, inst |-> i]
  BY DEF FreeInst
<1>3. m \in [Desc -> Header] /\ m[i].owner \in Desc
  BY DEF ObjInv, OwnerInv, Owners
<1>4. PICK f : f = mem'
  OBVIOUS
<1>5. Freed(m, f, Owned(m, "funct", i))
  BY <1>1, <1>3, <1>4, FreeIs
<1>6. \A e \in Desc : e \in Owned(m, "funct", i) <=>
                         m[e].valid /\ m[e].type = "funct" /\ m[e].owner = i
  BY DEF Owned
<1>7. FreedOK(m, f, Owned(m, "funct", i))
  BY <1>5, <1>6, FreeLeaves
<1>8. ObjInv(f) /\ Keeps(m, f, h)
  BY <1>7, FreedOKKeeps
<1>9. Keeps(mem, f, h)
  BY <1>8, KeepsTwice
<1>10. f[i] = m[i]
  BY <1>5, <1>6 DEF Freed
<1>11. ASSUME NEW e \in Desc, f[e].valid, f[e].type = "funct"
       PROVE  f[e].owner # i
  <2>1. f[e] = m[e] /\ ~(e \in Owned(m, "funct", i) /\ m[e].refcnt = 0)
    BY <1>5, <1>11 DEF Freed
  <2>2. m[e].refcnt = 0
    BY <1>11, <2>1 DEF ObjInv, RefInv, Owners
  <2> QED
    BY <1>6, <1>11, <2>1, <2>2
<1>12. PICK r : r = [call |-> call, comp |-> m[i].owner, inst |-> i]
  OBVIOUS
<1>13. /\ r \in [call : {"none", "delinst", "exit"}, comp : Desc \cup {None}, inst : Desc \cup {None}]
       /\ r.inst = i /\ r.comp = m[i].owner
  BY <1>3, <1>12
<1>14. RtInv(f, r)
  BY <1>10, <1>11, <1>13 DEF RtInv
<1> QED
  BY <1>2, <1>4, <1>8, <1>9, <1>12, <1>14

(* No destructor runs.                                                     *)
LEMMA NoCallRt ==
    ASSUME NEW m
    PROVE  RtInv(m, NoCall)
BY DEF RtInv, NoCall

(* halg_exit() goes on with an instance, or with the component.            *)
LEMMA ExitWalkStep ==
    ASSUME NEW m, ObjInv(m), NEW c \in Desc, IsComp(m, c), ExitWalk(m, c), NEW h, Keeps(mem, m, h)
    PROVE  ObjInv(mem') /\ RtInv(mem', rt') /\ Keeps(mem, mem', h)
<1>1. CASE Owned(m, "inst", c) = {} /\ mem' = free_comp_struct(m, c) /\ rt' = NoCall
  <2>1. PICK ds : FreedOK(m, mem', ds)
    BY <1>1, FreeCompIs
  <2>2. ObjInv(mem') /\ Keeps(m, mem', h)
    BY <2>1, FreedOKKeeps
  <2>3. Keeps(mem, mem', h)
    BY <2>2, KeepsTwice
  <2>4. RtInv(mem', NoCall)
    BY NoCallRt
  <2> QED
    BY <1>1, <2>2, <2>3, <2>4
<1>2. CASE \E i \in Owned(m, "inst", c) : FreeInst(m, "exit", i)
  <2>1. PICK i \in Owned(m, "inst", c) : FreeInst(m, "exit", i)
    BY <1>2
  <2>2. i \in Desc /\ m[i].valid /\ m[i].type = "inst"
    BY DEF Owned
  <2> QED
    BY <2>1, <2>2, FreeInstStep
<1> QED
  BY <1>1, <1>2 DEF ExitWalk

(* rtapi_app deletes an instance, exits a component, or has run a          *)
(* destructor.                                                             *)
LEMMA RtStep ==
    ASSUME ObjInv(mem), RtInv(mem, rt), NEW h,
           (\E d \in Desc : halg_exit_rt(d) \/ halg_inst_delete(d)) \/ DtorReturns
    PROVE  ObjInv(mem') /\ RtInv(mem', rt') /\ Keeps(mem, mem', h)
<1>1. ASSUME NEW d \in Desc, halg_exit_rt(d)
      PROVE  ObjInv(mem') /\ RtInv(mem', rt') /\ Keeps(mem, mem', h)
  <2>1. IsComp(mem, d)
    BY <1>1 DEF halg_exit_rt
  <2>2. PICK m : m = halg_free_object(mem, Owned(mem, "funct", d))
    OBVIOUS
  <2>3. ExitWalk(m, d)
    BY <1>1, <2>2 DEF halg_exit_rt
  <2>4. Freed(mem, m, Owned(mem, "funct", d))
    BY <2>2, FreeIs DEF ObjInv
  <2>5. \A e \in Desc : e \in Owned(mem, "funct", d) => mem[e].type = "funct"
    BY DEF Owned
  <2>6. FreedOK(mem, m, Owned(mem, "funct", d))
    BY <2>4, <2>5, FreeLeaves
  <2>7. ObjInv(m) /\ Keeps(mem, m, h)
    BY <2>6, FreedOKKeeps
  <2>8. IsComp(m, d)
    BY <2>1, <2>4, <2>5 DEF Freed, IsComp
  <2> QED
    BY <2>3, <2>7, <2>8, ExitWalkStep
<1>2. ASSUME NEW d \in Desc, halg_inst_delete(d)
      PROVE  ObjInv(mem') /\ RtInv(mem', rt') /\ Keeps(mem, mem', h)
  <2>1. mem[d].valid /\ mem[d].type = "inst" /\ FreeInst(mem, "delinst", d)
    BY <1>2 DEF halg_inst_delete
  <2>2. Keeps(mem, mem, h)
    BY DEF Keeps
  <2> QED
    BY <2>1, <2>2, FreeInstStep
<1>3. ASSUME DtorReturns
      PROVE  ObjInv(mem') /\ RtInv(mem', rt') /\ Keeps(mem, mem', h)
  <2>1. PICK i \in Desc : /\ i = rt.inst /\ mem[i].valid /\ mem[i].type = "inst"
                          /\ mem[i].owner = rt.comp
                          /\ \A d \in Desc : mem[d].valid /\ mem[d].type = "funct" => mem[d].owner # i
    BY <1>3 DEF DtorReturns, RtInv
  <2>2. PICK m : m = free_inst_struct(mem, i)
    OBVIOUS
  <2>3. FreedOK(mem, m, {i} \cup Owned(mem, "pin", i))
    BY <2>1, <2>2, FreeInstIs
  <2>4. ObjInv(m) /\ Keeps(mem, m, h)
    BY <2>3, FreedOKKeeps
  <2>5. CASE mem' = m /\ rt' = NoCall
    BY <2>4, <2>5, NoCallRt
  <2>6. CASE ExitWalk(m, rt.comp)
    <3>1. PICK c \in Desc : c = rt.comp /\ mem[c].valid /\ mem[c].type = "comp"
      <4>1. "inst" \in Owners /\ OwnerTypes("inst") = {"comp"}
        BY OwnerTypesAre DEF Owners
      <4> QED
        BY <2>1, <4>1 DEF ObjInv, OwnerInv
    <3>2. c \notin {i} \cup Owned(mem, "pin", i)
      BY <2>1, <3>1 DEF Owned
    <3>3. m[c] = mem[c]
      BY <2>3, <3>1, <3>2 DEF FreedOK, Freed
    <3>4. IsComp(m, c)
      BY <3>1, <3>3 DEF IsComp
    <3> QED
      BY <2>4, <2>6, <3>1, <3>4, ExitWalkStep
  <2> QED
    BY <1>3, <2>1, <2>2, <2>5, <2>6 DEF DtorReturns
<1> QED
  BY <1>1, <1>2, <1>3

(* Every call that creates an object.                                      *)
LEMMA CreatesStep ==
    ASSUME ObjInv(mem), RtInv(mem, rt), NEW h, NEW d \in Desc, Fresh(d, h), Creates(d)
    PROVE  ObjInv(mem') /\ RtInv(mem', rt') /\ Keeps(mem, mem', h)
<1>1. ASSUME NEW c \in Comps, halg_xinit(c, d)
      PROVE  ObjInv(mem') /\ RtInv(mem', rt') /\ Keeps(mem, mem', h)
  BY <1>1, XinitStep DEF halg_xinit
<1>2. ASSUME NEW o \in Desc, NEW p \in Pins, halg_pin_new(p, o, d)
      PROVE  ObjInv(mem') /\ RtInv(mem', rt') /\ Keeps(mem, mem', h)
  <2>1. /\ Find("pin", p) = {} /\ HasOwningComp(o) /\ UNCHANGED rt
        /\ mem' = [mem EXCEPT ![d] = Object("pin", p, o)]
    BY <1>2 DEF halg_pin_new, MayAddTo
  <2>2. p \in Names
    BY DEF Names
  <2> QED
    BY <2>1, <2>2, PinStep
<1>3. ASSUME NEW o \in Desc, NEW f \in Functs, halg_export_funct(f, o, d)
      PROVE  ObjInv(mem') /\ RtInv(mem', rt') /\ Keeps(mem, mem', h)
  <2>1. /\ Find("funct", f) = {} /\ HasOwningComp(o) /\ rt = NoCall /\ UNCHANGED rt
        /\ mem' = [mem EXCEPT ![d] = Object("funct", f, o)]
    BY <1>3 DEF halg_export_funct, MayAddTo
  <2>2. f \in Names
    BY DEF Names
  <2> QED
    BY <2>1, <2>2, PinStep
<1>4. ASSUME NEW o \in Desc, NEW i \in Insts, halg_inst_create(i, o, d)
      PROVE  ObjInv(mem') /\ RtInv(mem', rt') /\ Keeps(mem, mem', h)
  <2>1. /\ IsComp(mem, o) /\ mem[o].name \in RtComps /\ Find("inst", i) = {} /\ UNCHANGED rt
        /\ mem' = [mem EXCEPT ![d] = Object("inst", i, o)]
    BY <1>4 DEF halg_inst_create
  <2>2. i \in Names
    BY DEF Names
  <2> QED
    BY <2>1, <2>2, TopStep
<1>5. ASSUME NEW s \in Signals, halg_signal_new(s, d)
      PROVE  ObjInv(mem') /\ RtInv(mem', rt') /\ Keeps(mem, mem', h)
  <2>1. Find("signal", s) = {} /\ UNCHANGED rt /\ mem' = [mem EXCEPT ![d] = Object("signal", s, None)]
    BY <1>5 DEF halg_signal_new
  <2>2. s \in Names
    BY DEF Names
  <2> QED
    BY <2>1, <2>2, TopStep
<1>6. ASSUME NEW g \in Groups, halg_group_new(g, d)
      PROVE  ObjInv(mem') /\ RtInv(mem', rt') /\ Keeps(mem, mem', h)
  <2>1. Find("group", g) = {} /\ UNCHANGED rt /\ mem' = [mem EXCEPT ![d] = Object("group", g, None)]
    BY <1>6 DEF halg_group_new
  <2>2. g \in Names
    BY DEF Names
  <2> QED
    BY <2>1, <2>2, TopStep
<1> QED
  BY <1>1, <1>2, <1>3, <1>4, <1>5, <1>6, MemberStep DEF Creates

(* Every call, made by another process, keeps the objects in order and     *)
(* takes nothing from haltalk.                                             *)
LEMMA HalNextStep ==
    ASSUME ObjInv(mem), RtInv(mem, rt), NEW h, HalNext(h, Pids \ HtPids)
    PROVE  ObjInv(mem') /\ RtInv(mem', rt') /\ Keeps(mem, mem', h)
<1>1. CASE \E d \in Desc : Fresh(d, h) /\ Creates(d)
  BY <1>1, CreatesStep
<1>2. ASSUME NEW d \in Desc, Changes(d, Pids \ HtPids)
      PROVE  ObjInv(mem') /\ RtInv(mem', rt') /\ Keeps(mem, mem', h)
  <2>1. CASE \/ halg_ready(d) \/ halg_bind(d) \/ halg_unbind(d)
             \/ \E pid \in Pids \ HtPids : halg_acquire(d, pid) \/ halg_release(d, pid)
    BY <2>1, RecastStep
  <2>2. CASE halg_exit(d) \/ halg_signal_delete(d) \/ halg_group_delete(d)
    BY <2>2, DeleteStep
  <2>3. CASE halg_exit_rt(d) \/ halg_inst_delete(d)
    BY <2>3, RtStep
  <2>4. CASE \E g \in Desc : halg_member_delete(g, d)
    BY <2>4, MemberDeleteStep
  <2> QED
    BY <1>2, <2>1, <2>2, <2>3, <2>4 DEF Changes
<1>3. CASE DtorReturns
  BY <1>3, RtStep
<1>4. CASE hal_sweep
  BY <1>4, SweepStep
<1> QED
  BY <1>1, <1>2, <1>3, <1>4 DEF HalNext
-----------------------------------------------------------------------------
(* What haltalk serves, while nothing is taken from it.                    *)

(* The components it serves.                                               *)
LEMMA RcompsFrame ==
    ASSUME NEW m, NEW f, NEW h, NEW s \in HtPids, NEW rc, Keeps(m, f, h), RcompsInv(m, s, rc)
    PROVE  RcompsInv(f, s, rc)
<1> SUFFICES ASSUME NEW c \in RemoteComps, rc[c] # NoRcomp
             PROVE  /\ rc[c].comp \in Desc /\ IsRemote(f, rc[c].comp)
                    /\ f[rc[c].comp].name = c /\ f[rc[c].comp].pid = s
                    /\ rc[c].pins \subseteq Owned(f, "pin", rc[c].comp)
  BY DEF RcompsInv
<1>1. PICK d : d = rc[c].comp
  OBVIOUS
<1>2. /\ d \in Desc /\ IsRemote(m, d) /\ m[d].name = c /\ m[d].pid = s
      /\ rc[c].pins \subseteq Owned(m, "pin", d)
  BY <1>1 DEF RcompsInv
<1>3. /\ IsRemote(f, d) /\ f[d].name = m[d].name /\ f[d].pid = m[d].pid
      /\ Owned(m, "pin", d) \subseteq Owned(f, "pin", d)
  BY <1>2 DEF Keeps
<1> QED
  BY <1>1, <1>2, <1>3

(* The groups it serves.                                                   *)
LEMMA GroupsFrame ==
    ASSUME NEW m, NEW f, NEW h, NEW gr, Keeps(m, f, h), GroupsInv(m, gr)
    PROVE  GroupsInv(f, gr)
<1> SUFFICES ASSUME NEW n \in Groups, gr[n] # NoGroup
             PROVE  /\ gr[n].group \in Desc /\ f[gr[n].group].valid /\ f[gr[n].group].type = "group"
                    /\ f[gr[n].group].name = n /\ f[gr[n].group].refcnt # 0
                    /\ ~DeleteThroughOther => gr[n].members \subseteq Owned(f, "member", gr[n].group)
  BY DEF GroupsInv
<1>1. PICK g : g = gr[n].group
  OBVIOUS
<1>2. /\ g \in Desc /\ m[g].valid /\ m[g].type = "group" /\ m[g].name = n /\ m[g].refcnt # 0
      /\ ~DeleteThroughOther => gr[n].members \subseteq Owned(m, "member", g)
  BY <1>1 DEF GroupsInv
<1>3. /\ f[g].valid /\ f[g].type = "group" /\ f[g].name = m[g].name /\ f[g].refcnt # 0
      /\ ~DeleteThroughOther => Owned(m, "member", g) \subseteq Owned(f, "member", g)
  BY <1>2 DEF Keeps
<1> QED
  BY <1>1, <1>2, <1>3

(* The references to groups.                                               *)
LEMMA CountFrame ==
    ASSUME NEW m, NEW f, NEW h, NEW past \in Nat, NEW gr, ObjInv(f), Keeps(m, f, h),
           CountInv(m, past, gr)
    PROVE  CountInv(f, past, gr)
<1> SUFFICES ASSUME NEW g \in Desc, f[g].valid, f[g].type = "group"
             PROVE  f[g].refcnt <= past + (IF gr[f[g].name] = NoGroup THEN 0 ELSE 1)
  BY DEF CountInv
<1>1. CASE f[g].refcnt = 0
  BY <1>1
<1>2. CASE f[g].refcnt # 0
  <2>1. m[g].valid /\ m[g].type = "group" /\ m[g].name = f[g].name /\ m[g].refcnt = f[g].refcnt
    BY <1>2 DEF Keeps
  <2> QED
    BY <2>1 DEF CountInv
<1> QED
  BY <1>1, <1>2

(* The component it creates.                                               *)
LEMMA PlaceFrame ==
    ASSUME NEW m, NEW f, NEW h, Keeps(m, f, h)
    PROVE  /\ CompAt(m, h) => CompAt(f, h)
           /\ \A nm \in RemoteComps, s \in HtPids : HeldAt(m, nm, s) => HeldAt(f, nm, s)
<1>1. CompAt(m, h) => CompAt(f, h)
  BY DEF CompAt, Keeps
<1>2. ASSUME NEW nm \in RemoteComps, NEW s \in HtPids, HeldAt(m, nm, s)
      PROVE  HeldAt(f, nm, s)
  <2>1. PICK d \in Desc : IsComp(m, d) /\ m[d].name = nm /\ m[d].pid = s
    BY <1>2 DEF HeldAt
  <2>2. IsRemote(f, d) /\ f[d].name = nm /\ f[d].pid = s
    BY <2>1 DEF Keeps, IsRemote
  <2> QED
    BY <2>2 DEF HeldAt, IsRemote
<1> QED
  BY <1>1, <1>2

(* The starts that are over are fewer than a count can hold, while haltalk *)
(* runs.                                                                   *)
LEMMA PastIs ==
    ASSUME TalkInv
    PROVE  /\ IsFiniteSet(Past) /\ Cardinality(Past) \in Nat
           /\ self # None => /\ self \in HtPids /\ self \notin Past
                             /\ IsFiniteSet(Past \cup {self})
                             /\ Cardinality(Past \cup {self}) = Cardinality(Past) + 1
                             /\ Cardinality(Past) + 1 <= MaxRefs
<1>1. Past \subseteq HtPids
  BY DEF Past
<1>2. IsFiniteSet(Past)
  BY <1>1, FS_Subset, TalkAssumption
<1>3. Cardinality(Past) \in Nat
  BY <1>2, FS_CardinalityType
<1>4. ASSUME self # None
      PROVE  /\ self \in HtPids /\ self \notin Past
             /\ IsFiniteSet(Past \cup {self})
             /\ Cardinality(Past \cup {self}) = Cardinality(Past) + 1
             /\ Cardinality(Past) + 1 <= MaxRefs
  <2>1. self \in HtPids /\ self \notin Past
    BY <1>4 DEF TalkInv, TalkTypeOK, Past
  <2>2. /\ IsFiniteSet(Past \cup {self})
        /\ Cardinality(Past \cup {self}) = Cardinality(Past) + 1
    BY <1>2, <2>1, FS_AddElement
  <2>3. Cardinality(Past \cup {self}) <= Cardinality(HtPids)
    BY <1>1, <2>1, FS_Subset, TalkAssumption
  <2>4. Cardinality(HtPids) \in Nat
    BY FS_CardinalityType, TalkAssumption
  <2> QED
    BY <1>3, <2>1, <2>2, <2>3, <2>4, TalkAssumption, Counts
<1> QED
  BY <1>2, <1>3, <1>4

(* The objects have their types.                                           *)
LEMMA MemType ==
    ASSUME NEW m, NEW r, ObjInv(m), RtInv(m, r), m = mem', r = rt'
    PROVE  TypeOK'
BY DEF ObjInv, RtInv, Header, TypeOK

(* A step that takes nothing from haltalk and that leaves what it serves.  *)
LEMMA KeptStep ==
    ASSUME TalkInv, NEW h, ObjInv(mem'), RtInv(mem', rt'), Keeps(mem, mem', h),
           UNCHANGED <<self, unborn, rcomps, groups>>
    PROVE  TypeOK' /\ ServedInv' /\ GroupRefInv'
<1>1. PICK f : f = mem'
  OBVIOUS
<1>2. ObjInv(f) /\ Keeps(mem, f, h)
  BY <1>1
<1>3. RcompsInv(f, self, rcomps)
  <2>1. CASE self = None
    BY <2>1 DEF TalkInv, PlaceInv, RcompsInv
  <2>2. CASE self # None
    BY <1>2, <2>2, PastIs, RcompsFrame DEF TalkInv, ServedInv
  <2> QED
    BY <2>1, <2>2
<1>4. GroupsInv(f, groups)
  BY <1>2, GroupsFrame DEF TalkInv, ServedInv
<1>5. CountInv(f, Cardinality(Past), groups)
  BY <1>2, PastIs, CountFrame DEF TalkInv, GroupRefInv
<1>6. ServedInv'
  BY <1>1, <1>3, <1>4 DEF ServedInv
<1>7. GroupRefInv'
  BY <1>1, <1>5 DEF GroupRefInv, Past
<1> QED
  BY <1>6, <1>7, MemType

(* Nothing happens in the HAL.                                             *)
LEMMA QuietStep ==
    ASSUME TalkInv, NEW h, UNCHANGED <<mem, rt>>
    PROVE  ObjInv(mem') /\ RtInv(mem', rt') /\ Keeps(mem, mem', h)
<1>1. Keeps(mem, mem, h)
  BY DEF Keeps
<1> QED
  BY <1>1 DEF TalkInv

\* The places in a request, and the ones where a component is being created.
Asked == {"release", "bind", "xinit", "pins", "acquire", "compile", "undo", "subscribe"}
Creating == {"pins", "acquire", "compile", "undo"}

(* A step of a request that takes nothing from haltalk itself and leaves   *)
(* what it serves.                                                         *)
LEMMA RequestStep ==
    ASSUME TalkInv, NEW h, ObjInv(mem'), RtInv(mem', rt'), Keeps(mem, mem', h),
           UNCHANGED <<self, unborn, rcomps, groups>>, pc \notin {"down", "dead"},
           pc' \in {"setup", "setup2", "loop", "cleanup"} \cup Asked,
           req' \in RemoteComps \cup {None}, pins' \subseteq Pins, comp' \in Desc \cup {None},
           pc' \in Asked => req' \in RemoteComps,
           pc' = "release" => rcomps[req'] # NoRcomp,
           pc' \in Creating => CompAt(mem', comp'),
           pc' = "compile" => HeldAt(mem', req', self)
    PROVE  TalkInv'
<1>1. TypeOK' /\ ServedInv' /\ GroupRefInv'
  BY KeptStep
<1>2. TalkTypeOK'
  BY <1>1 DEF TalkInv, TalkTypeOK, Asked
<1>3. PlaceInv'
  <2>1. self # None /\ pc' \notin {"down", "dead"}
    BY DEF TalkInv, PlaceInv, Asked
  <2>2. self' # None /\ self' \notin unborn'
    BY <2>1 DEF TalkInv, PlaceInv
  <2>3. pc' = "release" => rcomps'[req'] # NoRcomp
    OBVIOUS
  <2>4. pc' = "compile" => HeldAt(mem', req', self')
    OBVIOUS
  <2> QED
    BY <2>1, <2>2, <2>3, <2>4 DEF PlaceInv, Asked, Creating
<1> QED
  BY <1>1, <1>2, <1>3 DEF TalkInv

(* What the invariant says of a request.                                   *)
LEMMA RequestIs ==
    ASSUME TalkInv
    PROVE  /\ pc \notin {"down", "dead"} => self \in HtPids /\ self \in Pids /\ self # None
           /\ req \in RemoteComps \cup {None} /\ pins \subseteq Pins /\ comp \in Desc \cup {None}
           /\ pc \in Asked => req \in RemoteComps
           /\ pc = "release" => rcomps[req] # NoRcomp
           /\ pc \in Creating => CompAt(mem, comp)
           /\ pc = "compile" => HeldAt(mem, req, self)
           /\ ObjInv(mem) /\ RtInv(mem, rt)
<1>1. pc \notin {"down", "dead"} => self \in HtPids /\ self # None
  BY DEF TalkInv, PlaceInv, TalkTypeOK
<1> QED
  BY <1>1, TalkAssumption DEF TalkInv, PlaceInv, TalkTypeOK, Asked, Creating

(* A component that is served.                                             *)
LEMMA RcompIs ==
    ASSUME TalkInv, NEW c \in RemoteComps, rcomps[c] # NoRcomp
    PROVE  /\ rcomps[c].comp \in Desc /\ IsRemote(mem, rcomps[c].comp)
           /\ mem[rcomps[c].comp].name = c /\ mem[rcomps[c].comp].pid = self
BY DEF TalkInv, ServedInv, RcompsInv

(* Calls of other processes.                                               *)
LEMMA OthersStep ==
    ASSUME TalkInv, Others
    PROVE  TalkInv'
<1>1. HalNext(comp, Pids \ HtPids) /\ UNCHANGED htVars
  BY DEF Others
<1>2. ObjInv(mem') /\ RtInv(mem', rt') /\ Keeps(mem, mem', comp)
  BY <1>1, HalNextStep, RequestIs
<1>3. UNCHANGED <<self, unborn, pc, req, pins, comp, rcomps, groups>>
  BY <1>1 DEF htVars
<1>4. TypeOK' /\ ServedInv' /\ GroupRefInv'
  BY <1>2, <1>3, KeptStep
<1>5. TalkTypeOK'
  BY <1>3, <1>4 DEF TalkInv, TalkTypeOK
<1>6. PlaceInv'
  <2>1. pc \in Creating => CompAt(mem', comp)
    BY <1>2, PlaceFrame, RequestIs
  <2>2. pc = "compile" => HeldAt(mem', req, self)
    BY <1>2, PlaceFrame, RequestIs DEF Asked
  <2>3. pc \in Creating => CompAt(mem', comp')
    BY <1>3, <2>1
  <2>4. pc = "compile" => HeldAt(mem', req', self')
    BY <1>3, <2>2
  <2> QED
    BY <1>3, <2>3, <2>4 DEF TalkInv, PlaceInv, Creating
<1> QED
  BY <1>2, <1>4, <1>5, <1>6 DEF TalkInv

(* A served component is bound or unbound.                                 *)
LEMMA BindStep ==
    ASSUME TalkInv, NEW c \in RemoteComps, rcomps[c] # NoRcomp, NEW h, UNCHANGED rt,
           \/ mem' = Bound(mem, rcomps[c].comp)
           \/ mem' = Unbound(mem, rcomps[c].comp)
    PROVE  ObjInv(mem') /\ RtInv(mem', rt') /\ Keeps(mem, mem', h)
<1>1. PICK d \in Desc : d = rcomps[c].comp /\ IsRemote(mem, d)
  BY RcompIs
<1>2. CASE mem' = mem
  BY <1>2, QuietStep
<1>3. CASE mem' # mem
  <2>1. halg_bind(d) \/ halg_unbind(d)
    BY <1>1, <1>3 DEF halg_bind, halg_unbind, Bound, Unbound
  <2> QED
    BY <2>1, RecastStep, RequestIs
<1> QED
  BY <1>2, <1>3

(* unbind_comp().                                                          *)
LEMMA UnbindCompStep ==
    ASSUME TalkInv, NEW c \in RemoteComps, unbind_comp(c)
    PROVE  TalkInv'
<1>1. /\ pc = "cleanup" /\ rcomps[c] # NoRcomp /\ pc' = "release" /\ req' = c
      /\ UNCHANGED <<pins, comp, rt, self, unborn, rcomps, groups>>
  BY DEF unbind_comp
<1>2. mem' = mem \/ mem' = Unbound(mem, rcomps[c].comp)
  BY DEF unbind_comp
<1>3. ObjInv(mem') /\ RtInv(mem', rt') /\ Keeps(mem, mem', None)
  BY <1>1, <1>2, QuietStep, BindStep
<1> QED
  BY <1>1, <1>3, RequestStep, RequestIs DEF Asked, Creating

(* A subscribed component is bound.                                        *)
LEMMA SubscribeBindsStep ==
    ASSUME TalkInv, SubscribeBinds
    PROVE  TalkInv'
<1>1. /\ pc = "subscribe" /\ pc' = "loop" /\ req' = None /\ pins' = {} /\ comp' = None
      /\ UNCHANGED <<rt, self, unborn, rcomps, groups>>
  BY DEF SubscribeBinds, InLoop
<1>2. mem' = mem \/ (rcomps[req] # NoRcomp /\ mem' = Bound(mem, rcomps[req].comp))
  BY DEF SubscribeBinds
<1>3. ObjInv(mem') /\ RtInv(mem', rt') /\ Keeps(mem, mem', None)
  BY <1>1, <1>2, QuietStep, BindStep, RequestIs DEF Asked
<1> QED
  BY <1>1, <1>3, RequestStep DEF Asked, Creating

(* The last subscriber is gone.                                            *)
LEMMA UnsubscribeStep ==
    ASSUME TalkInv, NEW c \in RemoteComps, Unsubscribe(c)
    PROVE  TalkInv'
<1>1. /\ pc = "loop" /\ rcomps[c] # NoRcomp /\ mem' = Unbound(mem, rcomps[c].comp)
      /\ UNCHANGED <<rt, self, unborn, pc, req, pins, comp, rcomps, groups>>
  BY DEF Unsubscribe, htVars
<1>2. ObjInv(mem') /\ RtInv(mem', rt') /\ Keeps(mem, mem', None)
  BY <1>1, BindStep
<1> QED
  BY <1>1, <1>2, RequestStep, RequestIs DEF Asked, Creating

(* haltalk is told to end, or decides on a request.                        *)
LEMMA GotoStep ==
    ASSUME TalkInv, Terminate \/ BindDecide
    PROVE  TalkInv'
<1>1. CASE Terminate
  <2>1. /\ pc = "loop" /\ pc' = "cleanup"
        /\ UNCHANGED <<mem, rt, self, unborn, req, pins, comp, rcomps, groups>>
    BY <1>1 DEF Terminate, Goto
  <2>2. ObjInv(mem') /\ RtInv(mem', rt') /\ Keeps(mem, mem', None)
    BY <2>1, QuietStep
  <2> QED
    BY <2>1, <2>2, RequestStep, RequestIs DEF Asked, Creating
<1>2. CASE BindDecide
  <2>1. /\ pc = "bind" /\ UNCHANGED <<mem, rt, self, unborn, rcomps, groups>>
        /\ \/ pc' = "loop" /\ req' = None /\ pins' = {} /\ comp' = None
           \/ pc' = "xinit" /\ UNCHANGED <<req, pins, comp>>
    BY <1>2 DEF BindDecide, Goto, InLoop
  <2>2. ObjInv(mem') /\ RtInv(mem', rt') /\ Keeps(mem, mem', None)
    BY <2>1, QuietStep
  <2> QED
    BY <2>1, <2>2, RequestStep, RequestIs DEF Asked, Creating
<1> QED
  BY <1>1, <1>2
-----------------------------------------------------------------------------
(* create_rcomp()                                                          *)

(* The component is made, or somebody else has one of the name.            *)
LEMMA CreateXinitStep ==
    ASSUME TalkInv, NEW d \in Desc, CreateXinit(d)
    PROVE  TalkInv'
<1>1. pc = "xinit" /\ req \in RemoteComps /\ UNCHANGED <<rt, self, unborn, rcomps, groups>>
  BY RequestIs DEF CreateXinit, Asked
<1>2. CASE mem' = mem /\ InLoop
  <2>1. pc' = "loop" /\ req' = None /\ pins' = {} /\ comp' = None
    BY <1>2 DEF InLoop
  <2>2. ObjInv(mem') /\ RtInv(mem', rt') /\ Keeps(mem, mem', None)
    BY <1>1, <1>2, QuietStep
  <2> QED
    BY <1>1, <2>1, <2>2, RequestStep DEF Asked, Creating
<1>3. CASE /\ Find("comp", req) = {} /\ Fresh(d, None)
           /\ mem' = Xinit(mem, d, req)
           /\ pc' = "pins" /\ comp' = d /\ UNCHANGED <<req, pins>>
  <2>1. PICK c \in Comps : c = req
    BY <1>1 DEF Comps
  <2>2. ObjInv(mem') /\ RtInv(mem', rt') /\ Keeps(mem, mem', None)
    BY <1>1, <1>3, <2>1, XinitStep, RequestIs
  <2>3. mem'[d].name = req
    <3>1. PICK o : o = [Object("comp", c, None) EXCEPT !.state = "initializing"]
      OBVIOUS
    <3>2. o.name = c
      BY <3>1, XinitIs
    <3>3. mem \in [Desc -> Header]
      BY RequestIs DEF ObjInv
    <3>4. mem'[d] = o
      BY <1>3, <2>1, <3>1, <3>3 DEF Xinit
    <3> QED
      BY <2>1, <3>2, <3>4
  <2>4. CompAt(mem', comp')
    BY <1>1, <1>3, <2>3 DEF CompAt
  <2>5. /\ pc \notin {"down", "dead"} /\ pc' = "pins" /\ req' \in RemoteComps /\ pins' \subseteq Pins
        /\ comp' \in Desc \cup {None}
    BY <1>1, <1>3, RequestIs
  <2> QED
    BY <1>1, <2>2, <2>4, <2>5, RequestStep DEF Asked
<1> QED
  BY <1>2, <1>3 DEF CreateXinit

(* A pin is made, or creation is given up.                                 *)
LEMMA CreatePinStep ==
    ASSUME TalkInv, NEW p \in Pins, NEW d \in Desc, CreatePin(p, d)
    PROVE  TalkInv'
<1>1. /\ pc = "pins" /\ req \in RemoteComps /\ CompAt(mem, comp)
      /\ UNCHANGED <<rt, self, unborn, rcomps, groups>>
  BY RequestIs DEF CreatePin, Asked, Creating
<1>2. CASE mem' = mem /\ Goto("undo")
  <2>1. pc' = "undo" /\ UNCHANGED <<req, pins, comp>>
    BY <1>2 DEF Goto
  <2>2. ObjInv(mem') /\ RtInv(mem', rt') /\ Keeps(mem, mem', None)
    BY <1>1, <1>2, QuietStep
  <2>3. CompAt(mem', comp')
    BY <1>1, <1>2, <2>1
  <2> QED
    BY <1>1, <2>1, <2>2, <2>3, RequestStep, RequestIs DEF Asked
<1>3. CASE /\ Find("pin", p) = {} /\ IsComp(mem, comp) /\ Fresh(d, comp)
           /\ mem' = [mem EXCEPT ![d] = Object("pin", p, comp)]
           /\ pins' = pins \ {p} /\ UNCHANGED <<pc, req, comp>>
  <2>1. PICK ow \in Desc : ow = comp
    BY <1>1 DEF CompAt
  <2>2. p \in Names /\ HasOwningComp(ow)
    BY <1>3, <2>1 DEF Names, HasOwningComp
  <2>3. ObjInv(mem') /\ RtInv(mem', rt') /\ Keeps(mem, mem', ow)
    BY <1>1, <1>3, <2>1, <2>2, PinStep, RequestIs
  <2>4. CompAt(mem', ow)
    BY <1>1, <2>1, <2>3, PlaceFrame
  <2>5. CompAt(mem', comp')
    BY <1>3, <2>1, <2>4
  <2>6. pc \notin {"down", "dead"} /\ pc' = "pins" /\ req' \in RemoteComps /\ pins' \subseteq Pins
        /\ comp' \in Desc \cup {None}
    BY <1>1, <1>3, RequestIs
  <2> QED
    BY <1>1, <2>3, <2>5, <2>6, RequestStep DEF Asked
<1> QED
  BY <1>2, <1>3 DEF CreatePin

(* It is made ready, if it is still there.                                 *)
LEMMA CreateReadyStep ==
    ASSUME TalkInv, CreateReady
    PROVE  TalkInv'
<1>1. /\ pc = "pins" /\ req \in RemoteComps /\ CompAt(mem, comp) /\ pc' = "acquire"
      /\ UNCHANGED <<rt, self, unborn, rcomps, groups, req, pins, comp>>
  BY RequestIs DEF CreateReady, Asked, Creating, Goto
<1>2. PICK d \in Desc : d = comp
  BY <1>1 DEF CompAt
<1>3. mem' = mem \/ halg_ready(d)
  BY <1>1, <1>2 DEF CreateReady, halg_ready
<1>4. ObjInv(mem') /\ RtInv(mem', rt') /\ Keeps(mem, mem', d)
  BY <1>1, <1>3, QuietStep, RecastStep, RequestIs
<1>5. CompAt(mem', d)
  BY <1>1, <1>2, <1>4, PlaceFrame
<1>6. CompAt(mem', comp')
  BY <1>1, <1>2, <1>5
<1>7. /\ pc \notin {"down", "dead"} /\ req' \in RemoteComps /\ pins' \subseteq Pins /\ comp' \in Desc \cup {None}
  BY <1>1, RequestIs
<1> QED
  BY <1>1, <1>4, <1>6, <1>7, RequestStep DEF Asked

(* The component of the name is acquired, if it can be.                    *)
LEMMA CreateAcquireStep ==
    ASSUME TalkInv, CreateAcquire
    PROVE  TalkInv'
<1>1. /\ pc = "acquire" /\ req \in RemoteComps /\ CompAt(mem, comp)
      /\ UNCHANGED <<rt, self, unborn, rcomps, groups>>
  BY RequestIs DEF CreateAcquire, Asked, Creating
<1>2. CASE mem' = mem /\ Goto("undo")
  <2>1. pc' = "undo" /\ UNCHANGED <<req, pins, comp>>
    BY <1>2 DEF Goto
  <2>2. ObjInv(mem') /\ RtInv(mem', rt') /\ Keeps(mem, mem', None)
    BY <1>1, <1>2, QuietStep
  <2>3. CompAt(mem', comp')
    BY <1>1, <1>2, <2>1
  <2> QED
    BY <1>1, <2>1, <2>2, <2>3, RequestStep, RequestIs DEF Asked
<1>3. ASSUME NEW d \in Find("comp", req), MayAcquire(mem, d), mem' = Acquired(mem, d, self),
             Goto("compile")
      PROVE  TalkInv'
  <2>1. d \in Desc /\ IsComp(mem, d) /\ mem[d].name = req
    BY DEF Find, IsComp
  <2>2. PICK h \in Desc : h = comp
    BY <1>1 DEF CompAt
  <2>3. PICK s \in HtPids : s = self /\ s \in Pids
    BY <1>1, RequestIs
  <2>4. Recast(mem, mem', d) /\ mem'[d].pid = s
    BY <1>3, <2>1, <2>3, AcquiredIs, RequestIs
  <2>5. mem[d].pid \notin HtPids
    BY <1>3, <2>1, Disowned, RequestIs, TalkAssumption, Counts DEF ObjInv
  <2>6. ObjInv(mem') /\ Keeps(mem, mem', h) /\ SameShape(mem, mem')
    BY <2>1, <2>4, <2>5, RecastKeeps, RecastServes, RequestIs
  <2>7. RtInv(mem', rt)
    BY <2>6, ShapeRt, RequestIs
  <2>8. CompAt(mem', h)
    BY <1>1, <2>2, <2>6, PlaceFrame
  <2>9. HeldAt(mem', req, s)
    BY <2>1, <2>4, <2>6 DEF HeldAt, IsComp, SameShape
  <2>10. pc' = "compile" /\ UNCHANGED <<req, pins, comp>>
    BY <1>3 DEF Goto
  <2>11. CompAt(mem', comp') /\ HeldAt(mem', req', self)
    BY <2>2, <2>3, <2>8, <2>9, <2>10
  <2>12. /\ pc \notin {"down", "dead"} /\ req' \in RemoteComps /\ pins' \subseteq Pins
         /\ comp' \in Desc \cup {None} /\ RtInv(mem', rt')
    BY <1>1, <2>7, <2>10, RequestIs
  <2> QED
    BY <1>1, <2>6, <2>10, <2>11, <2>12, RequestStep DEF Asked
<1> QED
  BY <1>2, <1>3 DEF CreateAcquire

(* Creation is given up: the component goes, unless it is acquired.        *)
LEMMA CreateUndoStep ==
    ASSUME TalkInv, CreateUndo
    PROVE  TalkInv'
<1>1. /\ pc = "undo" /\ CompAt(mem, comp)
      /\ pc' = "loop" /\ req' = None /\ pins' = {} /\ comp' = None
      /\ UNCHANGED <<rt, self, unborn, rcomps, groups>>
  BY RequestIs DEF CreateUndo, Creating, InLoop
<1>2. PICK d \in Desc : d = comp
  BY <1>1 DEF CompAt
<1>3. mem' = mem \/ halg_exit(d)
  BY <1>1, <1>2 DEF CreateUndo, halg_exit, CompAt, IsRemote
<1>4. ObjInv(mem') /\ RtInv(mem', rt') /\ Keeps(mem, mem', None)
  BY <1>1, <1>3, QuietStep, DeleteStep, RequestIs
<1> QED
  BY <1>1, <1>4, RequestStep DEF Asked, Creating

(* The component of the name is compiled, and served from then on.         *)
LEMMA CreateCompileStep ==
    ASSUME TalkInv, CreateCompile
    PROVE  TalkInv'
<1>1. /\ pc = "compile" /\ req \in RemoteComps /\ CompAt(mem, comp) /\ HeldAt(mem, req, self)
      /\ UNCHANGED <<mem, rt, self, unborn, groups>>
  BY RequestIs DEF CreateCompile, Asked, Creating
<1>2. PICK d \in Find("comp", req) :
          \/ Goto("undo") /\ UNCHANGED rcomps
          \/ rcomps' = [rcomps EXCEPT ![req] = CompiledComp(mem, d)] /\ InLoop
  BY DEF CreateCompile
<1>3. CASE Goto("undo") /\ UNCHANGED rcomps
  <2>1. pc' = "undo" /\ UNCHANGED <<req, pins, comp>>
    BY <1>3 DEF Goto
  <2>2. ObjInv(mem') /\ RtInv(mem', rt') /\ Keeps(mem, mem', None)
    BY <1>1, QuietStep
  <2>3. CompAt(mem', comp')
    BY <1>1, <2>1
  <2> QED
    BY <1>1, <1>3, <2>1, <2>2, <2>3, RequestStep, RequestIs DEF Asked
<1>4. CASE rcomps' = [rcomps EXCEPT ![req] = CompiledComp(mem, d)] /\ InLoop
  <2>1. pc' = "loop" /\ req' = None /\ pins' = {} /\ comp' = None
    BY <1>4 DEF InLoop
  <2>2. d \in Desc /\ IsComp(mem, d) /\ mem[d].name = req /\ mem[d].pid = self
    <3>1. d \in Desc /\ IsComp(mem, d) /\ mem[d].name = req
      BY DEF Find, IsComp
    <3>2. PICK e \in Desc : IsComp(mem, e) /\ mem[e].name = req /\ mem[e].pid = self
      BY <1>1 DEF HeldAt
    <3>3. d = e
      BY <3>1, <3>2 DEF TalkInv, ObjInv, UniqueInv, IsComp
    <3> QED
      BY <3>1, <3>2, <3>3
  <2>3. PICK q : q = CompiledComp(mem, d)
    OBVIOUS
  <2>4. q.comp = d /\ q.pins = Owned(mem, "pin", d)
        /\ q \in [comp : Desc \cup {None}, pins : SUBSET Desc]
    BY <2>2, <2>3 DEF CompiledComp, Owned
  <2>5. rcomps \in [RemoteComps -> [comp : Desc \cup {None}, pins : SUBSET Desc]]
    BY DEF TalkInv, TalkTypeOK
  <2>6. /\ rcomps' \in [RemoteComps -> [comp : Desc \cup {None}, pins : SUBSET Desc]]
        /\ rcomps'[req] = q /\ \A c \in RemoteComps : c # req => rcomps'[c] = rcomps[c]
    BY <1>1, <1>4, <2>3, <2>4, <2>5
  <2>7. RcompsInv(mem, self, rcomps')
    <3>1. RcompsInv(mem, self, rcomps)
      BY DEF TalkInv, ServedInv
    <3> SUFFICES ASSUME NEW c \in RemoteComps, rcomps'[c] # NoRcomp
                 PROVE  /\ rcomps'[c].comp \in Desc /\ IsRemote(mem, rcomps'[c].comp)
                        /\ mem[rcomps'[c].comp].name = c /\ mem[rcomps'[c].comp].pid = self
                        /\ rcomps'[c].pins \subseteq Owned(mem, "pin", rcomps'[c].comp)
      BY DEF RcompsInv
    <3>2. CASE c # req
      BY <2>6, <3>1, <3>2 DEF RcompsInv
    <3>3. CASE c = req
      BY <1>1, <2>2, <2>4, <2>6, <3>3 DEF IsRemote
    <3> QED
      BY <3>2, <3>3
  <2>8. ServedInv'
    BY <1>1, <2>7 DEF TalkInv, ServedInv
  <2>9. GroupRefInv'
    BY <1>1 DEF TalkInv, GroupRefInv, Past
  <2>10. TalkTypeOK'
    BY <1>1, <2>1, <2>6 DEF TalkInv, TalkTypeOK, TypeOK
  <2>11. PlaceInv'
    BY <1>1, <2>1 DEF TalkInv, PlaceInv
  <2>12. ObjInv(mem)' /\ RtInv(mem, rt)'
    BY <1>1 DEF TalkInv
  <2> QED
    BY <2>8, <2>9, <2>10, <2>11, <2>12 DEF TalkInv
<1> QED
  BY <1>2, <1>3, <1>4
-----------------------------------------------------------------------------
(* haltalk adopts components.                                              *)

(* A served component stays, as long as its holder does.                   *)
LEMMA RcompsShape ==
    ASSUME NEW m, NEW f, NEW s, NEW rc, SameShape(m, f), RcompsInv(m, s, rc),
           \A c \in RemoteComps : rc[c] # NoRcomp => f[rc[c].comp].pid = m[rc[c].comp].pid
    PROVE  RcompsInv(f, s, rc)
<1>1. \A t, e : Owned(m, t, e) \subseteq Owned(f, t, e)
  BY DEF Owned, SameShape
<1>2. \A d \in Desc : IsRemote(f, d) <=> IsRemote(m, d)
  BY DEF SameShape, IsRemote, IsComp
<1> SUFFICES ASSUME NEW c \in RemoteComps, rc[c] # NoRcomp
             PROVE  /\ rc[c].comp \in Desc /\ IsRemote(f, rc[c].comp)
                    /\ f[rc[c].comp].name = c /\ f[rc[c].comp].pid = s
                    /\ rc[c].pins \subseteq Owned(f, "pin", rc[c].comp)
  BY DEF RcompsInv
<1>3. PICK d : d = rc[c].comp
  OBVIOUS
<1>4. /\ d \in Desc /\ IsRemote(m, d) /\ m[d].name = c /\ m[d].pid = s
      /\ rc[c].pins \subseteq Owned(m, "pin", d) /\ f[d].pid = m[d].pid
  BY <1>3 DEF RcompsInv
<1>5. f[d].name = m[d].name
  BY <1>4 DEF SameShape
<1> QED
  BY <1>1, <1>2, <1>3, <1>4, <1>5

(* The components are acquired.                                            *)
LEMMA AdoptedIs ==
    ASSUME TalkInv, pc \notin {"down", "dead"}, NEW f, f = AdoptedMem
    PROVE  /\ ObjInv(f) /\ SameShape(mem, f) /\ RtInv(f, rt) /\ Keeps(mem, f, None)
           /\ \A d \in Adoptable : f[d].pid = self
<1>1. mem \in [Desc -> Header] /\ ObjInv(mem)
  BY RequestIs DEF ObjInv
<1>2. PICK s \in HtPids : s = self /\ s \in Pids /\ s # None
  BY RequestIs
<1>3. ASSUME NEW d \in Adoptable
      PROVE  /\ f[d] \in Header /\ f[d].pid = s /\ f[d].type = mem[d].type /\ f[d].name = mem[d].name
             /\ f[d].owner = mem[d].owner /\ f[d].valid = mem[d].valid /\ f[d].sig = mem[d].sig
             /\ f[d].refcnt = 1 /\ d \in Desc /\ IsRemote(mem, d) /\ mem[d].pid = None
  <2>1. d \in Desc /\ IsRemote(mem, d) /\ mem[d].pid = None /\ MayAcquire(mem, d)
    BY DEF Adoptable, MayAcquire
  <2>2. PICK a : a = Acquired(mem, d, s)
    OBVIOUS
  <2>3. Recast(mem, a, d) /\ a[d].pid = s
    BY <1>1, <1>2, <2>1, <2>2, AcquiredIs
  <2>4. f[d] = a[d]
    BY <1>2, <2>1, <2>2 DEF AdoptedMem
  <2> QED
    BY <1>2, <2>1, <2>3, <2>4 DEF Recast
<1>4. \A d \in Desc : d \notin Adoptable => f[d] = mem[d]
  BY DEF AdoptedMem
<1>5. f \in [Desc -> Header]
  <2>1. \A d \in Desc : f[d] \in Header
    BY <1>1, <1>3, <1>4
  <2> QED
    BY <2>1 DEF AdoptedMem
<1>6. SameShape(mem, f)
  BY <1>3, <1>4 DEF SameShape
<1>7. RefInv(f)
  <2> SUFFICES ASSUME NEW a \in Desc, f[a].valid
               PROVE  /\ f[a].type \in Owners => f[a].refcnt = 0
                      /\ f[a].type = "comp" => /\ f[a].refcnt = IF f[a].pid = None THEN 0 ELSE 1
                                               /\ f[a].pid # None => f[a].name \in RemoteComps
                      /\ f[a].type = "group" => f[a].name \in Groups
                      /\ f[a].type # "unused"
    BY DEF RefInv
  <2>1. CASE a \notin Adoptable
    BY <1>1, <1>4, <2>1 DEF ObjInv, RefInv
  <2>2. CASE a \in Adoptable
    BY <1>2, <1>3, <2>2 DEF Owners, IsRemote, IsComp
  <2> QED
    BY <2>1, <2>2
<1>8. \A e \in Desc : mem[e].valid /\ mem[e].type = "member" => f[mem[e].sig].refcnt # 0
  <2> SUFFICES ASSUME NEW e \in Desc, mem[e].valid, mem[e].type = "member"
               PROVE  f[mem[e].sig].refcnt # 0
    OBVIOUS
  <2>1. PICK q \in Desc : q = mem[e].sig /\ mem[q].type = "signal" /\ mem[q].refcnt # 0
    BY <1>1 DEF ObjInv, SigInv
  <2>2. q \notin Adoptable
    BY <1>3, <2>1 DEF IsRemote, IsComp
  <2> QED
    BY <1>4, <2>1, <2>2
<1>9. ObjInv(f)
  BY <1>1, <1>5, <1>6, <1>7, <1>8, RetagKeeps
<1>10. Keeps(mem, f, None)
  <2>1. \A d \in Desc : IsRemote(mem, d) /\ mem[d].pid \in HtPids => f[d].pid = mem[d].pid
    BY <1>3, <1>4, TalkAssumption, Counts
  <2>2. \A g \in Desc : mem[g].valid /\ mem[g].type = "group" => f[g].refcnt = mem[g].refcnt
    BY <1>3, <1>4 DEF IsRemote, IsComp
  <2> QED
    BY <1>6, <2>1, <2>2, RetagServes
<1>11. RtInv(f, rt)
  BY <1>6, ShapeRt, RequestIs
<1> QED
  BY <1>2, <1>3, <1>6, <1>9, <1>10, <1>11

(* The adopted components are served, and the others still are.            *)
LEMMA AdoptedServed ==
    ASSUME TalkInv, pc \notin {"down", "dead"}, NEW f, f = AdoptedMem, NEW rc, rc = Adopted
    PROVE  /\ RcompsInv(f, self, rc)
           /\ rc \in [RemoteComps -> [comp : Desc \cup {None}, pins : SUBSET Desc]]
<1>1. SameShape(mem, f) /\ Keeps(mem, f, None) /\ \A d \in Adoptable : f[d].pid = self
  BY AdoptedIs
<1>2. RcompsInv(f, self, rcomps)
  BY <1>1, RequestIs, RcompsFrame DEF TalkInv, ServedInv
<1>3. rcomps \in [RemoteComps -> [comp : Desc \cup {None}, pins : SUBSET Desc]]
  BY DEF TalkInv, TalkTypeOK
<1>4. ASSUME NEW c \in RemoteComps
      PROVE  \/ rc[c] = rcomps[c]
             \/ \E d \in Adoptable : mem[d].name = c /\ rc[c] = CompiledComp(mem, d)
  <2>1. PICK new : new = {d \in Adoptable : mem[d].name = c /\ Owned(mem, "pin", d) # {}}
    OBVIOUS
  <2>2. rc[c] = IF new = {} THEN rcomps[c] ELSE CompiledComp(mem, CHOOSE d \in new : TRUE)
    BY <2>1 DEF Adopted
  <2>3. CASE new = {}
    BY <2>2, <2>3
  <2>4. CASE new # {}
    <3>1. PICK d : d = CHOOSE e \in new : TRUE
      OBVIOUS
    <3>2. d \in new
      BY <2>4, <3>1
    <3> QED
      BY <2>1, <2>2, <2>4, <3>1, <3>2
  <2> QED
    BY <2>3, <2>4
<1>5. ASSUME NEW d \in Adoptable
      PROVE  /\ CompiledComp(mem, d).comp = d /\ CompiledComp(mem, d).pins = Owned(mem, "pin", d)
             /\ CompiledComp(mem, d) \in [comp : Desc \cup {None}, pins : SUBSET Desc]
             /\ d \in Desc /\ IsRemote(mem, d)
  BY DEF CompiledComp, Owned, Adoptable
<1>6. rc \in [RemoteComps -> [comp : Desc \cup {None}, pins : SUBSET Desc]]
  <2>1. \A c \in RemoteComps : rc[c] \in [comp : Desc \cup {None}, pins : SUBSET Desc]
    BY <1>3, <1>4, <1>5
  <2> QED
    BY <2>1 DEF Adopted
<1>7. RcompsInv(f, self, rc)
  <2> SUFFICES ASSUME NEW c \in RemoteComps, rc[c] # NoRcomp
               PROVE  /\ rc[c].comp \in Desc /\ IsRemote(f, rc[c].comp)
                      /\ f[rc[c].comp].name = c /\ f[rc[c].comp].pid = self
                      /\ rc[c].pins \subseteq Owned(f, "pin", rc[c].comp)
    BY DEF RcompsInv
  <2>1. CASE rc[c] = rcomps[c]
    BY <1>2, <2>1 DEF RcompsInv
  <2>2. ASSUME NEW d \in Adoptable, mem[d].name = c, rc[c] = CompiledComp(mem, d)
        PROVE  /\ rc[c].comp \in Desc /\ IsRemote(f, rc[c].comp)
               /\ f[rc[c].comp].name = c /\ f[rc[c].comp].pid = self
               /\ rc[c].pins \subseteq Owned(f, "pin", rc[c].comp)
    <3>1. rc[c].comp = d /\ rc[c].pins = Owned(mem, "pin", d) /\ d \in Desc /\ IsRemote(mem, d)
      BY <1>5, <2>2
    <3>2. IsRemote(f, d) /\ f[d].name = c /\ f[d].pid = self
      BY <1>1, <2>2, <3>1 DEF SameShape, IsRemote, IsComp
    <3>3. Owned(mem, "pin", d) \subseteq Owned(f, "pin", d)
      BY <1>1 DEF SameShape, Owned
    <3> QED
      BY <3>1, <3>2, <3>3
  <2> QED
    BY <1>4, <2>1, <2>2
<1> QED
  BY <1>6, <1>7

(* scan_components(), at the start and in a request.                       *)
LEMMA ScanStep ==
    ASSUME TalkInv, pc \notin {"down", "dead"}, scan_comps, UNCHANGED <<rt, self, unborn, groups>>,
           pc' \in {"loop", "bind", "subscribe"}, req' \in RemoteComps \cup {None},
           pins' \subseteq Pins, comp' \in Desc \cup {None}, pc' \in Asked => req' \in RemoteComps
    PROVE  TalkInv'
<1>1. PICK f : f = AdoptedMem /\ f = mem'
  BY DEF scan_comps
<1>2. PICK rc : rc = Adopted /\ rc = rcomps'
  BY DEF scan_comps
<1>3. ObjInv(f) /\ RtInv(f, rt) /\ Keeps(mem, f, None)
  BY <1>1, AdoptedIs
<1>4. RcompsInv(f, self, rc) /\ rc \in [RemoteComps -> [comp : Desc \cup {None}, pins : SUBSET Desc]]
  BY <1>1, <1>2, AdoptedServed
<1>5. GroupsInv(f, groups)
  BY <1>3, GroupsFrame DEF TalkInv, ServedInv
<1>6. CountInv(f, Cardinality(Past), groups)
  BY <1>3, PastIs, CountFrame DEF TalkInv, GroupRefInv
<1>7. ServedInv' /\ GroupRefInv'
  BY <1>1, <1>2, <1>4, <1>5, <1>6 DEF ServedInv, GroupRefInv, Past
<1>8. ObjInv(mem') /\ RtInv(mem', rt')
  BY <1>1, <1>3
<1>9. TalkTypeOK'
  <2>1. TypeOK'
    BY <1>8, MemType
  <2> QED
    BY <1>2, <1>4, <2>1 DEF TalkInv, TalkTypeOK
<1>10. PlaceInv'
  <2>1. self # None /\ self \notin unborn /\ self' # None
    BY DEF TalkInv, PlaceInv
  <2> QED
    BY <2>1 DEF PlaceInv, Asked
<1> QED
  BY <1>7, <1>8, <1>9, <1>10 DEF TalkInv

(* A bind request, and a subscription.                                     *)
LEMMA BindRequestStep ==
    ASSUME TalkInv, NEW c \in RemoteComps,
           (\E ps \in SUBSET Pins : BindRequest(c, ps)) \/ Subscribe(c)
    PROVE  TalkInv'
<1>1. ASSUME NEW ps \in SUBSET Pins, BindRequest(c, ps)
      PROVE  TalkInv'
  <2>1. /\ pc = "loop" /\ scan_comps /\ UNCHANGED <<rt, self, unborn, groups>>
        /\ pc' = "bind" /\ req' = c /\ pins' = ps /\ comp' = comp
    BY <1>1 DEF BindRequest
  <2> QED
    BY <2>1, ScanStep, RequestIs
<1>2. CASE Subscribe(c)
  <2>1. /\ pc = "loop" /\ scan_comps /\ UNCHANGED <<rt, self, unborn, groups>>
        /\ pc' = "subscribe" /\ req' = c /\ pins' = pins /\ comp' = comp
    BY <1>2 DEF Subscribe
  <2> QED
    BY <2>1, ScanStep, RequestIs
<1> QED
  BY <1>1, <1>2
-----------------------------------------------------------------------------
(* haltalk starts and ends.                                                *)

(* A start takes a pid that was not used before.                           *)
LEMMA StartStep ==
    ASSUME TalkInv, NEW pid \in HtPids, Start(pid)
    PROVE  TalkInv'
<1>1. /\ pc = "down" /\ pid \in unborn /\ self' = pid /\ unborn' = unborn \ {pid} /\ pc' = "setup"
      /\ UNCHANGED <<mem, rt, rcomps, groups, req, pins, comp>>
  BY DEF Start, Goto
<1>2. self = None /\ pid # None /\ None \notin HtPids
  BY <1>1, TalkAssumption, Counts DEF TalkInv, PlaceInv
<1>3. Past' = Past
  BY <1>1, <1>2 DEF Past
<1>4. GroupRefInv'
  BY <1>1, <1>3 DEF TalkInv, GroupRefInv
<1>5. /\ \A c \in RemoteComps : rcomps'[c] = NoRcomp
      /\ GroupsInv(mem', groups')
  BY <1>1, <1>2 DEF TalkInv, PlaceInv, ServedInv
<1>6. ServedInv'
  BY <1>5 DEF ServedInv, RcompsInv
<1>7. TalkTypeOK'
  BY <1>1 DEF TalkInv, TalkTypeOK, TypeOK
<1>8. PlaceInv'
  BY <1>1, <1>2 DEF PlaceInv
<1>9. ObjInv(mem') /\ RtInv(mem', rt')
  BY <1>1 DEF TalkInv
<1> QED
  BY <1>4, <1>6, <1>7, <1>8, <1>9 DEF TalkInv

(* haltalk ends, and may leave a reference to each group behind.           *)
LEMMA DownStep ==
    ASSUME TalkInv, pc \notin {"down", "dead"}, ObjInv(mem'), RtInv(mem', rt'),
           NEW where \in {"down", "dead"}, Down(where), UNCHANGED unborn,
           \A g \in Desc : mem'[g].valid /\ mem'[g].type = "group"
                              => mem'[g].refcnt <= Cardinality(Past) + 1
    PROVE  TalkInv'
<1>1. /\ self' = None /\ pc' = where /\ req' = None /\ pins' = {} /\ comp' = None
      /\ rcomps' = [c \in RemoteComps |-> NoRcomp] /\ groups' = [g \in Groups |-> NoGroup]
  BY DEF Down
<1>2. /\ \A c \in RemoteComps : rcomps'[c] = NoRcomp
      /\ \A g \in Groups : groups'[g] = NoGroup
  BY <1>1
<1>3. self \in HtPids /\ self # None /\ self \notin unborn /\ unborn \subseteq HtPids
      /\ None \notin HtPids
  BY RequestIs, TalkAssumption, Counts DEF TalkInv, PlaceInv, TalkTypeOK
<1>4. Past' = Past \cup {self}
  BY <1>1, <1>3 DEF Past
<1>5. Cardinality(Past') = Cardinality(Past) + 1
  BY <1>3, <1>4, PastIs
<1>6. GroupRefInv'
  <2>1. PICK past \in Nat : past = Cardinality(Past) + 1
    BY PastIs
  <2>2. ASSUME NEW g \in Desc, mem'[g].valid, mem'[g].type = "group"
        PROVE  mem'[g].refcnt <= past + (IF groups'[mem'[g].name] = NoGroup THEN 0 ELSE 1)
    <3>1. mem'[g].name \in Groups
      BY <2>2 DEF ObjInv, RefInv
    <3>2. groups'[mem'[g].name] = NoGroup
      BY <1>2, <3>1
    <3>3. mem'[g].refcnt <= past
      BY <2>1, <2>2
    <3> QED
      BY <2>1, <3>2, <3>3
  <2>3. CountInv(mem', past, groups')
    BY <2>2 DEF CountInv
  <2> QED
    BY <1>5, <2>1, <2>3 DEF GroupRefInv
<1>7. ServedInv'
  BY <1>2 DEF ServedInv, RcompsInv, GroupsInv
<1>8. TalkTypeOK'
  <2>1. TypeOK'
    BY MemType
  <2>2. NoRcomp \in [comp : Desc \cup {None}, pins : SUBSET Desc]
        /\ NoGroup \in [group : Desc \cup {None}, members : SUBSET Desc]
    BY DEF NoRcomp, NoGroup
  <2>3. /\ rcomps' \in [RemoteComps -> [comp : Desc \cup {None}, pins : SUBSET Desc]]
        /\ groups' \in [Groups -> [group : Desc \cup {None}, members : SUBSET Desc]]
    BY <1>1, <2>2
  <2> QED
    BY <1>1, <1>3, <2>1, <2>3 DEF TalkTypeOK
<1>9. PlaceInv'
  <2>1. self' \notin unborn'
    BY <1>1, <1>3
  <2> QED
    BY <1>1, <1>2, <2>1 DEF PlaceInv
<1> QED
  BY <1>6, <1>7, <1>8, <1>9 DEF TalkInv

(* A bound on the references of a group, from the count.                   *)
LEMMA CountBound ==
    ASSUME NEW m, NEW past \in Nat, NEW gr, m \in [Desc -> Header], CountInv(m, past, gr),
           NEW g \in Desc, m[g].valid, m[g].type = "group"
    PROVE  /\ m[g].refcnt \in Nat /\ m[g].refcnt <= past + 1
           /\ gr[m[g].name] = NoGroup => m[g].refcnt <= past
<1>1. m[g].refcnt \in Nat
  BY HeaderFields, Counts
<1> QED
  BY <1>1 DEF CountInv

(* haltalk exits or is killed.                                             *)
LEMMA EndStep ==
    ASSUME TalkInv, Exited \/ Crash
    PROVE  TalkInv'
<1>1. PICK where \in {"down", "dead"} : Down(where) /\ UNCHANGED <<mem, rt, unborn>>
  BY DEF Exited, Crash
<1>2. pc \notin {"down", "dead"}
  BY DEF Exited, Crash, TalkInv, PlaceInv
<1>3. ObjInv(mem') /\ RtInv(mem', rt')
  BY <1>1 DEF TalkInv
<1>4. \A g \in Desc : mem[g].valid /\ mem[g].type = "group" => mem[g].refcnt <= Cardinality(Past) + 1
  BY CountBound, PastIs DEF TalkInv, GroupRefInv, ObjInv
<1>5. \A g \in Desc : mem'[g].valid /\ mem'[g].type = "group"
                         => mem'[g].refcnt <= Cardinality(Past) + 1
  BY <1>1, <1>4
<1> QED
  BY <1>1, <1>2, <1>3, <1>5, DownStep

(* The components are adopted at the start, or the start fails.            *)
LEMMA SetupCompsStep ==
    ASSUME TalkInv, SetupComps
    PROVE  TalkInv'
<1>1. pc = "setup2" /\ UNCHANGED <<rt, unborn>>
  BY DEF SetupComps
<1>2. CASE scan_comps /\ Goto("loop") /\ UNCHANGED <<self, groups>>
  BY <1>1, <1>2, ScanStep, RequestIs DEF Goto, Asked
<1>3. CASE mem' = AdoptedMem /\ Down("dead")
  <2>1. PICK f : f = AdoptedMem /\ f = mem'
    BY <1>3
  <2>2. ObjInv(f) /\ RtInv(f, rt) /\ Keeps(mem, f, None)
    BY <1>1, <2>1, AdoptedIs
  <2>3. CountInv(f, Cardinality(Past), groups)
    BY <2>2, PastIs, CountFrame DEF TalkInv, GroupRefInv
  <2>4. \A g \in Desc : f[g].valid /\ f[g].type = "group" => f[g].refcnt <= Cardinality(Past) + 1
    BY <2>2, <2>3, PastIs, CountBound DEF ObjInv
  <2> QED
    BY <1>1, <1>3, <2>1, <2>2, <2>4, DownStep
<1> QED
  BY <1>2, <1>3 DEF SetupComps
-----------------------------------------------------------------------------
(* haltalk refers to groups.                                               *)

(* halpr_group_compile() adds a reference to each new group.               *)
LEMMA CompiledIs ==
    ASSUME TalkInv, pc \notin {"down", "dead"}, NEW f, f = CompiledMem
    PROVE  /\ ObjInv(f) /\ SameShape(mem, f) /\ RtInv(f, rt)
           /\ \A d \in Desc : IF d \in NewGroups /\ Compilable(d)
                              THEN f[d].refcnt = mem[d].refcnt + 1 /\ mem[d].refcnt <= Cardinality(Past)
                              ELSE f[d] = mem[d]
           /\ \A d \in NewGroups : d \in Desc /\ mem[d].valid /\ mem[d].type = "group"
                                   /\ groups[mem[d].name] = NoGroup
           /\ mem \in [Desc -> Header]
<1>1. mem \in [Desc -> Header] /\ ObjInv(mem)
  BY RequestIs DEF ObjInv
<1>2. PICK past \in Nat : past = Cardinality(Past) /\ past + 1 <= MaxRefs
  BY RequestIs, PastIs
<1>3. \A d \in NewGroups : d \in Desc /\ mem[d].valid /\ mem[d].type = "group"
                           /\ groups[mem[d].name] = NoGroup
  BY DEF NewGroups
<1>4. ASSUME NEW d \in NewGroups
      PROVE  mem[d].refcnt \in Nat /\ mem[d].refcnt <= past /\ mem[d].refcnt < MaxRefs
  <2>1. CountInv(mem, past, groups)
    BY <1>2 DEF TalkInv, GroupRefInv
  <2>2. mem[d].refcnt \in Nat /\ mem[d].refcnt <= past
    BY <1>1, <1>3, <2>1, CountBound
  <2> QED
    BY <1>2, <2>2, Counts
<1>5. \A d \in Desc : f[d] = IF d \in NewGroups /\ Compilable(d) THEN ho_incref(mem[d]) ELSE mem[d]
  BY DEF CompiledMem
<1>6. ASSUME NEW d \in NewGroups, Compilable(d)
      PROVE  /\ f[d] \in Header /\ f[d].refcnt = mem[d].refcnt + 1
             /\ f[d].type = mem[d].type /\ f[d].name = mem[d].name /\ f[d].owner = mem[d].owner
             /\ f[d].valid = mem[d].valid /\ f[d].sig = mem[d].sig
  <2>1. PICK o \in Header : o = mem[d]
    BY <1>1, <1>3
  <2>2. PICK q : q = ho_incref(o)
    OBVIOUS
  <2>3. /\ q \in Header /\ q.refcnt = o.refcnt + 1 /\ q.type = o.type /\ q.name = o.name
        /\ q.owner = o.owner /\ q.valid = o.valid /\ q.sig = o.sig
    BY <1>4, <2>1, <2>2, CountChanges
  <2>4. f[d] = q
    BY <1>3, <1>5, <1>6, <2>1, <2>2
  <2> QED
    BY <2>1, <2>3, <2>4
<1>7. \A d \in Desc : ~(d \in NewGroups /\ Compilable(d)) => f[d] = mem[d]
  BY <1>5
<1>8. f \in [Desc -> Header]
  <2>1. \A d \in Desc : f[d] \in Header
    BY <1>1, <1>6, <1>7
  <2> QED
    BY <2>1 DEF CompiledMem
<1>9. SameShape(mem, f)
  BY <1>6, <1>7 DEF SameShape
<1>10. RefInv(f)
  <2> SUFFICES ASSUME NEW a \in Desc, f[a].valid
               PROVE  /\ f[a].type \in Owners => f[a].refcnt = 0
                      /\ f[a].type = "comp" => /\ f[a].refcnt = IF f[a].pid = None THEN 0 ELSE 1
                                               /\ f[a].pid # None => f[a].name \in RemoteComps
                      /\ f[a].type = "group" => f[a].name \in Groups
                      /\ f[a].type # "unused"
    BY DEF RefInv
  <2>1. CASE ~(a \in NewGroups /\ Compilable(a))
    BY <1>1, <1>7, <2>1 DEF ObjInv, RefInv
  <2>2. CASE a \in NewGroups /\ Compilable(a)
    <3>1. mem[a].type = "group" /\ mem[a].name \in Groups
      BY <1>1, <1>3, <2>2 DEF ObjInv, RefInv
    <3> QED
      BY <1>6, <2>2, <3>1 DEF Owners
  <2> QED
    BY <2>1, <2>2
<1>11. \A e \in Desc : mem[e].valid /\ mem[e].type = "member" => f[mem[e].sig].refcnt # 0
  <2> SUFFICES ASSUME NEW e \in Desc, mem[e].valid, mem[e].type = "member"
               PROVE  f[mem[e].sig].refcnt # 0
    OBVIOUS
  <2>1. PICK q \in Desc : q = mem[e].sig /\ mem[q].type = "signal" /\ mem[q].refcnt # 0
    BY <1>1 DEF ObjInv, SigInv
  <2>2. q \notin NewGroups
    BY <1>3, <2>1
  <2> QED
    BY <1>7, <2>1, <2>2
<1>12. ObjInv(f)
  BY <1>1, <1>8, <1>9, <1>10, <1>11, RetagKeeps
<1>13. RtInv(f, rt)
  BY <1>9, ShapeRt, RequestIs
<1> QED
  BY <1>1, <1>2, <1>3, <1>4, <1>6, <1>7, <1>9, <1>12, <1>13

(* The new groups are served, and the others still are.                    *)
LEMMA CompiledServed ==
    ASSUME TalkInv, pc \notin {"down", "dead"}, NEW f, f = CompiledMem, NEW gr,
           gr = [n \in Groups |->
                    LET new == {g \in NewGroups : mem[g].name = n /\ Compilable(g)}
                    IN IF new = {} THEN groups[n]
                       ELSE LET g == CHOOSE d \in new : TRUE
                            IN [group |-> g, members |-> Owned(mem, "member", g)]]
    PROVE  /\ GroupsInv(f, gr) /\ CountInv(f, Cardinality(Past), gr)
           /\ gr \in [Groups -> [group : Desc \cup {None}, members : SUBSET Desc]]
<1>1. /\ ObjInv(f) /\ SameShape(mem, f)
      /\ \A d \in Desc : IF d \in NewGroups /\ Compilable(d)
                         THEN f[d].refcnt = mem[d].refcnt + 1 /\ mem[d].refcnt <= Cardinality(Past)
                         ELSE f[d] = mem[d]
      /\ \A d \in NewGroups : d \in Desc /\ mem[d].valid /\ mem[d].type = "group"
                              /\ groups[mem[d].name] = NoGroup
      /\ mem \in [Desc -> Header]
  BY CompiledIs
<1>2. ASSUME NEW n \in Groups
      PROVE  \/ /\ gr[n] = groups[n]
                /\ \A g \in NewGroups : mem[g].name = n => ~Compilable(g)
             \/ \E g \in NewGroups : /\ mem[g].name = n /\ Compilable(g)
                                     /\ gr[n] = [group |-> g, members |-> Owned(mem, "member", g)]
  <2>1. PICK new : new = {g \in NewGroups : mem[g].name = n /\ Compilable(g)}
    OBVIOUS
  <2>2. gr[n] = IF new = {} THEN groups[n]
                ELSE [group |-> CHOOSE d \in new : TRUE,
                      members |-> Owned(mem, "member", CHOOSE d \in new : TRUE)]
    BY <2>1
  <2>3. CASE new = {}
    BY <2>1, <2>2, <2>3
  <2>4. CASE new # {}
    <3>1. PICK g : g = CHOOSE d \in new : TRUE
      OBVIOUS
    <3>2. g \in new
      BY <2>4, <3>1
    <3> QED
      BY <2>1, <2>2, <2>4, <3>1, <3>2
  <2> QED
    BY <2>3, <2>4
<1>3. ASSUME NEW g \in NewGroups, NEW q, q = [group |-> g, members |-> Owned(mem, "member", g)]
      PROVE  /\ q.group = g /\ q.members = Owned(mem, "member", g) /\ q # NoGroup
             /\ q \in [group : Desc \cup {None}, members : SUBSET Desc]
  <2>1. g \in Desc /\ g # None
    BY <1>1, Counts
  <2>2. q.group = g /\ q.members = Owned(mem, "member", g)
    BY <1>3
  <2>3. NoGroup.group = None
    BY DEF NoGroup
  <2>4. Owned(mem, "member", g) \subseteq Desc
    BY DEF Owned
  <2> QED
    BY <1>3, <2>1, <2>2, <2>3, <2>4
<1>4. gr \in [Groups -> [group : Desc \cup {None}, members : SUBSET Desc]]
  <2>1. groups \in [Groups -> [group : Desc \cup {None}, members : SUBSET Desc]]
    BY DEF TalkInv, TalkTypeOK
  <2>2. \A n \in Groups : gr[n] \in [group : Desc \cup {None}, members : SUBSET Desc]
    BY <1>2, <1>3, <2>1
  <2> QED
    BY <2>2
<1>5. \A t, e : Owned(mem, t, e) \subseteq Owned(f, t, e)
  BY <1>1 DEF Owned, SameShape
<1>6. GroupsInv(f, gr)
  <2> SUFFICES ASSUME NEW n \in Groups, gr[n] # NoGroup
               PROVE  /\ gr[n].group \in Desc /\ f[gr[n].group].valid /\ f[gr[n].group].type = "group"
                      /\ f[gr[n].group].name = n /\ f[gr[n].group].refcnt # 0
                      /\ ~DeleteThroughOther => gr[n].members \subseteq Owned(f, "member", gr[n].group)
    BY DEF GroupsInv
  <2>1. CASE gr[n] = groups[n]
    <3>1. PICK g : g = groups[n].group
      OBVIOUS
    <3>2. /\ g \in Desc /\ mem[g].valid /\ mem[g].type = "group" /\ mem[g].name = n
          /\ mem[g].refcnt # 0
          /\ ~DeleteThroughOther => groups[n].members \subseteq Owned(mem, "member", g)
      BY <2>1, <3>1 DEF TalkInv, ServedInv, GroupsInv
    <3>3. g \notin NewGroups
      BY <1>1, <2>1, <3>2
    <3>4. f[g] = mem[g]
      BY <1>1, <3>2, <3>3
    <3> QED
      BY <1>5, <2>1, <3>1, <3>2, <3>4
  <2>2. ASSUME NEW g \in NewGroups, mem[g].name = n, Compilable(g),
               gr[n] = [group |-> g, members |-> Owned(mem, "member", g)]
        PROVE  /\ gr[n].group \in Desc /\ f[gr[n].group].valid /\ f[gr[n].group].type = "group"
               /\ f[gr[n].group].name = n /\ f[gr[n].group].refcnt # 0
               /\ gr[n].members \subseteq Owned(f, "member", gr[n].group)
    <3>1. gr[n].group = g /\ gr[n].members = Owned(mem, "member", g)
      BY <1>3, <2>2
    <3>2. g \in Desc /\ mem[g].valid /\ mem[g].type = "group" /\ f[g].refcnt = mem[g].refcnt + 1
      BY <1>1, <2>2
    <3>3. mem[g].refcnt \in Nat
      BY <1>1, <3>2, HeaderFields, Counts
    <3>4. f[g].refcnt # 0
      BY <3>2, <3>3
    <3>5. f[g].valid /\ f[g].type = "group" /\ f[g].name = n
      BY <1>1, <2>2, <3>2 DEF SameShape
    <3>6. Owned(mem, "member", g) \subseteq Owned(f, "member", g)
      BY <1>5
    <3> QED
      BY <3>1, <3>2, <3>4, <3>5, <3>6, Zenon
  <2> QED
    BY <1>2, <2>1, <2>2
<1>7. CountInv(f, Cardinality(Past), gr)
  <2>1. PICK past \in Nat : past = Cardinality(Past)
    BY PastIs
  <2>2. CountInv(mem, past, groups)
    BY <2>1 DEF TalkInv, GroupRefInv
  <2>3. ASSUME NEW g \in Desc, f[g].valid, f[g].type = "group"
        PROVE  f[g].refcnt <= past + (IF gr[f[g].name] = NoGroup THEN 0 ELSE 1)
    <3>1. PICK n \in Groups : n = f[g].name
      BY <1>1, <2>3 DEF ObjInv, RefInv
    <3>2. mem[g].valid /\ mem[g].type = "group" /\ mem[g].name = n
      BY <1>1, <2>3, <3>1 DEF SameShape
    <3>3. /\ mem[g].refcnt \in Nat /\ mem[g].refcnt <= past + 1
          /\ groups[n] = NoGroup => mem[g].refcnt <= past
      BY <1>1, <2>2, <3>2, CountBound
    <3>4. CASE gr[n] = NoGroup
      <4>1. gr[n] = groups[n] /\ ~(g \in NewGroups /\ Compilable(g))
        BY <1>2, <1>3, <3>2, <3>4
      <4>2. f[g] = mem[g]
        BY <1>1, <4>1
      <4> QED
        BY <3>1, <3>3, <3>4, <4>1, <4>2
    <3>5. CASE gr[n] # NoGroup
      <4>1. f[g].refcnt <= past + 1
        <5>1. CASE g \in NewGroups /\ Compilable(g)
          BY <1>1, <2>1, <3>3, <5>1
        <5>2. CASE ~(g \in NewGroups /\ Compilable(g))
          BY <1>1, <3>3, <5>2
        <5> QED
          BY <5>1, <5>2
      <4> QED
        BY <3>1, <3>5, <4>1
    <3> QED
      BY <3>4, <3>5
  <2>4. CountInv(f, past, gr)
    BY <2>3 DEF CountInv
  <2> QED
    BY <2>1, <2>4
<1> QED
  BY <1>4, <1>6, <1>7

(* scan_groups(), at the start and in a request.                           *)
LEMMA ScanGroupsStep ==
    ASSUME TalkInv, pc \notin {"down", "dead"}, scan_groups, UNCHANGED <<rt, self, unborn, rcomps, req, pins, comp>>,
           pc' \in {"setup2", "loop"}
    PROVE  TalkInv'
<1>1. PICK f : f = CompiledMem /\ f = mem'
  BY DEF scan_groups
<1>2. PICK gr : /\ gr = [n \in Groups |->
                            LET new == {g \in NewGroups : mem[g].name = n /\ Compilable(g)}
                            IN IF new = {} THEN groups[n]
                               ELSE LET g == CHOOSE d \in new : TRUE
                                    IN [group |-> g, members |-> Owned(mem, "member", g)]]
                /\ gr = groups'
  BY DEF scan_groups
<1>3. /\ ObjInv(f) /\ RtInv(f, rt) /\ SameShape(mem, f)
      /\ \A d \in Desc : d \notin NewGroups => f[d] = mem[d]
      /\ \A d \in NewGroups : mem[d].type = "group"
  BY <1>1, CompiledIs
<1>4. /\ GroupsInv(f, gr) /\ CountInv(f, Cardinality(Past), gr)
      /\ gr \in [Groups -> [group : Desc \cup {None}, members : SUBSET Desc]]
  BY <1>1, <1>2, CompiledServed
<1>5. RcompsInv(f, self, rcomps)
  <2>1. \A c \in RemoteComps : rcomps[c] # NoRcomp => f[rcomps[c].comp].pid = mem[rcomps[c].comp].pid
    BY <1>3, RcompIs DEF IsRemote, IsComp
  <2> QED
    BY <1>3, <2>1, RcompsShape DEF TalkInv, ServedInv
<1>6. ServedInv' /\ GroupRefInv'
  BY <1>1, <1>2, <1>4, <1>5 DEF ServedInv, GroupRefInv, Past
<1>7. ObjInv(mem') /\ RtInv(mem', rt')
  BY <1>1, <1>3
<1>8. TalkTypeOK'
  <2>1. TypeOK'
    BY <1>7, MemType
  <2> QED
    BY <1>2, <1>4, <2>1 DEF TalkInv, TalkTypeOK
<1>9. PlaceInv'
  <2>1. self # None /\ self \notin unborn
    BY DEF TalkInv, PlaceInv
  <2> QED
    BY <2>1 DEF PlaceInv
<1> QED
  BY <1>6, <1>7, <1>8, <1>9 DEF TalkInv

(* The groups are compiled at the start, or the start fails; and when a    *)
(* client subscribes.                                                      *)
LEMMA GroupsStep ==
    ASSUME TalkInv, SetupGroups \/ SubscribeGroup
    PROVE  TalkInv'
<1>1. CASE SubscribeGroup
  BY <1>1, ScanGroupsStep DEF SubscribeGroup, request
<1>2. CASE SetupGroups /\ scan_groups /\ Goto("setup2") /\ UNCHANGED <<self, rcomps>>
  BY <1>2, ScanGroupsStep DEF SetupGroups, Goto
<1>3. CASE SetupGroups /\ mem' = CompiledMem /\ Down("dead")
  <2>1. pc = "setup" /\ UNCHANGED <<rt, unborn>>
    BY <1>3 DEF SetupGroups
  <2>2. PICK f : f = CompiledMem /\ f = mem'
    BY <1>3
  <2>3. /\ ObjInv(f) /\ RtInv(f, rt) /\ SameShape(mem, f) /\ mem \in [Desc -> Header]
        /\ \A d \in Desc : IF d \in NewGroups /\ Compilable(d)
                           THEN f[d].refcnt = mem[d].refcnt + 1 /\ mem[d].refcnt <= Cardinality(Past)
                           ELSE f[d] = mem[d]
    BY <2>1, <2>2, CompiledIs
  <2>4. ASSUME NEW g \in Desc, f[g].valid, f[g].type = "group"
        PROVE  f[g].refcnt <= Cardinality(Past) + 1
    <3>1. mem[g].valid /\ mem[g].type = "group"
      BY <2>3, <2>4 DEF SameShape
    <3>2. PICK past \in Nat : past = Cardinality(Past)
      BY PastIs
    <3>3. mem[g].refcnt \in Nat /\ mem[g].refcnt <= past + 1
      BY <2>3, <3>1, <3>2, CountBound DEF TalkInv, GroupRefInv
    <3> QED
      BY <2>3, <3>2, <3>3
  <2> QED
    BY <1>3, <2>1, <2>2, <2>3, <2>4, DownStep
<1> QED
  BY <1>1, <1>2, <1>3 DEF SetupGroups

(* The groups that are served, when only their counts change.              *)
LEMMA GroupsShape ==
    ASSUME NEW m, NEW f, NEW gr, NEW past, SameShape(m, f), GroupsInv(m, gr), CountInv(m, past, gr),
           \A g \in Desc : m[g].type = "group" => f[g].refcnt = m[g].refcnt
    PROVE  GroupsInv(f, gr) /\ CountInv(f, past, gr)
<1>1. \A t, e : Owned(m, t, e) \subseteq Owned(f, t, e)
  BY DEF Owned, SameShape
<1>2. GroupsInv(f, gr)
  <2> SUFFICES ASSUME NEW n \in Groups, gr[n] # NoGroup
               PROVE  /\ gr[n].group \in Desc /\ f[gr[n].group].valid /\ f[gr[n].group].type = "group"
                      /\ f[gr[n].group].name = n /\ f[gr[n].group].refcnt # 0
                      /\ ~DeleteThroughOther => gr[n].members \subseteq Owned(f, "member", gr[n].group)
    BY DEF GroupsInv
  <2>1. PICK g : g = gr[n].group
    OBVIOUS
  <2>2. /\ g \in Desc /\ m[g].valid /\ m[g].type = "group" /\ m[g].name = n /\ m[g].refcnt # 0
        /\ ~DeleteThroughOther => gr[n].members \subseteq Owned(m, "member", g)
    BY <2>1 DEF GroupsInv
  <2>3. f[g].valid /\ f[g].type = "group" /\ f[g].name = n /\ f[g].refcnt # 0
    BY <2>2 DEF SameShape
  <2> QED
    BY <1>1, <2>1, <2>2, <2>3
<1>3. CountInv(f, past, gr)
  BY DEF CountInv, SameShape
<1> QED
  BY <1>2, <1>3

(* release_comp(): haltalk gives a component back.                         *)
LEMMA ReleaseCompStep ==
    ASSUME TalkInv, release_comp
    PROVE  TalkInv'
<1>1. /\ pc = "release" /\ req \in RemoteComps /\ rcomps[req] # NoRcomp
      /\ mem' = Released(mem, rcomps[req].comp, self)
      /\ rcomps' = [rcomps EXCEPT ![req] = NoRcomp]
      /\ pc' = "cleanup" /\ req' = None /\ UNCHANGED <<pins, comp, rt, self, unborn, groups>>
  BY RequestIs DEF release_comp, Asked
<1>2. PICK d \in Desc : d = rcomps[req].comp /\ IsRemote(mem, d) /\ mem[d].name = req /\ mem[d].pid = self
  BY <1>1, RcompIs
<1>3. PICK f : f = mem'
  OBVIOUS
<1>4. PICK s \in Pids : s = self /\ s # None
  BY <1>1, RequestIs
<1>5. Recast(mem, f, d)
  BY <1>1, <1>2, <1>3, <1>4, ReleasedIs, RequestIs
<1>6. ObjInv(f) /\ SameShape(mem, f)
  BY <1>5, RecastKeeps, RequestIs
<1>7. RtInv(f, rt)
  BY <1>6, ShapeRt, RequestIs
<1>8. \A e \in Desc : e # d => f[e] = mem[e]
  BY <1>5 DEF Recast
<1>9. PICK rc : rc = rcomps'
  OBVIOUS
<1>10. /\ rc[req] = NoRcomp /\ \A c \in RemoteComps : c # req => rc[c] = rcomps[c]
       /\ rc \in [RemoteComps -> [comp : Desc \cup {None}, pins : SUBSET Desc]]
  <2>1. rcomps \in [RemoteComps -> [comp : Desc \cup {None}, pins : SUBSET Desc]]
    BY DEF TalkInv, TalkTypeOK
  <2>2. NoRcomp \in [comp : Desc \cup {None}, pins : SUBSET Desc]
    BY DEF NoRcomp
  <2> QED
    BY <1>1, <1>9, <2>1, <2>2
<1>11. RcompsInv(f, self, rc)
  <2>1. RcompsInv(mem, self, rc)
    <3>1. RcompsInv(mem, self, rcomps)
      BY DEF TalkInv, ServedInv
    <3> QED
      BY <1>10, <3>1 DEF RcompsInv
  <2>2. ASSUME NEW c \in RemoteComps, rc[c] # NoRcomp
        PROVE  f[rc[c].comp].pid = mem[rc[c].comp].pid
    <3>1. c # req /\ rc[c].comp \in Desc /\ mem[rc[c].comp].name = c
      BY <1>10, <2>1, <2>2 DEF RcompsInv
    <3>2. rc[c].comp # d
      BY <1>2, <3>1
    <3> QED
      BY <1>8, <3>1, <3>2
  <2> QED
    BY <1>6, <2>1, <2>2, RcompsShape
<1>12. GroupsInv(f, groups) /\ CountInv(f, Cardinality(Past), groups)
  <2>1. \A g \in Desc : mem[g].type = "group" => f[g].refcnt = mem[g].refcnt
    BY <1>2, <1>8 DEF IsRemote, IsComp
  <2> QED
    BY <1>6, <2>1, GroupsShape DEF TalkInv, ServedInv, GroupRefInv
<1>13. ServedInv' /\ GroupRefInv'
  BY <1>1, <1>3, <1>9, <1>11, <1>12 DEF ServedInv, GroupRefInv, Past
<1>14. ObjInv(mem') /\ RtInv(mem', rt')
  BY <1>1, <1>3, <1>6, <1>7
<1>15. TalkTypeOK'
  <2>1. TypeOK'
    BY <1>14, MemType
  <2> QED
    BY <1>1, <1>9, <1>10, <2>1 DEF TalkInv, TalkTypeOK
<1>16. PlaceInv'
  <2>1. self # None /\ self \notin unborn
    BY <1>1 DEF TalkInv, PlaceInv
  <2> QED
    BY <1>1, <2>1 DEF PlaceInv
<1> QED
  BY <1>13, <1>14, <1>15, <1>16 DEF TalkInv

(* release_group(): haltalk gives its reference to a group back.           *)
LEMMA ReleaseGroupStep ==
    ASSUME TalkInv, NEW n \in Groups, release_group(n)
    PROVE  TalkInv'
<1>1. /\ pc = "cleanup" /\ groups[n] # NoGroup /\ \A c \in RemoteComps : rcomps[c] = NoRcomp
      /\ mem' = [d \in Desc |-> IF d \in Find("group", n) THEN ho_decref(mem[d]) ELSE mem[d]]
      /\ groups' = [groups EXCEPT ![n] = NoGroup]
      /\ UNCHANGED <<rt, self, unborn, pc, req, pins, comp, rcomps>>
  BY DEF release_group, request
<1>2. ObjInv(mem) /\ mem \in [Desc -> Header] /\ RtInv(mem, rt)
  BY RequestIs DEF ObjInv
<1>3. PICK e \in Desc : /\ e = groups[n].group /\ mem[e].valid /\ mem[e].type = "group"
                        /\ mem[e].name = n /\ mem[e].refcnt # 0
  BY <1>1 DEF TalkInv, ServedInv, GroupsInv
<1>4. \A d \in Desc : d \in Find("group", n) <=> d = e
  BY <1>2, <1>3 DEF Find, ObjInv, UniqueInv
<1>5. PICK f : f = mem'
  OBVIOUS
<1>6. PICK q : q = ho_decref(mem[e])
  OBVIOUS
<1>7. /\ q \in Header /\ q.refcnt = mem[e].refcnt - 1 /\ q.type = "group" /\ q.name = n
      /\ q.owner = mem[e].owner /\ q.valid = mem[e].valid /\ q.sig = mem[e].sig
      /\ mem[e].refcnt \in Nat
  <2>1. PICK o \in Header : o = mem[e] /\ o.refcnt \in Nat
    BY <1>2, HeaderFields, Counts
  <2>2. q = ho_decref(o)
    BY <1>6, <2>1
  <2> QED
    BY <1>3, <2>1, <2>2, CountChanges
<1>8. f \in [Desc -> Header] /\ f[e] = q /\ \A d \in Desc : d # e => f[d] = mem[d]
  <2>1. \A d \in Desc : f[d] = IF d \in Find("group", n) THEN ho_decref(mem[d]) ELSE mem[d]
    BY <1>1, <1>5
  <2>2. f[e] = q /\ \A d \in Desc : d # e => f[d] = mem[d]
    BY <1>4, <1>6, <2>1
  <2>3. \A d \in Desc : f[d] \in Header
    BY <1>2, <1>7, <2>2
  <2> QED
    BY <1>1, <1>5, <2>2, <2>3
<1>9. SameShape(mem, f)
  BY <1>3, <1>7, <1>8 DEF SameShape
<1>10. ObjInv(f)
  <2>1. RefInv(f)
    <3> SUFFICES ASSUME NEW a \in Desc, f[a].valid
                 PROVE  /\ f[a].type \in Owners => f[a].refcnt = 0
                        /\ f[a].type = "comp" => /\ f[a].refcnt = IF f[a].pid = None THEN 0 ELSE 1
                                                 /\ f[a].pid # None => f[a].name \in RemoteComps
                        /\ f[a].type = "group" => f[a].name \in Groups
                        /\ f[a].type # "unused"
      BY DEF RefInv
    <3>1. CASE a # e
      BY <1>2, <1>8, <3>1 DEF ObjInv, RefInv
    <3>2. CASE a = e
      BY <1>7, <1>8, <3>2 DEF Owners
    <3> QED
      BY <3>1, <3>2
  <2>2. \A a \in Desc : mem[a].valid /\ mem[a].type = "member" => f[mem[a].sig].refcnt # 0
    <3> SUFFICES ASSUME NEW a \in Desc, mem[a].valid, mem[a].type = "member"
                 PROVE  f[mem[a].sig].refcnt # 0
      OBVIOUS
    <3>1. PICK s \in Desc : s = mem[a].sig /\ mem[s].type = "signal" /\ mem[s].refcnt # 0
      BY <1>2 DEF ObjInv, SigInv
    <3>2. s # e
      BY <1>3, <3>1
    <3> QED
      BY <1>8, <3>1, <3>2
  <2> QED
    BY <1>2, <1>8, <1>9, <2>1, <2>2, RetagKeeps
<1>11. RtInv(f, rt)
  BY <1>2, <1>9, ShapeRt
<1>12. PICK gr : gr = groups'
  OBVIOUS
<1>13. /\ gr[n] = NoGroup /\ \A k \in Groups : k # n => gr[k] = groups[k]
       /\ gr \in [Groups -> [group : Desc \cup {None}, members : SUBSET Desc]]
  <2>1. groups \in [Groups -> [group : Desc \cup {None}, members : SUBSET Desc]]
    BY DEF TalkInv, TalkTypeOK
  <2>2. NoGroup \in [group : Desc \cup {None}, members : SUBSET Desc]
    BY DEF NoGroup
  <2> QED
    BY <1>1, <1>12, <2>1, <2>2
<1>14. GroupsInv(f, gr)
  <2> SUFFICES ASSUME NEW k \in Groups, gr[k] # NoGroup
               PROVE  /\ gr[k].group \in Desc /\ f[gr[k].group].valid /\ f[gr[k].group].type = "group"
                      /\ f[gr[k].group].name = k /\ f[gr[k].group].refcnt # 0
                      /\ ~DeleteThroughOther => gr[k].members \subseteq Owned(f, "member", gr[k].group)
    BY DEF GroupsInv
  <2>1. k # n /\ gr[k] = groups[k]
    BY <1>13
  <2>2. PICK g : g = groups[k].group
    OBVIOUS
  <2>3. /\ g \in Desc /\ mem[g].valid /\ mem[g].type = "group" /\ mem[g].name = k
        /\ mem[g].refcnt # 0
        /\ ~DeleteThroughOther => groups[k].members \subseteq Owned(mem, "member", g)
    BY <2>1, <2>2 DEF TalkInv, ServedInv, GroupsInv
  <2>4. f[g] = mem[g]
    BY <1>3, <1>8, <2>1, <2>3
  <2>5. Owned(mem, "member", g) \subseteq Owned(f, "member", g)
    BY <1>9 DEF Owned, SameShape
  <2> QED
    BY <2>1, <2>2, <2>3, <2>4, <2>5
<1>15. CountInv(f, Cardinality(Past), gr)
  <2>1. PICK past \in Nat : past = Cardinality(Past)
    BY PastIs
  <2>2. CountInv(mem, past, groups)
    BY <2>1 DEF TalkInv, GroupRefInv
  <2>3. ASSUME NEW g \in Desc, f[g].valid, f[g].type = "group"
        PROVE  f[g].refcnt <= past + (IF gr[f[g].name] = NoGroup THEN 0 ELSE 1)
    <3>1. CASE g = e
      <4>1. mem[e].refcnt <= past + 1
        BY <1>2, <1>3, <2>2, CountBound
      <4>2. f[g].refcnt <= past
        BY <1>7, <1>8, <3>1, <4>1
      <4>3. gr[f[g].name] = NoGroup
        BY <1>7, <1>8, <1>13, <3>1
      <4> QED
        BY <4>2, <4>3
    <3>2. CASE g # e
      <4>1. f[g] = mem[g]
        BY <1>8, <3>2
      <4>2. mem[g].name # n /\ mem[g].name \in Groups
        BY <1>2, <1>3, <2>3, <3>2, <4>1 DEF ObjInv, UniqueInv, RefInv
      <4>3. gr[f[g].name] = groups[mem[g].name]
        BY <1>13, <4>1, <4>2
      <4> QED
        BY <2>2, <2>3, <4>1, <4>3 DEF CountInv
    <3> QED
      BY <3>1, <3>2
  <2>4. CountInv(f, past, gr)
    BY <2>3 DEF CountInv
  <2> QED
    BY <2>1, <2>4
<1>16. ServedInv' /\ GroupRefInv'
  <2>1. RcompsInv(f, self, rcomps)
    BY <1>1 DEF RcompsInv
  <2> QED
    BY <1>1, <1>5, <1>12, <1>14, <1>15, <2>1 DEF ServedInv, GroupRefInv, Past
<1>17. ObjInv(mem') /\ RtInv(mem', rt')
  BY <1>1, <1>5, <1>10, <1>11
<1>18. TalkTypeOK'
  <2>1. TypeOK'
    BY <1>17, MemType
  <2> QED
    BY <1>1, <1>12, <1>13, <2>1 DEF TalkInv, TalkTypeOK
<1>19. PlaceInv'
  <2>1. self # None /\ self \notin unborn
    BY <1>1 DEF TalkInv, PlaceInv
  <2> QED
    BY <1>1, <2>1 DEF PlaceInv
<1> QED
  BY <1>16, <1>17, <1>18, <1>19 DEF TalkInv
-----------------------------------------------------------------------------
(* The theorems.                                                           *)

(* The HAL starts out empty, and haltalk does not run.                     *)
LEMMA TalkInitInv == TalkInit => TalkInv
<1> SUFFICES ASSUME TalkInit
             PROVE  TalkInv
  OBVIOUS
<1>1. /\ mem = [d \in Desc |-> Unused] /\ rt = NoCall /\ self = None /\ unborn = HtPids
      /\ pc = "down" /\ req = None /\ pins = {} /\ comp = None
      /\ rcomps = [c \in RemoteComps |-> NoRcomp] /\ groups = [g \in Groups |-> NoGroup]
  BY DEF TalkInit, Init
<1>2. mem \in [Desc -> Header] /\ \A d \in Desc : ~mem[d].valid
  BY <1>1, UnusedIs
<1>3. ObjInv(mem)
  BY <1>2 DEF ObjInv, UniqueInv, OwnerInv, RefInv, SigInv
<1>4. RtInv(mem, rt)
  BY <1>1, NoCallRt
<1>5. TalkTypeOK
  <2>1. NoRcomp \in [comp : Desc \cup {None}, pins : SUBSET Desc]
        /\ NoGroup \in [group : Desc \cup {None}, members : SUBSET Desc]
    BY DEF NoRcomp, NoGroup
  <2>2. TypeOK
    BY <1>2, <1>4 DEF TypeOK, RtInv, Header
  <2> QED
    BY <1>1, <2>1, <2>2 DEF TalkTypeOK
<1>6. \A c \in RemoteComps : rcomps[c] = NoRcomp
  BY <1>1
<1>7. \A g \in Groups : groups[g] = NoGroup
  BY <1>1
<1>8. PlaceInv
  <2>1. self \notin unborn
    BY <1>1, TalkAssumption, Counts
  <2> QED
    BY <1>1, <1>6, <1>7, <2>1 DEF PlaceInv
<1>9. ServedInv
  BY <1>6, <1>7 DEF ServedInv, RcompsInv, GroupsInv
<1>10. GroupRefInv
  BY <1>2 DEF GroupRefInv, CountInv
<1> QED
  BY <1>3, <1>4, <1>5, <1>8, <1>9, <1>10 DEF TalkInv

(* A step that changes nothing.                                            *)
LEMMA TalkStutters == TalkInv /\ UNCHANGED vars => TalkInv'
<1> SUFFICES ASSUME TalkInv, UNCHANGED vars
             PROVE  TalkInv'
  OBVIOUS
<1>1. UNCHANGED <<mem, rt, self, unborn, pc, req, pins, comp, rcomps, groups>>
  BY DEF vars, htVars
<1>2. TalkTypeOK'
  BY <1>1 DEF TalkInv, TalkTypeOK, TypeOK
<1>3. PlaceInv'
  BY <1>1 DEF TalkInv, PlaceInv
<1>4. ServedInv' /\ GroupRefInv'
  BY <1>1 DEF TalkInv, ServedInv, GroupRefInv, Past
<1>5. ObjInv(mem') /\ RtInv(mem', rt')
  BY <1>1 DEF TalkInv
<1> QED
  BY <1>2, <1>3, <1>4, <1>5 DEF TalkInv

(* Every step of haltalk and of the other processes keeps the invariant.   *)
LEMMA TalkNextInv == TalkInv /\ [Next]_vars => TalkInv'
<1> SUFFICES ASSUME TalkInv, [Next]_vars
             PROVE  TalkInv'
  OBVIOUS
<1>1. CASE Others
  BY <1>1, OthersStep
<1>2. CASE \E pid \in HtPids : Start(pid)
  BY <1>2, StartStep
<1>3. CASE SetupGroups \/ SubscribeGroup
  BY <1>3, GroupsStep
<1>4. CASE SetupComps
  BY <1>4, SetupCompsStep
<1>5. CASE Terminate \/ BindDecide
  BY <1>5, GotoStep
<1>6. CASE Exited \/ Crash
  BY <1>6, EndStep
<1>7. CASE \E c \in RemoteComps : unbind_comp(c)
  BY <1>7, UnbindCompStep
<1>8. CASE \E c \in RemoteComps : (\E ps \in SUBSET Pins : BindRequest(c, ps)) \/ Subscribe(c)
  BY <1>8, BindRequestStep
<1>9. CASE \E c \in RemoteComps : Unsubscribe(c)
  BY <1>9, UnsubscribeStep
<1>10. CASE \E g \in Groups : release_group(g)
  BY <1>10, ReleaseGroupStep
<1>11. CASE CreateReady
  BY <1>11, CreateReadyStep
<1>12. CASE CreateAcquire
  BY <1>12, CreateAcquireStep
<1>13. CASE CreateCompile
  BY <1>13, CreateCompileStep
<1>14. CASE CreateUndo
  BY <1>14, CreateUndoStep
<1>15. CASE \E d \in Desc : CreateXinit(d)
  BY <1>15, CreateXinitStep
<1>16. CASE \E d \in Desc : \E p \in Pins : CreatePin(p, d)
  BY <1>16, CreatePinStep
<1>17. CASE release_comp
  BY <1>17, ReleaseCompStep
<1>18. CASE SubscribeBinds
  BY <1>18, SubscribeBindsStep
<1>19. CASE UNCHANGED vars
  BY <1>19, TalkStutters
<1>20. CASE Talk
  BY <1>20, <1>2, <1>3, <1>4, <1>5, <1>6, <1>7, <1>8, <1>9, <1>10, <1>11, <1>12, <1>13, <1>14,
     <1>15, <1>16, <1>17, <1>18 DEF Talk
<1> QED
  BY <1>1, <1>19, <1>20 DEF Next

(* The inductive invariant.                                                *)
THEOREM TalkInvariant == Spec => []TalkInv
<1> QED
  BY TalkInitInv, TalkNextInv, PTL DEF Spec

(* The objects, the calls under way and haltalk's state have their types;  *)
(* in particular the 7-bit reference counts stay within their bound.       *)
THEOREM TalkTypeOKHolds == Spec => []TalkTypeOK
<1>1. TalkInv => TalkTypeOK
  BY DEF TalkInv
<1> QED
  BY <1>1, TalkInvariant, PTL

(* An object in use has an owner in use of the right type, whatever is     *)
(* created and deleted around a destructor that runs without the mutex.    *)
THEOREM TalkOwnersValid == Spec => []OwnersValid
<1>1. TalkInv => OwnersValid
  <2> SUFFICES ASSUME TalkInv, NEW d \in Desc, mem[d].valid, OwnerTypes(mem[d].type) # {}
               PROVE  /\ mem[d].owner \in Desc /\ mem[mem[d].owner].valid
                      /\ mem[mem[d].owner].type \in OwnerTypes(mem[d].type)
    BY DEF OwnersValid
  <2>1. ObjInv(mem)
    BY DEF TalkInv
  <2>2. mem[d].type \in Types \cup {"unused"}
    BY <2>1, HeaderFields DEF ObjInv
  <2>3. mem[d].type \in Owners
    BY <2>2, OwnerTypesAre DEF Types, Owners
  <2> QED
    BY <2>1, <2>3 DEF ObjInv, OwnerInv
<1> QED
  BY <1>1, TalkInvariant, PTL

(* A member's signal is not freed under it (hal_group.c:128).              *)
THEOREM TalkMembersHoldSignals == Spec => []MembersHoldSignals
<1>1. TalkInv => MembersHoldSignals
  BY DEF TalkInv, ObjInv, SigInv, MembersHoldSignals
<1> QED
  BY <1>1, TalkInvariant, PTL

(* What haltalk serves is acquired or referenced by it and in use, and the *)
(* pins of a component that it serves are there: also when other processes *)
(* delete members in the name of another group.                            *)
THEOREM TalkServedHeld == Spec => []ServedInv
<1>1. TalkInv => ServedInv
  BY DEF TalkInv
<1> QED
  BY <1>1, TalkInvariant, PTL

(* What haltalk's timers follow without the HAL mutex is there, as long as *)
(* members are deleted in the name of their own group.                     *)
THEOREM TalkServedKept ==
    ASSUME DeleteThroughOther = FALSE
    PROVE  Spec => []ServedKept
<1>1. TalkInv => ServedKept
  BY DEF TalkInv, ServedInv, RcompsInv, GroupsInv, ServedKept
<1> QED
  BY <1>1, TalkInvariant, PTL
=============================================================================

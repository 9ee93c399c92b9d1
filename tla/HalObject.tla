------------------------------ MODULE HalObject ------------------------------
(***************************************************************************)
(* The store of named HAL objects (hal_object.c) and the life cycles that  *)
(* are built on it: components, instances, their pins and functs, signals, *)
(* groups and members, remote components.  Every object has a header with  *)
(* its type, name, owner, reference count and valid bit.  Freeing clears   *)
(* the valid bit; the memory is given back later by hal_sweep().           *)
(*                                                                         *)
(* Each call runs under the HAL mutex and is one step, but for the         *)
(* destructor of an instance, which runs with the mutex given back.        *)
(* "pin" stands for pins, params and plugs, which are freed alike.         *)
(***************************************************************************)
EXTENDS Integers, FiniteSets

CONSTANTS Desc,                       \* bound: the memory for descriptors
          RtComps, RemoteComps,       \* names of components, by type
          Insts, Pins, Functs, Signals, Groups,    \* names of other objects
          OnChange,                   \* groups with GROUP_REPORT_ON_CHANGE
          Pids,                       \* processes that may own a component
          RtAppPid,                   \* global_data->rtapi_app_pid
          MaxRefs,                    \* bound: references to one object
          DeleteThroughOther,         \* members deleted in the name of another group
          None

Comps == RtComps \cup RemoteComps

ASSUME ObjectAssumption ==
    /\ MaxRefs \in Nat \ {0} /\ RtComps \cap RemoteComps = {}
    /\ DeleteThroughOther \in BOOLEAN
    /\ None \notin Desc \cup Comps \cup Insts \cup Pins \cup Functs \cup Signals
                   \cup Groups \cup Pids
    /\ RtAppPid \notin Pids \cup {None}

VARIABLES mem,   \* the descriptors
          rt     \* rtapi_app in the destructor of an instance: what it goes on with

Types == {"comp", "inst", "pin", "funct", "signal", "group", "member"}
States == {"initializing", "unbound", "bound", "ready"}
Names == Comps \cup Insts \cup Pins \cup Functs \cup Signals \cup Groups

\* halhdr_t; state and pid of a hal_comp_t, sig_ptr of a hal_member_t.
Unused == [type |-> "unused", name |-> None, owner |-> None, refcnt |-> 0, valid |-> FALSE,
           state |-> "none", pid |-> None, sig |-> None]

NoCall == [call |-> "none", comp |-> None, inst |-> None]

Init == mem = [d \in Desc |-> Unused] /\ rt = NoCall
-----------------------------------------------------------------------------
(* The object store.                                                       *)

\* halg_find_object_by_name(): at most one.
Find(type, name) == {d \in Desc : mem[d].valid /\ mem[d].type = type /\ mem[d].name = name}
Owned(m, type, owner) == {d \in Desc : m[d].valid /\ m[d].type = type /\ m[d].owner = owner}

\* Memory for a descriptor.  held: an id that is still in use by its holder, so the
\* block is not taken for another object (ids are handed out once).
Fresh(d, held) == mem[d] = Unused /\ d # held

\* halg_create_objectf() and halg_add_object().
Object(type, name, owner) ==
    [Unused EXCEPT !.type = type, !.name = name, !.owner = owner, !.valid = TRUE]

\* The count is a signed bit field of 7 bits.
Width7(n) == ((n + 64) % 128) - 64
ho_incref(o) == [o EXCEPT !.refcnt = Width7(@ + 1)]
ho_decref(o) == [o EXCEPT !.refcnt = Width7(@ - 1)]

\* Free all of ds that are not referenced.
halg_free_object(m, ds) ==
    [d \in Desc |-> IF d \in ds /\ m[d].refcnt = 0
                    THEN [m[d] EXCEPT !.owner = None, !.valid = FALSE] ELSE m[d]]

\* hal_sweep(): not while rtapi_app exits a component, whose walk over the list of
\* objects holds a pointer to an entry: "not nestable under other halg_* methods".
hal_sweep ==
    /\ rt.call # "exit"
    /\ mem' = [d \in Desc |-> IF mem[d].valid THEN mem[d] ELSE Unused]
    /\ mem' # mem
    /\ UNCHANGED rt
-----------------------------------------------------------------------------
(* Components, pins and functs.                                            *)

\* halg_xinitfv(): a remote component starts out disowned.
Xinit(m, d, c) == [m EXCEPT ![d] = [Object("comp", c, None) EXCEPT !.state = "initializing"]]

halg_xinit(c, d) ==
    /\ Find("comp", c) = {}
    /\ mem' = Xinit(mem, d, c)
    /\ UNCHANGED rt

IsComp(m, d) == m[d].valid /\ m[d].type = "comp"
IsRemote(m, d) == IsComp(m, d) /\ m[d].name \in RemoteComps
ReadyState(m, d) == IF m[d].name \in RemoteComps THEN "unbound" ELSE "ready"

halg_ready(d) ==
    /\ IsComp(mem, d) /\ mem[d].state = "initializing"
    /\ mem' = [mem EXCEPT ![d].state = ReadyState(mem, d)]
    /\ UNCHANGED rt

\* halpr_find_owning_comp(): d is a component, or an instance of one.
HasOwningComp(d) ==
    \/ IsComp(mem, d)
    \/ mem[d].valid /\ mem[d].type = "inst" /\ IsComp(mem, mem[d].owner)

\* Objects of realtime components are made by rtapi_app, in rtapi_app_main() or in
\* a constructor: not while it is in a destructor.
MayAddTo(owner) == HasOwningComp(owner) /\ (IsRemote(mem, owner) \/ rt = NoCall)

\* halg_pin_newfv(); also halg_param_newfv() and halg_plug_new().
halg_pin_new(p, owner, d) ==
    /\ Find("pin", p) = {} /\ MayAddTo(owner)
    /\ mem' = [mem EXCEPT ![d] = Object("pin", p, owner)]
    /\ UNCHANGED rt

\* halg_export_xfunctfv(); its time pins are made after it, by calls of their own.
halg_export_funct(f, owner, d) ==
    /\ Find("funct", f) = {} /\ MayAddTo(owner) /\ ~IsRemote(mem, owner)
    /\ mem[owner].type = "comp" => mem[owner].state = "initializing"
    /\ mem' = [mem EXCEPT ![d] = Object("funct", f, owner)]
    /\ UNCHANGED rt

\* free_comp_struct() once no instance is left, and as a component without
\* instances meets it: EBUSY when referenced.
free_comp_struct(m, c) ==
    IF m[c].refcnt # 0 THEN m
    ELSE halg_free_object(m, {c} \cup Owned(m, "pin", c) \cup Owned(m, "funct", c))

\* halg_exit() of a remote component; the result of free_comp_struct() is ignored.
halg_exit(d) ==
    /\ IsRemote(mem, d)
    /\ mem' = free_comp_struct(mem, d)
    /\ UNCHANGED rt
-----------------------------------------------------------------------------
(* Instances.  rtapi_app runs one call at a time.                          *)

halg_inst_create(i, c, d) ==
    /\ rt = NoCall
    /\ IsComp(mem, c) /\ mem[c].name \in RtComps /\ Find("inst", i) = {}
    /\ mem' = [mem EXCEPT ![d] = Object("inst", i, c)]
    /\ UNCHANGED rt

\* free_inst_struct() up to the destructor: the functs go, the mutex is given back.
FreeInst(m, call, i) ==
    /\ mem' = halg_free_object(m, Owned(m, "funct", i))
    /\ rt' = [call |-> call, comp |-> m[i].owner, inst |-> i]

halg_inst_delete(i) ==
    /\ rt = NoCall
    /\ mem[i].valid /\ mem[i].type = "inst"
    /\ FreeInst(mem, "delinst", i)

\* halg_exit() of a realtime component: its functs, then its instances one by one,
\* then what is left.
ExitWalk(m, c) ==
    LET insts == Owned(m, "inst", c) IN
    \/ insts = {} /\ mem' = free_comp_struct(m, c) /\ rt' = NoCall
    \/ \E i \in insts : FreeInst(m, "exit", i)

halg_exit_rt(c) ==
    /\ rt = NoCall
    /\ IsComp(mem, c) /\ mem[c].name \in RtComps
    /\ ExitWalk(halg_free_object(mem, Owned(mem, "funct", c)), c)

\* Mutant: the instance is freed without its pins.
free_inst_struct_Pins(m, i) == halg_free_object(m, {i})

\* The rest of free_inst_struct().
free_inst_struct(m, i) == halg_free_object(m, {i} \cup Owned(m, "pin", i))

\* The destructor returns.
DtorReturns ==
    /\ rt # NoCall
    /\ LET m == free_inst_struct(mem, rt.inst) IN
          \/ rt.call = "delinst" /\ mem' = m /\ rt' = NoCall
          \/ rt.call = "exit" /\ ExitWalk(m, rt.comp)
-----------------------------------------------------------------------------
(* Signals, groups and members.                                            *)

halg_signal_new(s, d) ==
    /\ Find("signal", s) = {}
    /\ mem' = [mem EXCEPT ![d] = Object("signal", s, None)]
    /\ UNCHANGED rt

\* Pins are unlinked (module HalLink); EBUSY when a member refers to the signal.
halg_signal_delete(d) ==
    /\ mem[d].valid /\ mem[d].type = "signal"
    /\ mem' = halg_free_object(mem, {d})
    /\ UNCHANGED rt

halg_group_new(g, d) ==
    /\ Find("group", g) = {}
    /\ mem' = [mem EXCEPT ![d] = Object("group", g, None)]
    /\ UNCHANGED rt

\* The members go with the group; their signals keep the references.
free_group_struct(m, g) == halg_free_object(m, {g} \cup Owned(m, "member", g))

halg_group_delete(g) ==
    /\ mem[g].valid /\ mem[g].type = "group" /\ mem[g].refcnt = 0
    /\ mem' = free_group_struct(mem, g)
    /\ UNCHANGED rt

\* Mutant: the signal is not referenced.
NewMember_NoRef(m, d, g, s) == [m EXCEPT ![d] = [Object("member", m[s].name, g) EXCEPT !.sig = s]]

NewMember(m, d, g, s) ==
    [m EXCEPT ![d] = [Object("member", m[s].name, g) EXCEPT !.sig = s], ![s] = ho_incref(@)]

\* A signal can be a member of one group only: members are looked up by name.
halg_member_new(g, s, d) ==
    /\ mem[g].valid /\ mem[g].type = "group" /\ mem[g].refcnt = 0
    /\ mem[s].valid /\ mem[s].type = "signal" /\ mem[s].refcnt < MaxRefs
    /\ Find("member", mem[s].name) = {}
    /\ mem' = NewMember(mem, d, g, s)
    /\ UNCHANGED rt

\* The member is looked up by its name alone, whatever group it belongs to.
halg_member_delete(g, d) ==
    /\ mem[g].valid /\ mem[g].type = "group" /\ mem[g].refcnt = 0
    /\ mem[d].valid /\ mem[d].type = "member"
    /\ ~DeleteThroughOther => mem[d].owner = g
    /\ \E s \in Find("signal", mem[d].name) :
          mem' = halg_free_object([mem EXCEPT ![s] = ho_decref(@)], {d})
    /\ UNCHANGED rt
-----------------------------------------------------------------------------
(* Remote components.                                                      *)

Bound(m, d)   == IF m[d].state = "unbound" THEN [m EXCEPT ![d].state = "bound"] ELSE m
Unbound(m, d) == IF m[d].state = "bound" THEN [m EXCEPT ![d].state = "unbound"] ELSE m

\* "let a comp be 'adopted away' from the RT environment": nothing in the tree acquires
\* a component in the name of rtapi_app, which is none of Pids.
MayAcquire(m, d) ==
    IsRemote(m, d) /\ m[d].state # "bound" /\ m[d].pid \in {None, RtAppPid}

\* Mutant: acquired without a reference.
Acquired_NoRef(m, d, pid) == [m EXCEPT ![d] = [@ EXCEPT !.pid = pid]]

Acquired(m, d, pid) == [m EXCEPT ![d] = ho_incref([@ EXCEPT !.pid = pid])]

Released(m, d, pid) ==
    IF IsRemote(m, d) /\ m[d].pid = pid THEN [m EXCEPT ![d] = ho_decref([@ EXCEPT !.pid = None])]
    ELSE m

halg_bind(d)   == IsRemote(mem, d) /\ mem[d].state = "unbound" /\ mem' = Bound(mem, d) /\ UNCHANGED rt
halg_unbind(d) == IsRemote(mem, d) /\ mem[d].state = "bound" /\ mem' = Unbound(mem, d) /\ UNCHANGED rt
halg_acquire(d, pid) == MayAcquire(mem, d) /\ mem' = Acquired(mem, d, pid) /\ UNCHANGED rt

\* Mutant: whoever owns it.
halg_release_AnyPid(d, pid) ==
    /\ IsRemote(mem, d)
    /\ mem' = Released(mem, d, mem[d].pid)
    /\ UNCHANGED rt

halg_release(d, pid) ==
    /\ IsRemote(mem, d) /\ mem[d].pid = pid
    /\ mem' = Released(mem, d, pid)
    /\ UNCHANGED rt
-----------------------------------------------------------------------------
\* The calls that create an object, in descriptor d.
Creates(d) ==
    \/ \E c \in Comps : halg_xinit(c, d)
    \/ \E o \in Desc : \/ \E p \in Pins : halg_pin_new(p, o, d)
                       \/ \E f \in Functs : halg_export_funct(f, o, d)
                       \/ \E i \in Insts : halg_inst_create(i, o, d)
                       \/ \E s \in Desc : halg_member_new(o, s, d)
    \/ \E s \in Signals : halg_signal_new(s, d)
    \/ \E g \in Groups : halg_group_new(g, d)

\* The calls that change or free the object d; pids: the processes that make them.
Changes(d, pids) ==
    \/ halg_ready(d) \/ halg_exit(d) \/ halg_exit_rt(d) \/ halg_inst_delete(d)
    \/ halg_signal_delete(d) \/ halg_group_delete(d)
    \/ \E g \in Desc : halg_member_delete(g, d)
    \/ halg_bind(d) \/ halg_unbind(d)
    \/ \E pid \in pids : halg_acquire(d, pid) \/ halg_release(d, pid)

HalNext(held, pids) ==
    \/ \E d \in Desc : Fresh(d, held) /\ Creates(d)
    \/ \E d \in Desc : Changes(d, pids)
    \/ DtorReturns
    \/ hal_sweep
-----------------------------------------------------------------------------
TypeOK ==
    /\ mem \in [Desc -> [type : Types \cup {"unused"}, name : Names \cup {None},
                         owner : Desc \cup {None}, refcnt : 0 .. MaxRefs, valid : BOOLEAN,
                         state : States \cup {"none"}, pid : Pids \cup {None},
                         sig : Desc \cup {None}]]
    /\ rt \in [call : {"none", "delinst", "exit"}, comp : Desc \cup {None},
               inst : Desc \cup {None}]

\* The type of an object's owner (hh_is_toplevel(): the others have none).
OwnerTypes(type) ==
    CASE type \in {"pin", "funct"} -> {"comp", "inst"}
      [] type = "inst"   -> {"comp"}
      [] type = "member" -> {"group"}
      [] OTHER -> {}

(* Whatever is created and deleted in whatever order, with calls of other  *)
(* processes while a destructor runs: an object that is in use has an      *)
(* owner that is in use and of the right type, so that                     *)
(* halpr_find_owning_comp(), whose result its callers do not check, finds  *)
(* one.                                                                    *)
OwnersValid ==
    \A d \in Desc : mem[d].valid /\ OwnerTypes(mem[d].type) # {} =>
        LET o == mem[d].owner IN
        o \in Desc /\ mem[o].valid /\ mem[o].type \in OwnerTypes(mem[d].type)

(* A signal that is a member of a group is not freed under it ("prevent    *)
(* deletion", hal_group.c:128): the descriptor a member points at is a     *)
(* valid signal of the member's name, also after groups have been deleted  *)
(* with their members and signals been made again under the same name.     *)
MembersHoldSignals ==
    \A d \in Desc : mem[d].valid /\ mem[d].type = "member" =>
        LET s == mem[d].sig IN
        mem[s].valid /\ mem[s].type = "signal" /\ mem[s].name = mem[d].name
=============================================================================

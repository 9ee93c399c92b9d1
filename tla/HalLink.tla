------------------------------- MODULE HalLink -------------------------------
(***************************************************************************)
(* HAL pins and signals (hal_pin.c, hal_signal.c).  A pin's owner writes   *)
(* and reads through the pin's data pointer at any time, from a realtime   *)
(* thread and without a lock; linking, unlinking and deleting run under    *)
(* the HAL mutex but move that pointer, so each call is split where a      *)
(* realtime access can fall in between: after the pointer is moved, and    *)
(* after the value is copied.                                              *)
(***************************************************************************)
EXTENDS Integers, FiniteSets

CONSTANTS Pins, Signals, \* the names
          Types,         \* hal_type_t: the types a pin can have
          SigTypes,      \* the types halg_signal_new() knows
          Values, Zero,  \* what a pin or signal can hold
          BarrierArgs,   \* arguments of halg_signal_setbarriers()
          MaxRefs,       \* bound: references to a signal, taken by its users
          None

ASSUME LinkAssumption ==
    /\ IsFiniteSet(Pins) /\ SigTypes \subseteq Types /\ SigTypes # {}
    /\ Zero \in Values
    /\ BarrierArgs \subseteq {-1, 0, 1} /\ MaxRefs \in Nat
    /\ None \notin Signals /\ None \notin Pins

VARIABLES
    lock,                             \* hal_data->lock
    pins, dir, ptype,                 \* hal_pin_t: the valid ones, their kind
    data_ptr, signal, dummysig,       \* where the pin points, its signal
    prmb, pwmb,                       \* hdr._rmb, hdr._wmb of the pin
    sigs, stype, value,               \* hal_sig_t: the valid ones, their value
    readers, writers, bidirs, refcnt, \* the counts kept in a signal
    srmb, swmb,                       \* hdr._rmb, hdr._wmb of the signal
    call, at, todo,                   \* the call that holds the HAL mutex
    last                              \* history: a pin's last value, see RTWrite

pinVars == <<pins, dir, ptype, last>>
barVars == <<prmb, pwmb, srmb, swmb>>
cntVars == <<readers, writers, bidirs>>
sigVars == <<sigs, stype>>
ptrVars == <<data_ptr, signal, dummysig, value>>
callVars == <<call, at, todo>>
vars == <<lock, pinVars, ptrVars, barVars, cntVars, sigVars, refcnt, callVars>>

HAL_IN == "in"
HAL_OUT == "out"
HAL_IO == "io"
Dirs == {HAL_IN, HAL_OUT, HAL_IO}

\* pin->dir & HAL_IN: true of I/O pins too.
Reads(p) == dir[p] \in {HAL_IN, HAL_IO}

Idle == call = "none"

\* pin_is_linked() looks at the data pointer, pin_linked_to() at the signal.
pin_is_linked(p) == data_ptr[p] # None
pin_linked_to(p, s) == signal[p] = s

Init ==
    /\ lock = {}
    /\ pins = {} /\ sigs = {}
    /\ dir = [p \in Pins |-> HAL_IN]
    /\ ptype = [p \in Pins |-> CHOOSE t \in SigTypes : TRUE]
    /\ data_ptr = [p \in Pins |-> None] /\ signal = [p \in Pins |-> None]
    /\ dummysig = [p \in Pins |-> Zero] /\ last = dummysig
    /\ prmb = [p \in Pins |-> FALSE] /\ pwmb = prmb
    /\ stype = [s \in Signals |-> CHOOSE t \in SigTypes : TRUE]
    /\ value = [s \in Signals |-> Zero]
    /\ readers = [s \in Signals |-> 0] /\ writers = readers
    /\ bidirs = readers /\ refcnt = readers
    /\ srmb = [s \in Signals |-> FALSE] /\ swmb = srmb
    /\ call = "none" /\ at = None /\ todo = {}
-----------------------------------------------------------------------------
(* Creation.                                                               *)

\* halg_pin_newfv(): unlinked, its value in its own dummysig.
halg_pin_newfv(p, d, t, defval) ==
    /\ Idle /\ "load" \notin lock /\ p \notin pins
    /\ pins' = pins \cup {p}
    /\ dir' = [dir EXCEPT ![p] = d] /\ ptype' = [ptype EXCEPT ![p] = t]
    /\ data_ptr' = [data_ptr EXCEPT ![p] = None]
    /\ signal' = [signal EXCEPT ![p] = None]
    /\ dummysig' = [dummysig EXCEPT ![p] = defval]
    /\ last' = [last EXCEPT ![p] = defval]
    /\ prmb' = [prmb EXCEPT ![p] = FALSE] /\ pwmb' = [pwmb EXCEPT ![p] = FALSE]
    /\ UNCHANGED <<lock, value, srmb, swmb, cntVars, sigVars, refcnt, callVars>>

halg_signal_new(s, t) ==
    /\ Idle /\ "config" \notin lock /\ s \notin sigs
    /\ t \in SigTypes
    /\ sigs' = sigs \cup {s} /\ stype' = [stype EXCEPT ![s] = t]
    /\ value' = [value EXCEPT ![s] = Zero]
    /\ readers' = [readers EXCEPT ![s] = 0]
    /\ writers' = [writers EXCEPT ![s] = 0]
    /\ bidirs' = [bidirs EXCEPT ![s] = 0]
    /\ refcnt' = [refcnt EXCEPT ![s] = 0]
    /\ srmb' = [srmb EXCEPT ![s] = FALSE] /\ swmb' = [swmb EXCEPT ![s] = FALSE]
    /\ UNCHANGED <<lock, pinVars, data_ptr, signal, dummysig, prmb, pwmb, callVars>>
-----------------------------------------------------------------------------
(* Barriers.                                                               *)

\* propagate_barriers_cb() on the pins that link says are linked to s.
\* (Where the code passes rmb for the pins' write barrier, so does the model.)
PropagateBarriers(s, link, rmb, wmb) ==
    /\ prmb' = [p \in Pins |->
                  IF p \in pins /\ link[p] = s /\ Reads(p) /\ rmb THEN TRUE
                  ELSE prmb[p]]
    /\ pwmb' = [p \in Pins |->
                  IF p \in pins /\ link[p] = s /\ dir[p] # HAL_IN /\ wmb THEN rmb
                  ELSE pwmb[p]]

\* -1 leaves a barrier as it is.
Barrier(arg, old) == IF arg > -1 THEN arg = 1 ELSE old

halg_signal_setbarriers(s, read_barrier, write_barrier) ==
    /\ Idle /\ "config" \notin lock /\ s \in sigs
    /\ srmb' = [srmb EXCEPT ![s] = Barrier(read_barrier, srmb[s])]
    /\ swmb' = [swmb EXCEPT ![s] = Barrier(write_barrier, swmb[s])]
    /\ PropagateBarriers(s, signal, srmb'[s], swmb'[s])
    /\ UNCHANGED <<lock, pinVars, ptrVars, cntVars, sigVars, refcnt, callVars>>
-----------------------------------------------------------------------------
(* Linking.                                                                *)

\* Mutant: an output pin does not mind I/O pins.
MayDrive_NoBidirs(p, s) == dir[p] # HAL_IN => writers[s] = 0

\* A signal has one output pin, or any number of I/O pins, never both.
MayDrive(p, s) ==
    /\ dir[p] = HAL_OUT => writers[s] = 0 /\ bidirs[s] = 0
    /\ dir[p] = HAL_IO  => writers[s] = 0

\* halg_link(): the checks, then the pin points at the signal's value.  A pin
\* that is linked already, to this signal or to another, is left alone.
LinkPoint(p, s) ==
    /\ Idle /\ "config" \notin lock
    /\ p \in pins /\ s \in sigs
    /\ ~pin_linked_to(p, s) /\ ~pin_is_linked(p)
    /\ ptype[p] = stype[s] /\ MayDrive(p, s)
    /\ data_ptr' = [data_ptr EXCEPT ![p] = s]
    /\ call' = "link" /\ at' = p
    /\ UNCHANGED <<lock, pinVars, signal, dummysig, value, barVars, cntVars,
                   sigVars, refcnt, todo>>

\* Mutant: HAL_IO is taken for a direction of its own, not for in and out.
Count_IONotRead(p, s, n) ==
    /\ readers' = [readers EXCEPT ![s] = @ + IF dir[p] = HAL_IN THEN n ELSE 0]
    /\ writers' = [writers EXCEPT ![s] = @ + IF dir[p] = HAL_OUT THEN n ELSE 0]
    /\ bidirs'  = [bidirs EXCEPT ![s] = @ + IF dir[p] = HAL_IO THEN n ELSE 0]

\* How the counts of signal s change when pin p is linked or unlinked.
Count(p, s, n) ==
    /\ readers' = [readers EXCEPT ![s] = @ + IF Reads(p) THEN n ELSE 0]
    /\ writers' = [writers EXCEPT ![s] = @ + IF dir[p] = HAL_OUT THEN n ELSE 0]
    /\ bidirs'  = [bidirs EXCEPT ![s] = @ + IF dir[p] = HAL_IO THEN n ELSE 0]

\* Mutants: only the first pin passes on its value; a new link gets no barriers.
LinkCopy_FirstOnly ==
    /\ call = "link"
    /\ LET s == data_ptr[at] IN
          /\ value' = IF readers[s] + writers[s] + bidirs[s] = 0
                      THEN [value EXCEPT ![s] = dummysig[at]] ELSE value
          /\ Count(at, s, 1)
          /\ signal' = [signal EXCEPT ![at] = s]
          /\ PropagateBarriers(s, signal', srmb[s], swmb[s])
    /\ call' = "none" /\ at' = None
    /\ UNCHANGED <<lock, pinVars, data_ptr, dummysig, srmb, swmb, sigVars,
                   refcnt, todo>>

LinkCopy_NoPropagate ==
    /\ call = "link"
    /\ value' = [value EXCEPT ![data_ptr[at]] = dummysig[at]]
    /\ Count(at, data_ptr[at], 1)
    /\ signal' = [signal EXCEPT ![at] = data_ptr[at]]
    /\ call' = "none" /\ at' = None
    /\ UNCHANGED <<lock, pinVars, data_ptr, dummysig, barVars, sigVars, refcnt, todo>>

\* The signal inherits the value of an output pin, and of the first pin; then
\* the counts, the pin's signal, and the signal's barriers.
LinkCopy ==
    /\ call = "link"
    /\ LET s == data_ptr[at] IN
          /\ value' = IF dir[at] = HAL_OUT \/ readers[s] + writers[s] + bidirs[s] = 0
                      THEN [value EXCEPT ![s] = dummysig[at]] ELSE value
          /\ Count(at, s, 1)
          /\ signal' = [signal EXCEPT ![at] = s]
          /\ PropagateBarriers(s, signal', srmb[s], swmb[s])
    /\ call' = "none" /\ at' = None
    /\ UNCHANGED <<lock, pinVars, data_ptr, dummysig, srmb, swmb, sigVars,
                   refcnt, todo>>
-----------------------------------------------------------------------------
(* Unlinking: halg_unlink(), and free_sig_struct() and free_pin_struct(),  *)
(* which unlink before they free.                                          *)

UnlinkCall(name, ps, p) ==
    /\ Idle
    /\ call' = name /\ todo' = ps /\ at' = p
    /\ UNCHANGED <<lock, pinVars, ptrVars, barVars, cntVars, sigVars, refcnt>>

halg_unlink(p) ==
    /\ "config" \notin lock /\ p \in pins /\ pin_is_linked(p)
    /\ UnlinkCall("unlink", {p}, None)

\* Mutant: the signal is freed with its pins still linked.
halg_signal_delete_NoUnlink(s) ==
    /\ "config" \notin lock /\ s \in sigs
    /\ UnlinkCall("free_sig", {}, s)

halg_signal_delete(s) ==
    /\ "config" \notin lock /\ s \in sigs
    /\ UnlinkCall("free_sig", {p \in pins : pin_linked_to(p, s)}, s)

\* The component that owns the pin exits (no lock is checked there); its
\* functs have left the threads before, so nothing writes the pin any more.
free_pin_struct(p) ==
    /\ p \in pins
    /\ UnlinkCall("free_pin", IF pin_is_linked(p) THEN {p} ELSE {}, p)

Unlinking == call \in {"unlink", "free_sig", "free_pin"}

\* unlink_pin(): the pin points at its own dummysig again ...
UnlinkPoint(p) ==
    /\ Unlinking /\ p \in todo
    /\ \A q \in todo : pin_is_linked(q)
    /\ data_ptr' = [data_ptr EXCEPT ![p] = None]
    /\ UNCHANGED <<lock, pinVars, signal, dummysig, value, barVars, cntVars,
                   sigVars, refcnt, callVars>>

\* ... which takes the signal's value; then the counts and the pin's signal.
UnlinkCopy(p) ==
    /\ Unlinking /\ p \in todo /\ ~pin_is_linked(p)
    /\ dummysig' = [dummysig EXCEPT ![p] = value[signal[p]]]
    /\ Count(p, signal[p], -1)
    /\ signal' = [signal EXCEPT ![p] = None]
    /\ todo' = todo \ {p}
    /\ UNCHANGED <<lock, pinVars, data_ptr, value, barVars, sigVars, refcnt, call,
                   at>>

\* All pins are unlinked.  A signal that is still referenced is not freed: the
\* call fails with EBUSY, and its pins stay unlinked.
UnlinkDone ==
    /\ Unlinking /\ todo = {}
    /\ sigs' = IF call = "free_sig" /\ refcnt[at] = 0 THEN sigs \ {at} ELSE sigs
    /\ pins' = IF call = "free_pin" THEN pins \ {at} ELSE pins
    /\ call' = "none" /\ at' = None
    /\ UNCHANGED <<lock, dir, ptype, last, ptrVars, barVars, cntVars, stype,
                   refcnt, todo>>
-----------------------------------------------------------------------------
(* Everyone else.                                                          *)

\* The pin the call at work has moved to or from a signal, if any.
Between(p) == \/ call = "link" /\ at = p
              \/ Unlinking /\ p \in todo /\ data_ptr[p] = None

\* A realtime funct writes an output: through the data pointer, no lock taken.
\* A value it writes between the two steps of a link or unlink is overwritten by
\* the copy of the value before, so it does not count as the last.
RTWrite(p, v) ==
    /\ p \in pins /\ dir[p] # HAL_IN
    /\ ~(call = "free_pin" /\ at = p)
    /\ IF data_ptr[p] = None
       THEN dummysig' = [dummysig EXCEPT ![p] = v] /\ UNCHANGED value
       ELSE value' = [value EXCEPT ![data_ptr[p]] = v] /\ UNCHANGED dummysig
    /\ last' = IF Between(p) THEN last ELSE [last EXCEPT ![p] = v]
    /\ UNCHANGED <<lock, pins, dir, ptype, data_ptr, signal, barVars, cntVars,
                   sigVars, refcnt, callVars>>

\* ho_incref() and ho_decref() by those who hold a pointer to the signal.
ho_incref(s) ==
    /\ Idle /\ s \in sigs /\ refcnt[s] < MaxRefs
    /\ refcnt' = [refcnt EXCEPT ![s] = @ + 1]
    /\ UNCHANGED <<lock, pinVars, ptrVars, barVars, cntVars, sigVars, callVars>>

\* Mutant: a reference is given back twice.
ho_decref_Twice(s) ==
    /\ Idle /\ s \in sigs /\ refcnt[s] > 0
    /\ refcnt' = [refcnt EXCEPT ![s] = @ - 2]
    /\ UNCHANGED <<lock, pinVars, ptrVars, barVars, cntVars, sigVars, callVars>>

ho_decref(s) ==
    /\ Idle /\ s \in sigs /\ refcnt[s] > 0
    /\ refcnt' = [refcnt EXCEPT ![s] = @ - 1]
    /\ UNCHANGED <<lock, pinVars, ptrVars, barVars, cntVars, sigVars, callVars>>

\* halcmd lock and unlock.  "tune" asks for HAL_LOCK_LOAD & HAL_LOCK_CONFIG, the
\* bits the two have in common.
LockBits(what) ==
    CASE what = "all"  -> {"load", "config"}
      [] what = "tune" -> {"load"} \cap {"config"}
      [] what = "none" -> {}

hal_set_lock(what) ==
    /\ lock' = LockBits(what)
    /\ UNCHANGED <<pinVars, ptrVars, barVars, cntVars, sigVars, refcnt, callVars>>
-----------------------------------------------------------------------------
Create == \/ \E p \in Pins, d \in Dirs, t \in Types, v \in Values :
                halg_pin_newfv(p, d, t, v)
          \/ \E s \in Signals, t \in SigTypes : halg_signal_new(s, t)

Link == (\E p \in Pins, s \in Signals : LinkPoint(p, s)) \/ LinkCopy

Unlink == \/ \E p \in Pins : halg_unlink(p) \/ free_pin_struct(p)
          \/ \E s \in Signals : halg_signal_delete(s)
          \/ \E p \in Pins : UnlinkPoint(p) \/ UnlinkCopy(p)
          \/ UnlinkDone

Others == \/ \E p \in Pins, v \in Values : RTWrite(p, v)
          \/ \E s \in Signals : ho_incref(s) \/ ho_decref(s)
          \/ \E s \in Signals, rb, wb \in BarrierArgs :
                halg_signal_setbarriers(s, rb, wb)
          \/ \E what \in {"all", "tune", "none"} : hal_set_lock(what)

Next == Create \/ Link \/ Unlink \/ Others

Spec == Init /\ [][Next]_vars
-----------------------------------------------------------------------------
(* Properties.                                                             *)

TypeOK ==
    /\ lock \subseteq {"load", "config"}
    /\ pins \subseteq Pins /\ dir \in [Pins -> Dirs] /\ ptype \in [Pins -> Types]
    /\ data_ptr \in [Pins -> Signals \cup {None}]
    /\ signal \in [Pins -> Signals \cup {None}]
    /\ dummysig \in [Pins -> Values] /\ last \in [Pins -> Values]
    /\ prmb \in [Pins -> BOOLEAN] /\ pwmb \in [Pins -> BOOLEAN]
    /\ sigs \subseteq Signals /\ stype \in [Signals -> SigTypes]
    /\ value \in [Signals -> Values]
    /\ readers \in [Signals -> Int] /\ writers \in [Signals -> Int]
    /\ bidirs \in [Signals -> Int] /\ refcnt \in [Signals -> Nat]
    /\ srmb \in [Signals -> BOOLEAN] /\ swmb \in [Signals -> BOOLEAN]
    /\ call \in {"none", "link", "unlink", "free_sig", "free_pin"}
    /\ at \in Pins \cup Signals \cup {None} /\ todo \subseteq Pins

Linked(s, dirs) == {p \in pins : signal[p] = s /\ dir[p] \in dirs}

\* The counts a signal keeps are the numbers of pins that are linked to it,
\* whatever was linked, unlinked and deleted before.
CountsRight ==
    \A s \in sigs :
       /\ readers[s] = Cardinality(Linked(s, {HAL_IN, HAL_IO}))
       /\ writers[s] = Cardinality(Linked(s, {HAL_OUT}))
       /\ bidirs[s] = Cardinality(Linked(s, {HAL_IO}))

\* A signal has one driver: no two output pins, and no output pin next to an
\* I/O pin.
OneDriver ==
    \A p, q \in pins :
       p # q /\ signal[p] = signal[q] /\ signal[p] # None /\ dir[p] = HAL_OUT
          => dir[q] = HAL_IN

\* Between calls a pin points at the value of the signal it is linked to, which
\* exists and has the pin's type: no pointer to a signal that was deleted.
PointersAgree ==
    /\ \A p \in pins : signal[p] # None => signal[p] \in sigs
    /\ \A p \in pins : data_ptr[p] # None =>
          data_ptr[p] \in sigs /\ stype[data_ptr[p]] = ptype[p]
    /\ Idle => \A p \in pins : data_ptr[p] = signal[p]

\* What a component sees through its pin.
Seen(p) == IF data_ptr[p] = None THEN dummysig[p] ELSE value[data_ptr[p]]

\* Between calls an output pin shows the last value its owner wrote, linked or
\* not: halg_link() copies it to the signal and unlink_pin() copies it back,
\* whatever is written while they do so, and no other pin disturbs it.
OutputKept == Idle => \A p \in pins : dir[p] = HAL_OUT => Seen(p) = last[p]

\* A signal's read barrier reaches the pins that read it.
ReadBarrierInherited ==
    Idle => \A p \in pins : signal[p] # None /\ srmb[signal[p]] /\ Reads(p)
                               => prmb[p]
-----------------------------------------------------------------------------
(* The inductive invariant behind these properties.                        *)

CallInv ==
    /\ Idle => at = None /\ todo = {}
    /\ call = "link" =>
          /\ at \in pins /\ signal[at] = None /\ data_ptr[at] \in sigs
          /\ stype[data_ptr[at]] = ptype[at]
          /\ MayDrive(at, data_ptr[at]) /\ todo = {}
    /\ call = "unlink" => at = None
    /\ call = "free_sig" => at \in sigs /\ \A p \in pins : signal[p] = at <=> p \in todo
    /\ call = "free_pin" => at \in pins /\ \A p \in todo : p = at
    /\ Unlinking => todo \subseteq pins /\ \A p \in todo : signal[p] # None
    /\ call = "free_pin" => (signal[at] = None <=> todo = {})

LinkInv ==
    /\ \A p \in pins : signal[p] # None => signal[p] \in sigs
    /\ \A p \in pins : signal[p] # None => stype[signal[p]] = ptype[p]
    /\ \A p \in pins : ~Between(p) => data_ptr[p] = signal[p]

IndInv == TypeOK /\ CallInv /\ LinkInv /\ CountsRight /\ OneDriver
=============================================================================

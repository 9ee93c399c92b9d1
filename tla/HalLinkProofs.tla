---------------------------- MODULE HalLinkProofs ----------------------------
(***************************************************************************)
(* HAL pins and signals for any sets of pins, signals, types and values:   *)
(* the counts are right, a signal has one driver and no pin points at a    *)
(* signal that is gone, whatever the realtime threads do meanwhile.        *)
(***************************************************************************)
EXTENDS HalLink, FiniteSetTheorems, TLAPS

\* The sets of linked pins are finite: their cardinalities are numbers.
LEMMA LinkedFinite ==
    ASSUME TypeOK, NEW s, NEW D
    PROVE  /\ Linked(s, D) \subseteq Pins /\ IsFiniteSet(Linked(s, D))
           /\ Cardinality(Linked(s, D)) \in Nat
<1>1. Linked(s, D) \subseteq Pins
  BY DEF TypeOK, Linked
<1>2. IsFiniteSet(Linked(s, D))
  BY <1>1, LinkAssumption, FS_Subset
<1> QED BY <1>1, <1>2, FS_CardinalityType

\* A count of zero means that no such pin is linked.
LEMMA ZeroCount ==
    ASSUME TypeOK, NEW s, NEW D, Cardinality(Linked(s, D)) = 0
    PROVE  \A p \in pins : signal[p] = s => dir[p] \notin D
<1>1. Linked(s, D) = {}
  BY LinkedFinite, FS_EmptySet
<1> QED BY <1>1 DEF Linked

\* Linking pin p to signal s adds it to the sets of s, and to no other.
LEMMA LinkedAdd ==
    ASSUME TypeOK, NEW p \in pins, NEW t \in Signals, NEW D, signal'[p] \in Signals,
           signal[p] = None, \A q \in Pins : q # p => signal'[q] = signal[q],
           pins' = pins, dir' = dir
    PROVE  Cardinality(Linked(t, D))' = Cardinality(Linked(t, D))
               + IF t = signal'[p] /\ dir[p] \in D THEN 1 ELSE 0
<1>1. p \in Pins /\ signal'[p] # None /\ t # None
  BY LinkAssumption DEF TypeOK
<1>2. Cardinality(Linked(t, D)) \in Nat /\ IsFiniteSet(Linked(t, D))
  BY LinkedFinite
<1>3. CASE t = signal'[p] /\ dir[p] \in D
  <2>1. Linked(t, D)' = Linked(t, D) \cup {p}
    BY <1>1, <1>3 DEF Linked, TypeOK
  <2>2. p \notin Linked(t, D)
    BY <1>1, <1>3 DEF Linked
  <2>3. Cardinality(Linked(t, D) \cup {p}) = Cardinality(Linked(t, D)) + 1
    BY <1>2, <2>2, FS_AddElement
  <2>4. Cardinality(Linked(t, D))' = Cardinality(Linked(t, D)) + 1
    BY <2>1, <2>3
  <2> QED BY <1>3, <2>4
<1>4. CASE ~(t = signal'[p] /\ dir[p] \in D)
  <2>1. Linked(t, D)' = Linked(t, D)
    BY <1>1, <1>4 DEF Linked, TypeOK
  <2>2. Cardinality(Linked(t, D))' = Cardinality(Linked(t, D))
    BY <2>1
  <2> QED BY <1>4, <1>2, <2>2
<1> QED BY <1>3, <1>4

\* Unlinking pin p takes it out of the sets of its signal.
LEMMA LinkedRemove ==
    ASSUME TypeOK, NEW p \in pins, NEW t \in Signals, NEW D,
           signal[p] # None, signal' = [signal EXCEPT ![p] = None],
           pins' = pins, dir' = dir
    PROVE  Cardinality(Linked(t, D))' = Cardinality(Linked(t, D))
               - IF t = signal[p] /\ dir[p] \in D THEN 1 ELSE 0
<1>1. p \in Pins /\ t # None
  BY LinkAssumption DEF TypeOK
<1>2. Cardinality(Linked(t, D)) \in Nat /\ IsFiniteSet(Linked(t, D))
  BY LinkedFinite
<1>3. CASE t = signal[p] /\ dir[p] \in D
  <2>1. Linked(t, D)' = Linked(t, D) \ {p}
    BY <1>1, <1>3 DEF Linked, TypeOK
  <2>2. p \in Linked(t, D)
    BY <1>1, <1>3 DEF Linked
  <2>3. Cardinality(Linked(t, D) \ {p}) = Cardinality(Linked(t, D)) - 1
    BY <1>2, <2>2, FS_RemoveElement
  <2>4. Cardinality(Linked(t, D))' = Cardinality(Linked(t, D)) - 1
    BY <2>1, <2>3
  <2> QED BY <1>3, <2>4
<1>4. CASE ~(t = signal[p] /\ dir[p] \in D)
  <2>1. Linked(t, D)' = Linked(t, D)
    BY <1>1, <1>4 DEF Linked, TypeOK
  <2>2. Cardinality(Linked(t, D))' = Cardinality(Linked(t, D))
    BY <2>1
  <2> QED BY <1>4, <1>2, <2>2
<1> QED BY <1>3, <1>4

\* The counts move with the sets.
LEMMA CountAdd ==
    ASSUME TypeOK, CountsRight, NEW p \in pins, NEW s \in sigs,
           signal[p] = None, signal' = [signal EXCEPT ![p] = s],
           pins' = pins, dir' = dir, sigs' = sigs, Count(p, s, 1)
    PROVE  CountsRight'
<1> SUFFICES ASSUME NEW t \in sigs
             PROVE  /\ readers'[t] = Cardinality(Linked(t, {HAL_IN, HAL_IO}))'
                    /\ writers'[t] = Cardinality(Linked(t, {HAL_OUT}))'
                    /\ bidirs'[t] = Cardinality(Linked(t, {HAL_IO}))'
  BY DEF CountsRight
<1>1. t \in Signals /\ s \in Signals
  BY DEF TypeOK
<1>2. /\ readers[t] \in Int /\ writers[t] \in Int /\ bidirs[t] \in Int
      /\ readers'[t] = readers[t] + IF t = s /\ dir[p] \in {HAL_IN, HAL_IO} THEN 1 ELSE 0
      /\ writers'[t] = writers[t] + IF t = s /\ dir[p] \in {HAL_OUT} THEN 1 ELSE 0
      /\ bidirs'[t] = bidirs[t] + IF t = s /\ dir[p] \in {HAL_IO} THEN 1 ELSE 0
  BY <1>1 DEF Count, Reads, TypeOK
<1>3. /\ readers[t] = Cardinality(Linked(t, {HAL_IN, HAL_IO}))
      /\ writers[t] = Cardinality(Linked(t, {HAL_OUT}))
      /\ bidirs[t] = Cardinality(Linked(t, {HAL_IO}))
  BY DEF CountsRight
<1>4. /\ Cardinality(Linked(t, {HAL_IN, HAL_IO}))'
            = Cardinality(Linked(t, {HAL_IN, HAL_IO}))
               + IF t = s /\ dir[p] \in {HAL_IN, HAL_IO} THEN 1 ELSE 0
      /\ Cardinality(Linked(t, {HAL_OUT}))'
            = Cardinality(Linked(t, {HAL_OUT}))
               + IF t = s /\ dir[p] \in {HAL_OUT} THEN 1 ELSE 0
      /\ Cardinality(Linked(t, {HAL_IO}))'
            = Cardinality(Linked(t, {HAL_IO}))
               + IF t = s /\ dir[p] \in {HAL_IO} THEN 1 ELSE 0
  <2>1. signal'[p] = s /\ \A q \in Pins : q # p => signal'[q] = signal[q]
    BY DEF TypeOK
  <2> QED BY <1>1, <2>1, LinkedAdd
<1> QED BY <1>2, <1>3, <1>4

LEMMA CountRemove ==
    ASSUME TypeOK, CountsRight, NEW p \in pins,
           signal[p] # None, signal' = [signal EXCEPT ![p] = None],
           pins' = pins, dir' = dir, sigs' = sigs, Count(p, signal[p], -1)
    PROVE  CountsRight'
<1> SUFFICES ASSUME NEW t \in sigs
             PROVE  /\ readers'[t] = Cardinality(Linked(t, {HAL_IN, HAL_IO}))'
                    /\ writers'[t] = Cardinality(Linked(t, {HAL_OUT}))'
                    /\ bidirs'[t] = Cardinality(Linked(t, {HAL_IO}))'
  BY DEF CountsRight
<1>1. t \in Signals /\ signal[p] \in Signals
  BY DEF TypeOK
<1>2. /\ readers[t] \in Int /\ writers[t] \in Int /\ bidirs[t] \in Int
      /\ readers'[t] = readers[t]
            - IF t = signal[p] /\ dir[p] \in {HAL_IN, HAL_IO} THEN 1 ELSE 0
      /\ writers'[t] = writers[t] - IF t = signal[p] /\ dir[p] \in {HAL_OUT} THEN 1 ELSE 0
      /\ bidirs'[t] = bidirs[t] - IF t = signal[p] /\ dir[p] \in {HAL_IO} THEN 1 ELSE 0
  BY <1>1 DEF Count, Reads, TypeOK
<1>3. /\ readers[t] = Cardinality(Linked(t, {HAL_IN, HAL_IO}))
      /\ writers[t] = Cardinality(Linked(t, {HAL_OUT}))
      /\ bidirs[t] = Cardinality(Linked(t, {HAL_IO}))
  BY DEF CountsRight
<1>4. /\ Cardinality(Linked(t, {HAL_IN, HAL_IO}))'
            = Cardinality(Linked(t, {HAL_IN, HAL_IO}))
               - IF t = signal[p] /\ dir[p] \in {HAL_IN, HAL_IO} THEN 1 ELSE 0
      /\ Cardinality(Linked(t, {HAL_OUT}))'
            = Cardinality(Linked(t, {HAL_OUT}))
               - IF t = signal[p] /\ dir[p] \in {HAL_OUT} THEN 1 ELSE 0
      /\ Cardinality(Linked(t, {HAL_IO}))'
            = Cardinality(Linked(t, {HAL_IO}))
               - IF t = signal[p] /\ dir[p] \in {HAL_IO} THEN 1 ELSE 0
  BY <1>1, LinkedRemove
<1> QED BY <1>2, <1>3, <1>4

\* With the same linked pins the counts and the drivers stay right.
LEMMA SameLinks ==
    ASSUME CountsRight, OneDriver, UNCHANGED cntVars, sigs' \subseteq sigs,
           \A s : s \in sigs => \A D : Linked(s, D)' = Linked(s, D),
           \A p \in pins' : signal'[p] # None =>
              p \in pins /\ signal'[p] = signal[p] /\ dir'[p] = dir[p]
    PROVE  CountsRight' /\ OneDriver'
<1>1. CountsRight'
  <2> SUFFICES ASSUME NEW s \in sigs'
               PROVE  /\ readers'[s] = Cardinality(Linked(s, {HAL_IN, HAL_IO}))'
                      /\ writers'[s] = Cardinality(Linked(s, {HAL_OUT}))'
                      /\ bidirs'[s] = Cardinality(Linked(s, {HAL_IO}))'
    BY DEF CountsRight
  <2>1. s \in sigs
    OBVIOUS
  <2>2. /\ Linked(s, {HAL_IN, HAL_IO})' = Linked(s, {HAL_IN, HAL_IO})
        /\ Linked(s, {HAL_OUT})' = Linked(s, {HAL_OUT})
        /\ Linked(s, {HAL_IO})' = Linked(s, {HAL_IO})
    BY <2>1
  <2>3. /\ Cardinality(Linked(s, {HAL_IN, HAL_IO}))' = Cardinality(Linked(s, {HAL_IN, HAL_IO}))
        /\ Cardinality(Linked(s, {HAL_OUT}))' = Cardinality(Linked(s, {HAL_OUT}))
        /\ Cardinality(Linked(s, {HAL_IO}))' = Cardinality(Linked(s, {HAL_IO}))
    BY <2>2
  <2>4. readers' = readers /\ writers' = writers /\ bidirs' = bidirs
    BY DEF cntVars
  <2> QED BY <2>1, <2>3, <2>4 DEF CountsRight
<1>2. OneDriver'
  BY DEF OneDriver
<1> QED BY <1>1, <1>2
-----------------------------------------------------------------------------
LEMMA InitInv == Init => IndInv
<1> SUFFICES ASSUME Init PROVE IndInv
  OBVIOUS
<1>0. (CHOOSE t \in SigTypes : TRUE) \in SigTypes
  BY LinkAssumption
<1>1. TypeOK
  <2>1. /\ lock \subseteq {"load", "config"}
        /\ pins \subseteq Pins /\ dir \in [Pins -> Dirs] /\ ptype \in [Pins -> Types]
        /\ data_ptr \in [Pins -> Signals \cup {None}]
        /\ signal \in [Pins -> Signals \cup {None}]
    BY <1>0, LinkAssumption DEF Init, Dirs
  <2>2. /\ dummysig \in [Pins -> Values] /\ last \in [Pins -> Values]
        /\ prmb \in [Pins -> BOOLEAN] /\ pwmb \in [Pins -> BOOLEAN]
        /\ sigs \subseteq Signals /\ stype \in [Signals -> SigTypes]
        /\ value \in [Signals -> Values]
    BY <1>0, LinkAssumption DEF Init
  <2>3. /\ readers \in [Signals -> Int] /\ writers \in [Signals -> Int]
        /\ bidirs \in [Signals -> Int] /\ refcnt \in [Signals -> Nat]
        /\ srmb \in [Signals -> BOOLEAN] /\ swmb \in [Signals -> BOOLEAN]
        /\ call \in {"none", "link", "unlink", "free_sig", "free_pin"}
        /\ at \in Pins \cup Signals \cup {None} /\ todo \subseteq Pins
    BY DEF Init
  <2> QED BY <2>1, <2>2, <2>3 DEF TypeOK
<1>2. CallInv
  BY DEF Init, CallInv, Idle, Unlinking
<1>3. LinkInv /\ CountsRight /\ OneDriver
  BY DEF Init, LinkInv, CountsRight, OneDriver
<1> QED BY <1>1, <1>2, <1>3 DEF IndInv

\* The steps that leave the links, and the calls at work on them, alone.
LEMMA OthersInv == IndInv /\ Others => IndInv'
<1> SUFFICES ASSUME IndInv, Others PROVE IndInv'
  OBVIOUS
<1>1. /\ UNCHANGED <<pins, dir, ptype, data_ptr, signal, sigs, stype, readers,
                     writers, bidirs, call, at, todo>>
      /\ TypeOK'
  <2>1. CASE \E p \in Pins, v \in Values : RTWrite(p, v)
    <3>1. PICK p \in Pins, v \in Values : RTWrite(p, v)
      BY <2>1
    <3>2. value' \in [Signals -> Values] /\ dummysig' \in [Pins -> Values]
          /\ last' \in [Pins -> Values]
      BY <3>1 DEF RTWrite, IndInv, TypeOK
    <3> QED BY <3>1, <3>2 DEF RTWrite, IndInv, TypeOK, barVars, cntVars,
                              sigVars, callVars
  <2>2. CASE \E s \in Signals : ho_incref(s) \/ ho_decref(s)
    <3>1. refcnt' \in [Signals -> Nat]
      BY <2>2, LinkAssumption DEF ho_incref, ho_decref, IndInv, TypeOK
    <3> QED BY <2>2, <3>1 DEF ho_incref, ho_decref, IndInv, TypeOK, pinVars,
                              ptrVars, barVars, cntVars, sigVars, callVars
  <2>3. CASE \E s \in Signals, rb, wb \in BarrierArgs : halg_signal_setbarriers(s, rb, wb)
    <3>1. PICK s \in Signals, rb \in BarrierArgs, wb \in BarrierArgs :
             halg_signal_setbarriers(s, rb, wb)
      BY <2>3
    <3>2. srmb' \in [Signals -> BOOLEAN] /\ swmb' \in [Signals -> BOOLEAN]
      BY <3>1 DEF halg_signal_setbarriers, Barrier, IndInv, TypeOK
    <3>3. prmb' \in [Pins -> BOOLEAN] /\ pwmb' \in [Pins -> BOOLEAN]
      BY <3>1, <3>2 DEF halg_signal_setbarriers, PropagateBarriers, IndInv, TypeOK
    <3> QED BY <3>1, <3>2, <3>3
            DEF halg_signal_setbarriers, IndInv, TypeOK, pinVars, ptrVars,
                cntVars, sigVars, callVars
  <2>4. CASE \E what \in {"all", "tune", "none"} : hal_set_lock(what)
    <3>1. lock' \subseteq {"load", "config"}
      BY <2>4 DEF hal_set_lock, LockBits
    <3> QED BY <2>4, <3>1 DEF hal_set_lock, IndInv, TypeOK, pinVars, ptrVars, barVars,
                              cntVars, sigVars, callVars
  <2> QED BY <2>1, <2>2, <2>3, <2>4 DEF Others
<1>2. CallInv' /\ LinkInv'
  BY <1>1 DEF IndInv, CallInv, LinkInv, Idle, Unlinking, MayDrive, Between
<1>3. CountsRight' /\ OneDriver'
  <2>1. UNCHANGED cntVars /\ \A s, D : Linked(s, D)' = Linked(s, D)
    BY <1>1 DEF cntVars, Linked
  <2> QED BY <1>1, <2>1, SameLinks DEF IndInv
<1> QED BY <1>1, <1>2, <1>3 DEF IndInv
\* A new pin is not linked; a new signal has no linked pins.
LEMMA CreateInv == IndInv /\ Create => IndInv'
<1> SUFFICES ASSUME IndInv, Create PROVE IndInv'
  OBVIOUS
<1>1. ASSUME NEW p \in Pins, NEW d \in Dirs, NEW t \in Types, NEW v \in Values,
             halg_pin_newfv(p, d, t, v)
      PROVE  IndInv'
  <2>1. TypeOK'
    BY <1>1 DEF halg_pin_newfv, IndInv, TypeOK, cntVars, sigVars, callVars
  <2>2. /\ p \notin pins /\ pins' = pins \cup {p} /\ Idle /\ Idle'
        /\ UNCHANGED <<sigs, stype, readers, writers, bidirs, at, todo>>
        /\ signal'[p] = None /\ data_ptr'[p] = None
        /\ \A q \in pins : /\ q # p /\ signal'[q] = signal[q]
                            /\ data_ptr'[q] = data_ptr[q]
                            /\ dir'[q] = dir[q] /\ ptype'[q] = ptype[q]
    BY <1>1 DEF halg_pin_newfv, IndInv, TypeOK, cntVars, sigVars, callVars, Idle
  <2>3. CallInv'
    BY <2>2 DEF IndInv, CallInv, Idle, Unlinking
  <2>4. LinkInv'
    BY <2>2 DEF IndInv, LinkInv, Between, Idle, Unlinking
  <2>5. \A s : s \in sigs => \A D : Linked(s, D)' = Linked(s, D)
    BY <2>2, LinkAssumption DEF IndInv, TypeOK, Linked
  <2>6. CountsRight' /\ OneDriver'
    BY <2>2, <2>5, SameLinks DEF IndInv, cntVars
  <2> QED BY <2>1, <2>3, <2>4, <2>6 DEF IndInv
<1>2. ASSUME NEW s \in Signals, NEW t \in SigTypes, halg_signal_new(s, t)
      PROVE  IndInv'
  <2>1. TypeOK'
    BY <1>2, LinkAssumption
       DEF halg_signal_new, IndInv, TypeOK, pinVars, callVars
  <2>2. /\ s \notin sigs /\ sigs' = sigs \cup {s} /\ Idle /\ Idle'
        /\ UNCHANGED <<pins, dir, ptype, signal, data_ptr, at, todo>>
        /\ readers'[s] = 0 /\ writers'[s] = 0 /\ bidirs'[s] = 0
        /\ \A r \in sigs : /\ r # s /\ stype'[r] = stype[r] /\ readers'[r] = readers[r]
                            /\ writers'[r] = writers[r] /\ bidirs'[r] = bidirs[r]
    BY <1>2 DEF halg_signal_new, IndInv, TypeOK, pinVars, callVars, Idle
  <2>3. CallInv'
    BY <2>2 DEF IndInv, CallInv, Idle, Unlinking
  <2>4. LinkInv'
    BY <2>2 DEF IndInv, LinkInv, Between, Idle, Unlinking
  <2>5. \A r, D : Linked(r, D)' = Linked(r, D)
    BY <2>2 DEF Linked
  <2>6. \A D : Linked(s, D) = {}
    BY <2>2, LinkAssumption DEF IndInv, LinkInv, Linked
  <2>7. CountsRight'
    <3> SUFFICES ASSUME NEW r \in sigs'
                 PROVE  /\ readers'[r] = Cardinality(Linked(r, {HAL_IN, HAL_IO}))'
                        /\ writers'[r] = Cardinality(Linked(r, {HAL_OUT}))'
                        /\ bidirs'[r] = Cardinality(Linked(r, {HAL_IO}))'
      BY DEF CountsRight
    <3>1. CASE r = s
      <4>1. Cardinality({}) = 0
        BY FS_EmptySet
      <4>2. /\ Linked(r, {HAL_IN, HAL_IO})' = {} /\ Linked(r, {HAL_OUT})' = {}
            /\ Linked(r, {HAL_IO})' = {}
        BY <3>1, <2>5, <2>6
      <4> QED BY <3>1, <4>1, <4>2, <2>2
    <3>2. CASE r \in sigs
      <4>1. /\ readers[r] = Cardinality(Linked(r, {HAL_IN, HAL_IO}))
            /\ writers[r] = Cardinality(Linked(r, {HAL_OUT}))
            /\ bidirs[r] = Cardinality(Linked(r, {HAL_IO}))
        BY <3>2 DEF IndInv, CountsRight
      <4>2. /\ Linked(r, {HAL_IN, HAL_IO})' = Linked(r, {HAL_IN, HAL_IO})
            /\ Linked(r, {HAL_OUT})' = Linked(r, {HAL_OUT})
            /\ Linked(r, {HAL_IO})' = Linked(r, {HAL_IO})
        BY <2>5
      <4> QED BY <3>2, <4>1, <4>2, <2>2
    <3> QED BY <2>2, <3>1, <3>2
  <2>8. OneDriver'
    BY <2>2 DEF IndInv, OneDriver
  <2> QED BY <2>1, <2>3, <2>4, <2>7, <2>8 DEF IndInv
<1> QED BY <1>1, <1>2 DEF Create
\* Linking: what halg_link() checked before it moved the pointer still holds
\* when it counts the pin, because it holds the HAL mutex.
LEMMA LinkStepInv == IndInv /\ Link => IndInv'
<1> SUFFICES ASSUME IndInv, Link PROVE IndInv'
  OBVIOUS
<1>1. ASSUME NEW p \in Pins, NEW s \in Signals, LinkPoint(p, s)
      PROVE  IndInv'
  <2>1. TypeOK'
    BY <1>1 DEF LinkPoint, IndInv, TypeOK, pinVars, barVars, cntVars, sigVars
  <2>2. /\ p \in pins /\ s \in sigs /\ Idle /\ data_ptr[p] = None
        /\ ptype[p] = stype[s] /\ MayDrive(p, s)
        /\ call' = "link" /\ at' = p /\ data_ptr'[p] = s
        /\ \A q \in pins : q # p => data_ptr'[q] = data_ptr[q]
        /\ UNCHANGED <<pins, dir, ptype, signal, sigs, stype, readers, writers, bidirs,
                       todo>>
    BY <1>1 DEF LinkPoint, IndInv, TypeOK, pinVars, cntVars, sigVars, pin_is_linked
  <2>3. signal[p] = None /\ todo = {}
    BY <2>2 DEF IndInv, LinkInv, CallInv, Between, Idle, Unlinking
  <2>4. CallInv'
    <3>1. MayDrive(p, s)'
      BY <2>2 DEF MayDrive
    <3>2. MayDrive(at, data_ptr[at])'
      BY <2>2, <3>1 DEF MayDrive
    <3> QED BY <2>2, <2>3, <3>2 DEF CallInv, Idle, Unlinking
  <2>5. LinkInv'
    BY <2>2 DEF IndInv, LinkInv, Between, Idle, Unlinking
  <2>6. \A r, D : Linked(r, D)' = Linked(r, D)
    BY <2>2 DEF Linked
  <2>7. CountsRight' /\ OneDriver'
    BY <2>2, <2>6, SameLinks DEF IndInv, cntVars
  <2> QED BY <2>1, <2>4, <2>5, <2>7 DEF IndInv
<1>2. ASSUME LinkCopy PROVE IndInv'
  <2>0. /\ call = "link" /\ at \in pins /\ data_ptr[at] \in sigs /\ signal[at] = None
        /\ stype[data_ptr[at]] = ptype[at] /\ todo = {}
    BY <1>2 DEF LinkCopy, IndInv, CallInv
  <2>1. PICK p \in pins, s \in sigs : p = at /\ s = data_ptr[at]
    BY <2>0
  <2>2. /\ p \in Pins /\ s \in Signals /\ s # None
    BY LinkAssumption DEF IndInv, TypeOK
  <2>3. /\ signal' = [signal EXCEPT ![p] = s] /\ Count(p, s, 1)
        /\ signal[p] = None /\ data_ptr[p] = s /\ stype[s] = ptype[p] /\ MayDrive(p, s)
        /\ call' = "none" /\ at' = None /\ todo' = {}
        /\ UNCHANGED <<pins, dir, ptype, data_ptr, sigs, stype>>
    BY <1>2, <2>0, <2>1 DEF LinkCopy, IndInv, CallInv, pinVars, sigVars
  <2>4. /\ signal'[p] = s /\ signal' \in [Pins -> Signals \cup {None}]
        /\ \A q \in pins : q # p => signal'[q] = signal[q]
    BY <2>2, <2>3 DEF IndInv, TypeOK
  <2>5. TypeOK'
    <3>1. value' \in [Signals -> Values]
      BY <1>2, <2>0 DEF LinkCopy, IndInv, TypeOK
    <3>2. prmb' \in [Pins -> BOOLEAN] /\ pwmb' \in [Pins -> BOOLEAN]
      <4>1. srmb[s] \in BOOLEAN /\ swmb[s] \in BOOLEAN
        BY <2>2 DEF IndInv, TypeOK
      <4>2. PropagateBarriers(s, signal', srmb[s], swmb[s])
        BY <1>2, <2>1 DEF LinkCopy
      <4> QED BY <4>1, <4>2 DEF PropagateBarriers, IndInv, TypeOK
    <3>3. /\ readers' \in [Signals -> Int] /\ writers' \in [Signals -> Int]
          /\ bidirs' \in [Signals -> Int]
      BY <2>2, <2>3 DEF Count, IndInv, TypeOK
    <3> QED BY <1>2, <2>3, <2>4, <3>1, <3>2, <3>3
            DEF LinkCopy, IndInv, TypeOK, pinVars, sigVars
  <2>6. CallInv'
    BY <2>3 DEF CallInv, Idle, Unlinking
  <2>7. LinkInv'
    BY <2>0, <2>1, <2>2, <2>3, <2>4 DEF IndInv, LinkInv, Between, Unlinking
  <2>8. CountsRight'
    BY <2>3, CountAdd DEF IndInv
  <2>9. OneDriver'
    <3>1. /\ writers[s] = Cardinality(Linked(s, {HAL_OUT}))
          /\ bidirs[s] = Cardinality(Linked(s, {HAL_IO}))
      BY DEF IndInv, CountsRight
    <3>2. /\ dir[p] # HAL_IN => \A q \in pins : signal[q] = s => dir[q] # HAL_OUT
          /\ dir[p] = HAL_OUT => \A q \in pins : signal[q] = s => dir[q] # HAL_IO
      <4>1. dir[p] \in {HAL_IN, HAL_OUT, HAL_IO}
        BY <2>2 DEF IndInv, TypeOK, Dirs
      <4>2. writers[s] = 0 => \A q \in pins : signal[q] = s => dir[q] # HAL_OUT
        BY <3>1, ZeroCount DEF IndInv
      <4>3. bidirs[s] = 0 => \A q \in pins : signal[q] = s => dir[q] # HAL_IO
        BY <3>1, ZeroCount DEF IndInv
      <4> QED BY <2>3, <4>1, <4>2, <4>3 DEF MayDrive
    <3>3. \A q \in pins : dir[q] \in {HAL_IN, HAL_OUT, HAL_IO}
      BY DEF IndInv, TypeOK, Dirs
    <3> QED BY <2>3, <2>4, <3>2, <3>3 DEF IndInv, OneDriver
  <2> QED BY <2>5, <2>6, <2>7, <2>8, <2>9 DEF IndInv
<1> QED BY <1>1, <1>2 DEF Link
\* The calls that unlink: what they start with, and what they leave alone.
LEMMA StartUnlink ==
    ASSUME IndInv, NEW name, NEW ps, NEW a, UnlinkCall(name, ps, a),
           CallInv', name \in {"unlink", "free_sig", "free_pin"},
           ps \subseteq Pins, a \in Pins \cup Signals \cup {None},
           \A p \in ps : data_ptr[p] # None
    PROVE  IndInv'
<1>1. /\ Idle /\ call' = name /\ todo' = ps /\ at' = a
      /\ UNCHANGED <<lock, pins, dir, ptype, last, data_ptr, signal, dummysig,
                     value, prmb, pwmb, srmb, swmb, readers, writers, bidirs, sigs,
                     stype, refcnt>>
  BY DEF UnlinkCall, pinVars, ptrVars, barVars, cntVars, sigVars
<1>2. TypeOK'
  BY <1>1 DEF IndInv, TypeOK
<1>3. LinkInv'
  BY <1>1 DEF IndInv, LinkInv, Between, Idle, Unlinking
<1>4. \A r, D : Linked(r, D)' = Linked(r, D)
  BY <1>1 DEF Linked
<1>5. CountsRight' /\ OneDriver'
  BY <1>1, <1>4, SameLinks DEF IndInv, cntVars
<1> QED BY <1>2, <1>3, <1>5 DEF IndInv

\* Unlinking: pins leave the sets one by one, and a signal goes only when no
\* pin is linked to it any more.
LEMMA UnlinkStepInv == IndInv /\ Unlink => IndInv'
<1> SUFFICES ASSUME IndInv, Unlink PROVE IndInv'
  OBVIOUS
<1>0. Idle => /\ \A p \in pins : data_ptr[p] = signal[p]
              /\ at = None /\ todo = {}
  BY DEF IndInv, LinkInv, CallInv, Between, Idle, Unlinking
<1>1. ASSUME NEW p \in Pins, halg_unlink(p) PROVE IndInv'
  <2>1. /\ Idle /\ p \in pins /\ data_ptr[p] # None /\ call' = "unlink"
        /\ at' = None /\ todo' = {p} /\ pins' = pins /\ signal' = signal
    BY <1>1 DEF halg_unlink, UnlinkCall, pin_is_linked, pinVars, ptrVars
  <2>2. CallInv'
    BY <1>0, <2>1 DEF CallInv, Idle, Unlinking
  <2>3. UnlinkCall("unlink", {p}, None)
    BY <1>1 DEF halg_unlink
  <2> QED BY <2>1, <2>2, <2>3, StartUnlink
<1>2. ASSUME NEW p \in Pins, free_pin_struct(p) PROVE IndInv'
  <2> DEFINE ps == IF data_ptr[p] # None THEN {p} ELSE {}
  <2>1. /\ Idle /\ p \in pins /\ call' = "free_pin" /\ at' = p /\ todo' = ps
        /\ pins' = pins /\ signal' = signal
    BY <1>2 DEF free_pin_struct, UnlinkCall, pin_is_linked, pinVars, ptrVars
  <2>2. CallInv'
    BY <1>0, <2>1 DEF CallInv, Idle, Unlinking
  <2>3. UnlinkCall("free_pin", ps, p)
    BY <1>2 DEF free_pin_struct, pin_is_linked
  <2>4. PICK qs : qs = ps
    OBVIOUS
  <2>5. qs \subseteq Pins /\ \A q \in qs : data_ptr[q] # None
    BY <2>4
  <2>6. UnlinkCall("free_pin", qs, p)
    BY <2>3, <2>4
  <2> HIDE DEF ps
  <2> QED BY <2>2, <2>5, <2>6, StartUnlink
<1>3. ASSUME NEW s \in Signals, halg_signal_delete(s) PROVE IndInv'
  <2>1. PICK ps : ps = {p \in pins : signal[p] = s}
    OBVIOUS
  <2>2. UnlinkCall("free_sig", ps, s) /\ s \in sigs
    BY <1>3, <2>1 DEF halg_signal_delete, pin_linked_to
  <2>3. /\ Idle /\ call' = "free_sig" /\ at' = s /\ todo' = ps
        /\ pins' = pins /\ signal' = signal /\ sigs' = sigs
    BY <2>2 DEF UnlinkCall, pinVars, ptrVars, sigVars
  <2>4. CallInv'
    BY <2>1, <2>2, <2>3, LinkAssumption DEF CallInv, Idle, Unlinking
  <2>5. ps \subseteq Pins /\ \A q \in ps : data_ptr[q] # None
    BY <1>0, <2>1, <2>3, LinkAssumption DEF IndInv, TypeOK
  <2> QED BY <2>2, <2>4, <2>5, StartUnlink
<1>4. ASSUME NEW p \in Pins, UnlinkPoint(p) PROVE IndInv'
  <2>1. /\ Unlinking /\ p \in todo /\ data_ptr' = [data_ptr EXCEPT ![p] = None]
        /\ UNCHANGED <<lock, pins, dir, ptype, last, signal, dummysig, value,
                       prmb, pwmb, srmb, swmb, readers, writers, bidirs, sigs, stype,
                       refcnt, call, at, todo>>
    BY <1>4 DEF UnlinkPoint, pinVars, barVars, cntVars, sigVars, callVars
  <2>2. TypeOK'
    BY <2>1 DEF IndInv, TypeOK
  <2>3. CallInv'
    BY <2>1 DEF IndInv, CallInv, Idle, Unlinking
  <2>4. LinkInv'
    <3>1. /\ data_ptr'[p] = None
          /\ \A q \in pins : q # p => data_ptr'[q] = data_ptr[q]
      BY <2>1 DEF IndInv, TypeOK
    <3> QED BY <2>1, <3>1 DEF IndInv, LinkInv, Between, Unlinking
  <2>5. \A r, D : Linked(r, D)' = Linked(r, D)
    BY <2>1 DEF Linked
  <2>6. CountsRight' /\ OneDriver'
    BY <2>1, <2>5, SameLinks DEF IndInv, cntVars
  <2> QED BY <2>2, <2>3, <2>4, <2>6 DEF IndInv
<1>5. ASSUME NEW p \in Pins, UnlinkCopy(p) PROVE IndInv'
  <2>1. /\ Unlinking /\ p \in todo /\ data_ptr[p] = None
        /\ signal' = [signal EXCEPT ![p] = None] /\ todo' = todo \ {p}
        /\ Count(p, signal[p], -1)
        /\ dummysig' = [dummysig EXCEPT ![p] = value[signal[p]]]
        /\ UNCHANGED <<lock, pins, dir, ptype, last, data_ptr, value,
                       prmb, pwmb, srmb, swmb, sigs, stype, refcnt, call, at>>
    BY <1>5 DEF UnlinkCopy, pin_is_linked, pinVars, barVars, sigVars
  <2>2. /\ p \in pins /\ signal[p] # None /\ signal[p] \in Signals
        /\ signal'[p] = None /\ \A q \in pins : q # p => signal'[q] = signal[q]
    BY <2>1 DEF IndInv, CallInv, TypeOK
  <2>3. TypeOK'
    <3>1. dummysig' \in [Pins -> Values] /\ signal' \in [Pins -> Signals \cup {None}]
      BY <2>1, <2>2 DEF IndInv, TypeOK
    <3>2. /\ readers' \in [Signals -> Int] /\ writers' \in [Signals -> Int]
          /\ bidirs' \in [Signals -> Int]
      BY <2>1, <2>2 DEF Count, IndInv, TypeOK
    <3> QED BY <2>1, <3>1, <3>2 DEF IndInv, TypeOK
  <2>4. CallInv'
    BY <2>1, <2>2, LinkAssumption DEF IndInv, CallInv, TypeOK, Idle, Unlinking
  <2>5. LinkInv'
    BY <2>1, <2>2 DEF IndInv, LinkInv, Between, Unlinking
  <2>6. CountsRight'
    BY <2>1, <2>2, CountRemove DEF IndInv
  <2>7. OneDriver'
    BY <2>1, <2>2 DEF IndInv, OneDriver
  <2> QED BY <2>3, <2>4, <2>5, <2>6, <2>7 DEF IndInv
<1>6. ASSUME UnlinkDone PROVE IndInv'
  <2>1. /\ Unlinking /\ todo = {} /\ call' = "none" /\ at' = None
        /\ sigs' = (IF call = "free_sig" /\ refcnt[at] = 0 THEN sigs \ {at} ELSE sigs)
        /\ pins' = (IF call = "free_pin" THEN pins \ {at} ELSE pins)
        /\ UNCHANGED <<lock, dir, ptype, last, data_ptr, signal, dummysig,
                       value, prmb, pwmb, srmb, swmb, readers, writers, bidirs, stype,
                       refcnt, todo>>
    BY <1>6 DEF UnlinkDone, ptrVars, barVars, cntVars
  <2>2. TypeOK'
    BY <2>1 DEF IndInv, TypeOK
  <2>3. CallInv'
    BY <2>1 DEF CallInv, Idle, Unlinking
  <2>4. /\ \A p \in pins : data_ptr[p] = signal[p]
        /\ call = "free_sig" => \A p \in pins : signal[p] # at
        /\ call = "free_pin" => signal[at] = None
    BY <2>1 DEF IndInv, CallInv, LinkInv, Between, Unlinking
  <2>5. LinkInv'
    BY <2>1, <2>4 DEF IndInv, LinkInv
  <2>6. \A s : s \in sigs => \A D : Linked(s, D)' = Linked(s, D)
    BY <2>1, <2>4, LinkAssumption DEF IndInv, TypeOK, Linked
  <2>7. CountsRight' /\ OneDriver'
    BY <2>1, <2>6, SameLinks DEF IndInv, cntVars
  <2> QED BY <2>2, <2>3, <2>5, <2>7 DEF IndInv
<1> QED BY <1>1, <1>2, <1>3, <1>4, <1>5, <1>6 DEF Unlink

LEMMA StutterInv == IndInv /\ UNCHANGED vars => IndInv'
<1> SUFFICES ASSUME IndInv, UNCHANGED vars PROVE IndInv'
  OBVIOUS
<1>1. UNCHANGED <<lock, pins, dir, ptype, last, data_ptr, signal, dummysig,
                  value, prmb, pwmb, srmb, swmb, readers, writers, bidirs, sigs, stype,
                  refcnt, call, at, todo>>
  BY DEF vars, pinVars, ptrVars, barVars, cntVars, sigVars, callVars
<1>2. TypeOK' /\ CallInv' /\ LinkInv' /\ OneDriver'
  BY <1>1 DEF IndInv, TypeOK, CallInv, LinkInv, OneDriver, Idle, Unlinking, MayDrive,
              Between
<1>3. \A r, D : Linked(r, D)' = Linked(r, D)
  BY <1>1 DEF Linked
<1>4. CountsRight'
  BY <1>1, <1>3, SameLinks DEF IndInv, cntVars
<1> QED BY <1>2, <1>4 DEF IndInv
-----------------------------------------------------------------------------
\* The pins, the signals and the call in progress agree, in every reachable
\* state and whatever the realtime threads write during the calls.
THEOREM LinkInvariant == Spec => []IndInv
<1>1. IndInv /\ [Next]_vars => IndInv'
  BY CreateInv, LinkStepInv, UnlinkStepInv, OthersInv, StutterInv DEF Next
<1> QED BY InitInv, <1>1, PTL DEF Spec

\* hal_pin.c and hal_signal.c count every linked pin exactly once.
THEOREM LinkCountsRight == Spec => []CountsRight
<1>1. IndInv => CountsRight
  BY DEF IndInv
<1> QED BY LinkInvariant, <1>1, PTL

\* halg_link() admits one driver of a signal: its checks of the counts are
\* enough because the counts are right.
THEOREM LinkOneDriver == Spec => []OneDriver
<1>1. IndInv => OneDriver
  BY DEF IndInv
<1> QED BY LinkInvariant, <1>1, PTL

\* No pin points at a signal that was deleted or that has another type.
THEOREM LinkPointersAgree == Spec => []PointersAgree
<1>1. IndInv => PointersAgree
  BY DEF IndInv, CallInv, LinkInv, PointersAgree, Between, Idle, Unlinking
<1> QED BY LinkInvariant, <1>1, PTL
\* The variables of a HAL call keep their types.
THEOREM LinkTypeOK == Spec => []TypeOK
<1>1. IndInv => TypeOK
  BY DEF IndInv
<1> QED BY LinkInvariant, <1>1, PTL
-----------------------------------------------------------------------------
(* The value an output pin shows.  While a call has moved the pin's        *)
(* pointer and not yet copied its value, the last value that counts is at  *)
(* the place the copy will be made from.                                   *)
ValueInv ==
    \A p \in pins : dir[p] = HAL_OUT =>
       /\ ~Between(p) => Seen(p) = last[p]
       /\ call = "link" /\ at = p => dummysig[p] = last[p]
       /\ Unlinking /\ p \in todo /\ data_ptr[p] = None => value[signal[p]] = last[p]

\* Nothing writes a signal that an output pin drives but this pin: a pin next to
\* it is an input, also one that halg_link() is about to count.
LEMMA SoleWriter ==
    ASSUME IndInv, NEW p \in pins, NEW q \in pins, p # q, dir[p] = HAL_OUT,
           signal[p] # None, signal[p] = data_ptr[q]
    PROVE  dir[q] = HAL_IN
<1>1. CASE signal[q] = signal[p]
  BY <1>1 DEF IndInv, OneDriver
<1>2. CASE signal[q] # signal[p]
  <2>1. call = "link" /\ at = q
    BY <1>2 DEF IndInv, LinkInv, Between
  <2>2. signal[p] \in sigs /\ MayDrive(q, signal[p])
    BY <2>1 DEF IndInv, CallInv
  <2>3. writers[signal[p]] # 0
    <3>1. writers[signal[p]] = Cardinality(Linked(signal[p], {HAL_OUT}))
      BY <2>2 DEF IndInv, CountsRight
    <3> QED BY <3>1, ZeroCount DEF IndInv
  <2> QED BY <2>2, <2>3 DEF MayDrive, IndInv, TypeOK, Dirs
<1> QED BY <1>1, <1>2

\* Realtime writes, whoever's and whenever.
LEMMA RTWriteValue ==
    ASSUME IndInv, ValueInv, NEW q \in Pins, NEW v \in Values, RTWrite(q, v)
    PROVE  ValueInv'
<1>1. /\ q \in pins /\ dir[q] # HAL_IN
      /\ UNCHANGED <<pins, dir, data_ptr, signal, call, at, todo>>
      /\ \A p \in Pins : Between(p)' <=> Between(p)
  BY DEF RTWrite, callVars, Between, Unlinking
<1> SUFFICES ASSUME NEW p \in pins, dir[p] = HAL_OUT
             PROVE  /\ ~Between(p) => Seen(p)' = last'[p]
                    /\ call = "link" /\ at = p => dummysig'[p] = last'[p]
                    /\ Unlinking /\ p \in todo /\ data_ptr[p] = None
                          => value'[signal[p]] = last'[p]
  BY <1>1 DEF ValueInv, IndInv, TypeOK, Unlinking
<1>2. p \in Pins /\ signal[p] \in Signals \cup {None} /\ data_ptr[p] \in Signals \cup {None}
      /\ dummysig \in [Pins -> Values] /\ last \in [Pins -> Values]
      /\ value \in [Signals -> Values] /\ data_ptr[q] \in Signals \cup {None}
  BY <1>1 DEF IndInv, TypeOK
<1>3. /\ ~Between(p) => Seen(p) = last[p]
      /\ call = "link" /\ at = p => dummysig[p] = last[p]
      /\ Unlinking /\ p \in todo /\ data_ptr[p] = None => value[signal[p]] = last[p]
  BY DEF ValueInv
<1>4. CASE p = q
  <2>1. CASE Between(p)
    <3>1. last'[p] = last[p]
      BY <1>4, <2>1 DEF RTWrite
    <3>2. CASE call = "link" /\ at = p
      <4>1. data_ptr[p] \in sigs
        BY <3>2 DEF IndInv, CallInv
      <4>2. dummysig' = dummysig
        BY <1>4, <4>1, LinkAssumption DEF RTWrite, IndInv, TypeOK
      <4> QED BY <2>1, <3>1, <3>2, <4>2, <1>3 DEF Unlinking
    <3>3. CASE Unlinking /\ p \in todo /\ data_ptr[p] = None
      BY <1>4, <2>1, <3>1, <3>3, <1>3 DEF RTWrite, Unlinking
    <3> QED BY <2>1, <3>2, <3>3 DEF Between
  <2>2. CASE ~Between(p)
    <3>1. last'[p] = v
      BY <1>4, <2>2, <1>2 DEF RTWrite
    <3>2. Seen(p)' = v
      BY <1>1, <1>2, <1>4 DEF RTWrite, Seen
    <3> QED BY <2>2, <3>1, <3>2 DEF Between
  <2> QED BY <2>1, <2>2
<1>5. CASE p # q
  <2>1. last'[p] = last[p] /\ dummysig'[p] = dummysig[p]
    BY <1>2, <1>5 DEF RTWrite
  <2>2. signal[p] # None => value'[signal[p]] = value[signal[p]]
    <3>1. signal[p] # None => signal[p] # data_ptr[q]
      BY <1>1, <1>5, SoleWriter
    <3> QED BY <3>1, <1>2 DEF RTWrite
  <2>3. ~Between(p) => data_ptr[p] = signal[p]
    BY DEF IndInv, LinkInv
  <2>4. ~Between(p) => Seen(p)' = last'[p]
    BY <2>1, <2>2, <2>3, <1>3, <1>1 DEF Seen
  <2>5. Unlinking /\ p \in todo /\ data_ptr[p] = None => signal[p] # None
    BY DEF IndInv, CallInv
  <2> QED BY <2>1, <2>2, <2>4, <2>5, <1>3
<1> QED BY <1>4, <1>5

\* The value a signal inherits when a pin is linked replaces no output's.
LEMMA LinkValue ==
    ASSUME IndInv, ValueInv, Link
    PROVE  ValueInv'
<1>1. ASSUME NEW q \in Pins, NEW s \in Signals, LinkPoint(q, s)
      PROVE  ValueInv'
  <2>1. /\ UNCHANGED <<pins, dir, signal, dummysig, value, last, todo>>
        /\ Idle /\ data_ptr[q] = None /\ call' = "link" /\ at' = q
        /\ data_ptr' = [data_ptr EXCEPT ![q] = s]
    BY <1>1 DEF LinkPoint, pinVars, pin_is_linked
  <2>2. \A p \in pins : ~Between(p)
    BY <2>1 DEF Idle, Between, Unlinking
  <2>3. \A p \in pins : Between(p)' <=> p = q
    BY <2>1 DEF Between, Unlinking
  <2>4. \A p \in pins : p # q => Seen(p)' = Seen(p)
    BY <2>1 DEF Seen, IndInv, TypeOK
  <2>5. q \in pins => Seen(q) = dummysig[q]
    BY <2>1 DEF Seen
  <2> QED BY <2>1, <2>2, <2>3, <2>4, <2>5 DEF ValueInv, Unlinking
<1>2. CASE LinkCopy
  <2>0. PICK q \in pins : q = at
    BY <1>2 DEF LinkCopy, IndInv, CallInv
  <2>1. PICK s \in sigs : s = data_ptr[q]
    BY <1>2, <2>0 DEF LinkCopy, IndInv, CallInv
  <2>2. /\ UNCHANGED <<pins, dir, data_ptr, dummysig, last, todo>>
        /\ call = "link" /\ call' = "none" /\ at = q /\ q \in Pins /\ s \in Signals
        /\ signal' = [signal EXCEPT ![q] = s]
        /\ value' = IF dir[q] = HAL_OUT \/ readers[s] + writers[s] + bidirs[s] = 0
                    THEN [value EXCEPT ![s] = dummysig[q]] ELSE value
    BY <1>2, <2>0, <2>1 DEF LinkCopy, pinVars, IndInv, CallInv, TypeOK
  <2>3. \A p \in pins : ~Between(p)' /\ (Between(p) <=> p = q)
    BY <2>2 DEF Between, Unlinking
  <2>4. value' # value => writers[s] = 0
    <3>1. /\ readers[s] = Cardinality(Linked(s, {HAL_IN, HAL_IO}))
          /\ writers[s] = Cardinality(Linked(s, {HAL_OUT}))
          /\ bidirs[s] = Cardinality(Linked(s, {HAL_IO}))
      BY <2>1 DEF IndInv, CountsRight
    <3>2. readers[s] \in Nat /\ writers[s] \in Nat /\ bidirs[s] \in Nat
      BY <3>1, LinkedFinite DEF IndInv
    <3>3. dir[q] = HAL_OUT => writers[s] = 0
      BY <2>1, <2>2 DEF IndInv, CallInv, MayDrive
    <3>4. readers[s] + writers[s] + bidirs[s] = 0 => writers[s] = 0
      <4>1. \A a, b, c \in Nat : a + b + c = 0 => b = 0
        OBVIOUS
      <4> QED BY <3>2, <4>1
    <3> QED BY <2>2, <3>3, <3>4
  <2>5. ASSUME NEW p \in pins, dir[p] = HAL_OUT, p # q
        PROVE  Seen(p)' = last'[p]
    <3>1. Seen(p) = last[p]
      BY <2>3, <2>5 DEF ValueInv
    <3>2. data_ptr[p] = signal[p]
      BY <2>3, <2>5 DEF IndInv, LinkInv
    <3>3. value' # value => data_ptr[p] # s
      <4> SUFFICES ASSUME value' # value, data_ptr[p] = s PROVE FALSE
        OBVIOUS
      <4>1. Cardinality(Linked(s, {HAL_OUT})) = 0
        BY <2>1, <2>4 DEF IndInv, CountsRight
      <4> QED BY <4>1, <3>2, <2>5, ZeroCount DEF IndInv
    <3>4. data_ptr[p] # None => value'[data_ptr[p]] = value[data_ptr[p]]
      BY <3>3, <2>2 DEF IndInv, TypeOK
    <3> QED BY <3>1, <3>4, <2>2 DEF Seen
  <2>6. dir[q] = HAL_OUT => Seen(q)' = last'[q]
    <3>1. dir[q] = HAL_OUT => dummysig[q] = last[q]
      BY <2>2 DEF ValueInv
    <3>2. dir[q] = HAL_OUT => value'[s] = dummysig[q]
      BY <2>2 DEF IndInv, TypeOK
    <3>3. data_ptr'[q] = s /\ s # None
      BY <2>1, <2>2, LinkAssumption
    <3> QED BY <3>1, <3>2, <3>3, <2>2, <2>1 DEF Seen
  <2>7. \A p \in pins : dir[p] = HAL_OUT => Seen(p)' = last'[p]
    BY <2>5, <2>6
  <2> QED BY <2>7, <2>2 DEF ValueInv, Unlinking
<1> QED BY <1>1, <1>2 DEF Link

\* An unlinked output takes its value home.
LEMMA UnlinkValue ==
    ASSUME IndInv, ValueInv, Unlink
    PROVE  ValueInv'
<1>1. ASSUME NEW name \in {"unlink", "free_sig", "free_pin"}, NEW ps, NEW q,
             UnlinkCall(name, ps, q), \A p \in ps : data_ptr[p] # None
      PROVE  ValueInv'
  <2>1. /\ UNCHANGED <<pins, dir, data_ptr, signal, dummysig, value, last>>
        /\ Idle /\ call' = name /\ todo' = ps
    BY <1>1 DEF UnlinkCall, pinVars, ptrVars
  <2>2. \A p \in pins : ~Between(p) /\ ~Between(p)'
    BY <1>1, <2>1 DEF Between, Idle, Unlinking
  <2>3. \A p \in pins : Seen(p)' = Seen(p)
    BY <2>1 DEF Seen
  <2> QED BY <1>1, <2>1, <2>2, <2>3 DEF ValueInv, Unlinking
<1>2. CASE \E p \in Pins : halg_unlink(p) \/ free_pin_struct(p)
  BY <1>2, <1>1 DEF halg_unlink, free_pin_struct, pin_is_linked
<1>3. CASE \E s \in Signals : halg_signal_delete(s)
  <2>1. PICK s \in Signals : halg_signal_delete(s)
    BY <1>3
  <2>2. Idle /\ UnlinkCall("free_sig", {p \in pins : pin_linked_to(p, s)}, s)
    BY <2>1 DEF halg_signal_delete, UnlinkCall
  <2>3. \A p \in {p \in pins : pin_linked_to(p, s)} : data_ptr[p] # None
    BY <2>2, LinkAssumption DEF pin_linked_to, IndInv, LinkInv, Between, Idle, Unlinking
  <2> QED BY <2>2, <2>3, <1>1
<1>4. ASSUME NEW q \in Pins, UnlinkPoint(q)
      PROVE  ValueInv'
  <2>1. /\ UNCHANGED <<pins, dir, signal, dummysig, value, last, call, at, todo>>
        /\ Unlinking /\ q \in todo /\ \A p \in todo : data_ptr[p] # None
        /\ data_ptr' = [data_ptr EXCEPT ![q] = None]
    BY <1>4 DEF UnlinkPoint, pinVars, callVars, pin_is_linked
  <2>2. \A p \in pins : ~Between(p)
    BY <2>1 DEF Between, Unlinking
  <2>3. \A p \in pins : Between(p)' <=> p = q
    BY <2>1 DEF Between, Unlinking, IndInv, TypeOK
  <2>4. \A p \in pins : p # q => Seen(p)' = Seen(p)
    BY <2>1 DEF Seen, IndInv, TypeOK
  <2>5. q \in pins => Seen(q) = value[signal[q]]
    BY <2>1, <2>2 DEF Seen, IndInv, LinkInv
  <2> QED BY <2>1, <2>2, <2>3, <2>4, <2>5 DEF ValueInv, Unlinking, Between
<1>5. ASSUME NEW q \in Pins, UnlinkCopy(q)
      PROVE  ValueInv'
  <2>1. /\ UNCHANGED <<pins, dir, data_ptr, value, last, call, at>>
        /\ Unlinking /\ q \in todo /\ data_ptr[q] = None /\ todo' = todo \ {q}
        /\ dummysig' = [dummysig EXCEPT ![q] = value[signal[q]]]
        /\ signal' = [signal EXCEPT ![q] = None]
    BY <1>5 DEF UnlinkCopy, pinVars, pin_is_linked
  <2>2. ASSUME NEW p \in pins, p # q, dir[p] = HAL_OUT
        PROVE  /\ ~Between(p)' => Seen(p)' = last'[p]
               /\ Unlinking /\ p \in todo /\ data_ptr[p] = None
                      => value'[signal'[p]] = last'[p]
    <3>1. Between(p)' <=> Between(p)
      BY <2>1, <2>2 DEF Between, Unlinking
    <3>2. Seen(p)' = Seen(p) /\ signal'[p] = signal[p]
      BY <2>1, <2>2 DEF Seen, IndInv, TypeOK
    <3> QED BY <2>1, <2>2, <3>1, <3>2 DEF ValueInv
  <2>3. q \in pins /\ dir[q] = HAL_OUT => Seen(q)' = last'[q]
    BY <2>1 DEF Seen, ValueInv, IndInv, TypeOK
  <2> QED BY <2>1, <2>2, <2>3 DEF ValueInv, Unlinking
<1>6. CASE UnlinkDone
  <2>1. /\ UNCHANGED <<dir, data_ptr, signal, dummysig, value, last>>
        /\ todo = {} /\ pins' \subseteq pins /\ Unlinking /\ call' = "none"
    BY <1>6 DEF UnlinkDone, ptrVars
  <2>2. \A p \in pins : ~Between(p)
    BY <2>1 DEF Between, Unlinking
  <2>3. \A p \in pins : Seen(p)' = Seen(p)
    BY <2>1 DEF Seen
  <2> QED BY <2>1, <2>2, <2>3 DEF ValueInv, Unlinking
<1> QED BY <1>2, <1>3, <1>4, <1>5, <1>6 DEF Unlink

\* A new pin shows its default; a new signal's value is nobody's yet.
LEMMA CreateValue ==
    ASSUME IndInv, ValueInv, Create
    PROVE  ValueInv'
<1>1. ASSUME NEW q \in Pins, NEW d \in Dirs, NEW t \in Types, NEW v \in Values,
             halg_pin_newfv(q, d, t, v)
      PROVE  ValueInv'
  <2>1. /\ UNCHANGED <<value, call, at, todo>> /\ Idle /\ pins' = pins \cup {q} /\ q \notin pins
        /\ data_ptr'[q] = None /\ dummysig'[q] = v /\ last'[q] = v
        /\ \A p \in pins : /\ dir'[p] = dir[p] /\ data_ptr'[p] = data_ptr[p]
                           /\ dummysig'[p] = dummysig[p] /\ last'[p] = last[p]
    BY <1>1 DEF halg_pin_newfv, callVars, IndInv, TypeOK
  <2>2. \A p \in pins' : ~Between(p) /\ ~Between(p)'
    BY <2>1 DEF Between, Idle, Unlinking
  <2>3. \A p \in pins : Seen(p)' = Seen(p)
    BY <2>1 DEF Seen
  <2>4. Seen(q)' = last'[q]
    BY <2>1 DEF Seen
  <2> QED BY <2>1, <2>2, <2>3, <2>4 DEF ValueInv, Idle, Unlinking
<1>2. ASSUME NEW s \in Signals, NEW t \in SigTypes, halg_signal_new(s, t)
      PROVE  ValueInv'
  <2>1. /\ UNCHANGED <<pins, dir, data_ptr, signal, dummysig, last, call, at, todo>>
        /\ Idle /\ s \notin sigs /\ value' = [value EXCEPT ![s] = Zero]
    BY <1>2 DEF halg_signal_new, pinVars, callVars
  <2>2. \A p \in pins : ~Between(p) /\ ~Between(p)'
    BY <2>1 DEF Between, Idle, Unlinking
  <2>3. \A p \in pins : data_ptr[p] # None => data_ptr[p] \in sigs
    BY <2>2 DEF IndInv, LinkInv
  <2>4. \A p \in pins : Seen(p)' = Seen(p)
    BY <2>1, <2>3 DEF Seen, IndInv, TypeOK
  <2> QED BY <2>1, <2>2, <2>4 DEF ValueInv, Idle, Unlinking
<1> QED BY <1>1, <1>2 DEF Create

\* halg_link() and unlink_pin() carry an output pin's value over, and neither
\* they nor another pin replace it.
THEOREM LinkOutputKept == Spec => []OutputKept
<1>1. Init => ValueInv
  BY DEF Init, ValueInv
<1>2. ASSUME IndInv, ValueInv, [Next]_vars PROVE ValueInv'
  <2>1. CASE Others
    <3>1. CASE \E p \in Pins, v \in Values : RTWrite(p, v)
      BY <1>2, <3>1, RTWriteValue
    <3>2. CASE ~\E p \in Pins, v \in Values : RTWrite(p, v)
      <4>1. UNCHANGED <<pins, dir, data_ptr, signal, dummysig, value, last, call, at, todo>>
        BY <2>1, <3>2 DEF Others, ho_incref, ho_decref, halg_signal_setbarriers,
              hal_set_lock, pinVars, ptrVars, callVars
      <4> QED BY <1>2, <4>1 DEF ValueInv, Seen, Between, Unlinking
    <3> QED BY <3>1, <3>2
  <2>2. CASE UNCHANGED vars
    <3>1. UNCHANGED <<pins, dir, data_ptr, signal, dummysig, value, last, call, at, todo>>
      BY <2>2 DEF vars, pinVars, ptrVars, callVars
    <3> QED BY <1>2, <3>1 DEF ValueInv, Seen, Between, Unlinking
  <2> QED BY <1>2, <2>1, <2>2, CreateValue, LinkValue, UnlinkValue DEF Next
<1>3. ValueInv => OutputKept
  BY DEF ValueInv, OutputKept, Idle, Between, Unlinking
<1> QED BY <1>1, <1>2, <1>3, LinkInvariant, PTL DEF Spec
-----------------------------------------------------------------------------
\* The read barriers, also while a call is under way.
BarrierInv ==
    \A p \in pins : signal[p] # None /\ srmb[signal[p]] /\ Reads(p) => prmb[p]

\* A link and a change of barriers tell every pin that reads the signal.
LEMMA BarrierStep ==
    ASSUME IndInv, BarrierInv, [Next]_vars
    PROVE  BarrierInv'
<1>1. CASE Create
  <2>1. ASSUME NEW q \in Pins, NEW d \in Dirs, NEW t \in Types, NEW v \in Values,
               halg_pin_newfv(q, d, t, v)
        PROVE  BarrierInv'
    BY <2>1 DEF halg_pin_newfv, BarrierInv, Reads, IndInv, TypeOK
  <2>2. ASSUME NEW s \in Signals, NEW t \in SigTypes, halg_signal_new(s, t)
        PROVE  BarrierInv'
    BY <2>2 DEF halg_signal_new, BarrierInv, Reads, IndInv, TypeOK, pinVars
  <2> QED BY <1>1, <2>1, <2>2 DEF Create
<1>2. CASE Link
  <2>1. ASSUME NEW q \in Pins, NEW s \in Signals, LinkPoint(q, s)
        PROVE  BarrierInv'
    BY <2>1 DEF LinkPoint, BarrierInv, Reads, pinVars, barVars
  <2>2. CASE LinkCopy
    <3>1. PICK s \in sigs : s = data_ptr[at]
      BY <2>2 DEF LinkCopy, IndInv, CallInv
    <3>2. /\ UNCHANGED <<pins, dir, srmb>> /\ signal' = [signal EXCEPT ![at] = s]
          /\ prmb' = [p \in Pins |->
                IF p \in pins /\ signal'[p] = s /\ Reads(p) /\ srmb[s] THEN TRUE ELSE prmb[p]]
      BY <2>2, <3>1 DEF LinkCopy, pinVars, PropagateBarriers
    <3>3. ASSUME NEW p \in pins', signal'[p] # None, srmb'[signal'[p]], Reads(p)'
          PROVE  prmb'[p]
      <4>1. p \in pins /\ p \in Pins /\ Reads(p)
        BY <3>2, <3>3 DEF Reads, IndInv, TypeOK
      <4>2. CASE signal'[p] = s
        BY <3>2, <3>3, <4>1, <4>2
      <4>3. CASE signal'[p] # s
        <5>1. signal'[p] = signal[p]
          BY <3>2, <4>1, <4>3 DEF IndInv, TypeOK
        <5>2. prmb[p]
          BY <3>2, <3>3, <4>1, <5>1 DEF BarrierInv
        <5> QED BY <3>2, <4>1, <4>3, <5>2
      <4> QED BY <4>2, <4>3
    <3> QED BY <3>3 DEF BarrierInv
  <2> QED BY <1>2, <2>1, <2>2 DEF Link
<1>3. CASE Unlink
  <2>1. CASE \E p \in Pins : UnlinkCopy(p)
    BY <2>1 DEF UnlinkCopy, BarrierInv, Reads, pinVars, barVars, IndInv, TypeOK
  <2>2. CASE ~\E p \in Pins : UnlinkCopy(p)
    <3>1. UNCHANGED <<dir, signal, srmb, prmb>> /\ pins' \subseteq pins
      BY <1>3, <2>2
         DEF Unlink, halg_unlink, free_pin_struct, halg_signal_delete, UnlinkCall,
             UnlinkPoint, UnlinkDone, pinVars, ptrVars, barVars
    <3> QED BY <3>1 DEF BarrierInv, Reads
  <2> QED BY <2>1, <2>2
<1>4. CASE Others
  <2>1. ASSUME NEW s \in Signals, NEW rb \in BarrierArgs, NEW wb \in BarrierArgs,
               halg_signal_setbarriers(s, rb, wb)
        PROVE  BarrierInv'
    <3>1. /\ UNCHANGED <<pins, dir, signal>>
          /\ prmb' = [p \in Pins |->
                IF p \in pins /\ signal[p] = s /\ Reads(p) /\ srmb'[s] THEN TRUE ELSE prmb[p]]
          /\ \A r \in Signals : r # s => srmb'[r] = srmb[r]
      BY <2>1 DEF halg_signal_setbarriers, pinVars, ptrVars, PropagateBarriers, IndInv, TypeOK
    <3>2. ASSUME NEW p \in pins', signal'[p] # None, srmb'[signal'[p]], Reads(p)'
          PROVE  prmb'[p]
      <4>1. p \in pins /\ p \in Pins /\ Reads(p) /\ signal[p] \in Signals
        BY <3>1, <3>2 DEF Reads, IndInv, TypeOK
      <4>2. CASE signal[p] = s
        BY <3>1, <3>2, <4>1, <4>2
      <4>3. CASE signal[p] # s
        <5>1. prmb[p]
          BY <3>1, <3>2, <4>1, <4>3 DEF BarrierInv
        <5> QED BY <3>1, <4>1, <4>3, <5>1
      <4> QED BY <4>2, <4>3
    <3> QED BY <3>2 DEF BarrierInv
  <2>2. CASE ~\E s \in Signals, rb, wb \in BarrierArgs : halg_signal_setbarriers(s, rb, wb)
    <3>1. UNCHANGED <<pins, dir, signal, srmb, prmb>>
      BY <1>4, <2>2 DEF Others, RTWrite, ho_incref, ho_decref, hal_set_lock,
                        pinVars, ptrVars, barVars
    <3> QED BY <3>1 DEF BarrierInv, Reads
  <2> QED BY <2>1, <2>2
<1>5. CASE UNCHANGED vars
  BY <1>5 DEF vars, pinVars, ptrVars, barVars, BarrierInv, Reads
<1> QED BY <1>1, <1>2, <1>3, <1>4, <1>5 DEF Next

\* propagate_barriers_cb() reaches every pin that reads the signal, whichever of
\* link and barrier came first.
THEOREM LinkReadBarrierInherited == Spec => []ReadBarrierInherited
<1>1. Init => BarrierInv
  BY DEF Init, BarrierInv
<1>2. IndInv /\ BarrierInv /\ [Next]_vars => BarrierInv'
  BY BarrierStep
<1>3. BarrierInv => ReadBarrierInherited
  BY DEF BarrierInv, ReadBarrierInherited
<1> QED BY <1>1, <1>2, <1>3, LinkInvariant, PTL DEF Spec
=============================================================================

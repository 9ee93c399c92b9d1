--------------------------- MODULE HalThreadProofs ---------------------------
(***************************************************************************)
(* Theorems about HalThread, for any threads, functs, entries, periods and *)
(* positions: the linked lists stay sound at every step of every change,   *)
(* users are counted, a thread leaves its list only if the entry it is at  *)
(* is removed, and no two threads on their lists are in a funct at once    *)
(* that is not reentrant.                                                  *)
(***************************************************************************)
EXTENDS HalThread, FiniteSetTheorems, SequenceTheorems, TLAPS

Roots == Threads \cup {Free}

\* The entries that call funct f.
Pointing(f) == {e \in Entries : funct_ptr[e] = f}

\* Links nx and pv, with each node on list o: each other's inverses, no list leads
\* into another, and each list is one ring, as a set of its nodes that has the root
\* and follows the links back has all of them.
SoundLinks(nx, pv, o) ==
    /\ nx \in [Nodes -> Nodes] /\ pv \in [Nodes -> Nodes]
    /\ o \in [Nodes -> Roots \cup {None}]
    /\ \A x \in Nodes : pv[nx[x]] = x /\ nx[pv[x]] = x
    /\ \A x \in Nodes : o[nx[x]] = o[x]
    /\ \A t \in Roots : o[t] = t
    /\ \A t \in Roots, S \in SUBSET Nodes :
          t \in S /\ (\A x \in S : o[x] = t => pv[x] \in S) => \A x \in Nodes : o[x] = t => x \in S

\* The entry that a call has taken off a list, and not yet freed.
GoneInv ==
    gone # None => /\ Removing /\ ct # None
                   /\ on[gone] = None /\ next[gone] = gone /\ prev[gone] = gone
                   /\ funct_ptr[gone] # None

\* An entry has a funct, a valid one, if and only if it is on the list of a thread.
PtrInv ==
    /\ \A e \in Entries : e # gone => (on[e] \in Threads <=> funct_ptr[e] # None)
    /\ \A e \in Entries : funct_ptr[e] # None => funct_ptr[e] \in functs

\* The users of a funct are counted, and one that is not reentrant has at most one.
UsersInv ==
    \A f \in functs : /\ users[f] = Cardinality(Pointing(f))
                      /\ f \notin Reentrant => users[f] <= 1

\* Only the threads on the list of threads have entries; each is there once, in the
\* order of priorities, and none more than one step below the first.
ThreadsInv ==
    /\ \A e \in Entries : on[e] \in Threads => IsThread(on[e])
    /\ \A i, j \in 1 .. Len(threads) : threads[i] = threads[j] => i = j
    /\ OlderNotBelow
    /\ \A i \in 1 .. Len(threads) :
          priority[threads[i]] >= rtapi_prio_next_lower(priority[threads[1]])

\* The nodes W of the list of ct that a walk has passed, none of which matches.
Passed(W) ==
    /\ ct \in W /\ prev[list_entry] \in W
    /\ \A x \in W : /\ on[x] = ct
                    /\ x # ct => prev[x] \in W /\ ~Matches(x)

\* The locals of the call that holds the mutex.
CallInv ==
    /\ call = "none" => ct = None
    /\ ct # None => /\ IsThread(ct) /\ list_entry \in Nodes
                    /\ on[list_entry] = ct
    /\ call \in {"addf", "delf", "exit_thread"} => ct # None
    /\ call \in {"addf", "delf", "free_funct"} => cf \in functs
    /\ call = "addf" => Available(cf)
    /\ call = "free_funct" =>
          /\ \A t \in todo : IsThread(t)
          /\ \A e \in Entries : funct_ptr[e] = cf /\ e # gone => on[e] \in todo \cup {ct}
    /\ call \in {"free_funct", "exit_thread"} /\ ct # None => \E W \in SUBSET Nodes : Passed(W)

\* The task of a thread that exits is gone.
ExitInv == call = "exit_thread" => ct \notin tasks /\ at[ct] = None

\* A thread is in a funct only at an entry.
ExecInv == \A t \in Threads : exec[t] # None => at[t] \in Entries

ThreadInv ==
    /\ TypeOK /\ SoundLinks(next, prev, on) /\ GoneInv /\ PtrInv /\ UsersInv
    /\ ThreadsInv /\ CallInv /\ ExitInv /\ ExecInv
-----------------------------------------------------------------------------
(* The lists.                                                              *)

(* Roots, entries and None are apart.                                      *)
LEMMA Apart ==
    /\ Nodes = Roots \cup Entries /\ Roots \cap Entries = {} /\ None \notin Nodes
    /\ None \notin Functs /\ Threads \subseteq Roots /\ Free \in Roots /\ Free \notin Threads
BY ThreadAssumption DEF Nodes, Roots

(* dlist_remove_entry() keeps the lists sound: the entry is on its own     *)
(* then, and the others stay on one ring.                                  *)
LEMMA RemoveSound ==
    ASSUME NEW nx, NEW pv, NEW o, SoundLinks(nx, pv, o), NEW e \in Entries
    PROVE  LET dn == [nx EXCEPT ![pv[e]] = nx[e], ![e] = e]
               dp == [pv EXCEPT ![nx[e]] = pv[e], ![e] = e]
           IN  SoundLinks(dn, dp, [o EXCEPT ![e] = None])
<1>a. PICK rn : rn = [nx EXCEPT ![pv[e]] = nx[e], ![e] = e]
  OBVIOUS
<1>b. PICK rp : rp = [pv EXCEPT ![nx[e]] = pv[e], ![e] = e]
  OBVIOUS
<1>c. PICK ro : ro = [o EXCEPT ![e] = None]
  OBVIOUS
<1>1. /\ nx \in [Nodes -> Nodes] /\ pv \in [Nodes -> Nodes] /\ o \in [Nodes -> Roots \cup {None}]
      /\ \A x \in Nodes : pv[nx[x]] = x /\ nx[pv[x]] = x
      /\ \A x \in Nodes : o[nx[x]] = o[x]
      /\ \A t \in Roots : o[t] = t
  BY DEF SoundLinks
<1>2. e \in Nodes /\ e \notin Roots
  BY Apart
<1>3. /\ rn \in [Nodes -> Nodes]
      /\ \A x \in Nodes : rn[x] = IF x = e THEN e ELSE IF x = pv[e] THEN nx[e] ELSE nx[x]
  BY <1>a, <1>1, <1>2
<1>4. /\ rp \in [Nodes -> Nodes]
      /\ \A x \in Nodes : rp[x] = IF x = e THEN e ELSE IF x = nx[e] THEN pv[e] ELSE pv[x]
  BY <1>b, <1>1, <1>2
<1>5. /\ ro \in [Nodes -> Roots \cup {None}]
      /\ ro[e] = None /\ \A x \in Nodes : x # e => ro[x] = o[x]
  BY <1>c, <1>1, <1>2
<1>6. \A x \in Nodes : nx[x] \in Nodes /\ pv[x] \in Nodes
  BY <1>1
<1>7. \A x \in Nodes : rp[rn[x]] = x /\ rn[rp[x]] = x
  BY <1>1, <1>2, <1>3, <1>4, <1>6
<1>8. \A x \in Nodes : ro[rn[x]] = ro[x]
  BY <1>1, <1>2, <1>3, <1>5, <1>6
<1>9. \A t \in Roots : ro[t] = t
  BY <1>1, <1>2, <1>5, Apart
<1>10. ASSUME NEW t \in Roots, NEW S \in SUBSET Nodes, t \in S,
              \A x \in S : ro[x] = t => rp[x] \in S
       PROVE  \A x \in Nodes : ro[x] = t => x \in S
  <2>1. t # None /\ t # e
    BY <1>2, Apart
  <2>2. \A x \in Nodes : ro[x] = t => x # e /\ o[x] = t
    BY <1>5, <2>1
  <2>3. PICK T \in SUBSET Nodes :
           T = IF nx[e] \in S /\ o[e] = t THEN S \cup {e} ELSE S \ {e}
    BY <1>2
  <2>4. t \in T
    BY <1>10, <2>1, <2>3
  <2>5. ASSUME NEW x \in T, o[x] = t
        PROVE  pv[x] \in T
    <3>1. x \in Nodes /\ nx[e] \in Nodes
      BY <1>2, <1>6
    <3>2. CASE x = e
      <4>1. nx[e] \in S /\ o[e] = t
        BY <2>3, <3>2
      <4>2. CASE nx[e] = e
        BY <1>1, <1>2, <2>5, <3>2, <4>2
      <4>3. CASE nx[e] # e
        <5>1. ro[nx[e]] = t /\ rp[nx[e]] = pv[e]
          BY <1>1, <1>2, <1>4, <1>5, <1>6, <4>1, <4>3
        <5>2. pv[e] \in S
          BY <1>10, <4>1, <5>1
        <5> QED
          BY <2>3, <3>2, <4>1, <5>2
      <4> QED
        BY <4>2, <4>3
    <3>3. CASE x # e
      <4>1. x \in S /\ ro[x] = t /\ rp[x] \in S
        BY <1>5, <1>10, <2>3, <2>5, <3>1, <3>3
      <4>2. CASE x = nx[e]
        <5>1. o[e] = t /\ pv[x] = e
          BY <1>1, <1>2, <2>5, <4>2
        <5> QED
          BY <2>3, <4>1, <4>2, <5>1
      <4>3. CASE x # nx[e]
        <5>1. rp[x] = pv[x] /\ pv[x] # e
          BY <1>1, <1>2, <1>4, <3>1, <3>3, <4>3
        <5> QED
          BY <2>3, <4>1, <5>1
      <4> QED
        BY <4>2, <4>3
    <3> QED
      BY <3>2, <3>3
  <2>6. \A x \in Nodes : o[x] = t => x \in T
    BY <2>4, <2>5 DEF SoundLinks
  <2> QED
    BY <2>2, <2>3, <2>6
<1>11. SoundLinks(rn, rp, ro)
  BY <1>3, <1>4, <1>5, <1>7, <1>8, <1>9, <1>10 DEF SoundLinks
<1> QED
  BY <1>a, <1>b, <1>c, <1>11

(* The same of the links of the state.                                     *)
LEMMA RemovedSound ==
    ASSUME SoundLinks(next, prev, on), NEW e \in Entries
    PROVE  /\ SoundLinks(RemovedNext(e), RemovedPrev(e), [on EXCEPT ![e] = None])
           /\ RemovedNext(e)[e] = e /\ RemovedPrev(e)[e] = e
<1>1. PICK a : a = next
  OBVIOUS
<1>2. PICK b : b = prev
  OBVIOUS
<1>3. PICK c : c = on
  OBVIOUS
<1>4. SoundLinks(a, b, c)
  BY <1>1, <1>2, <1>3
<1>5. SoundLinks([a EXCEPT ![b[e]] = a[e], ![e] = e], [b EXCEPT ![a[e]] = b[e], ![e] = e],
                 [c EXCEPT ![e] = None])
  BY <1>4, RemoveSound
<1>6. SoundLinks(RemovedNext(e), RemovedPrev(e), [on EXCEPT ![e] = None])
  BY <1>1, <1>2, <1>3, <1>5 DEF RemovedNext, RemovedPrev
<1>7. next \in [Nodes -> Nodes] /\ prev \in [Nodes -> Nodes] /\ e \in Nodes
  BY Apart DEF SoundLinks
<1>8. RemovedNext(e)[e] = e /\ RemovedPrev(e)[e] = e
  BY <1>7 DEF RemovedNext, RemovedPrev
<1> QED
  BY <1>6, <1>8

(* dlist_add_after() keeps the lists sound: an entry on its own joins the  *)
(* ring of the node it is put behind.                                      *)
LEMMA InsertSound ==
    ASSUME NEW nx, NEW pv, NEW o, SoundLinks(nx, pv, o),
           NEW e \in Entries, nx[e] = e, pv[e] = e, o[e] = None,
           NEW p \in Nodes, NEW l \in Roots, o[p] = l
    PROVE  LET an == [nx EXCEPT ![e] = nx[p], ![p] = e]
               ap == [pv EXCEPT ![e] = p, ![nx[p]] = e]
           IN  SoundLinks(an, ap, [o EXCEPT ![e] = l])
<1>1. /\ nx \in [Nodes -> Nodes] /\ pv \in [Nodes -> Nodes] /\ o \in [Nodes -> Roots \cup {None}]
      /\ \A x \in Nodes : pv[nx[x]] = x /\ nx[pv[x]] = x
      /\ \A x \in Nodes : o[nx[x]] = o[x]
      /\ \A t \in Roots : o[t] = t
  BY DEF SoundLinks
<1>2. e \in Nodes /\ e \notin Roots /\ l # None /\ p # e
  BY Apart
<1>3. PICK an : an = [nx EXCEPT ![e] = nx[p], ![p] = e]
  OBVIOUS
<1>4. PICK ap : ap = [pv EXCEPT ![e] = p, ![nx[p]] = e]
  OBVIOUS
<1>5. PICK ao : ao = [o EXCEPT ![e] = l]
  OBVIOUS
<1>6. nx[p] \in Nodes /\ nx[p] # e /\ o[nx[p]] = l
  BY <1>1, <1>2
<1>7. /\ an \in [Nodes -> Nodes]
      /\ \A x \in Nodes : an[x] = IF x = p THEN e ELSE IF x = e THEN nx[p] ELSE nx[x]
  BY <1>1, <1>2, <1>3, <1>6
<1>8. /\ ap \in [Nodes -> Nodes]
      /\ \A x \in Nodes : ap[x] = IF x = nx[p] THEN e ELSE IF x = e THEN p ELSE pv[x]
  BY <1>1, <1>2, <1>4, <1>6
<1>9. /\ ao \in [Nodes -> Roots \cup {None}]
      /\ ao[e] = l /\ \A x \in Nodes : x # e => ao[x] = o[x]
  BY <1>1, <1>2, <1>5
<1>10. \A x \in Nodes : nx[x] \in Nodes /\ pv[x] \in Nodes
  BY <1>1
<1>11. \A x \in Nodes : ap[an[x]] = x /\ an[ap[x]] = x
  BY <1>1, <1>2, <1>6, <1>7, <1>8, <1>10
<1>12. \A x \in Nodes : ao[an[x]] = ao[x]
  BY <1>1, <1>2, <1>6, <1>7, <1>9, <1>10
<1>13. \A t \in Roots : ao[t] = t
  BY <1>1, <1>2, <1>9, Apart
<1>14. ASSUME NEW t \in Roots, NEW S \in SUBSET Nodes, t \in S,
              \A x \in S : ao[x] = t => ap[x] \in S
       PROVE  \A x \in Nodes : ao[x] = t => x \in S
  <2>1. PICK T \in SUBSET Nodes : T = S \ {e}
    OBVIOUS
  <2>2. t \in T
    BY <1>2, <1>14, <2>1
  <2>3. ASSUME NEW x \in T, o[x] = t
        PROVE  pv[x] \in T
    <3>1. x \in Nodes /\ x # e /\ ao[x] = t /\ ap[x] \in S
      BY <1>9, <1>14, <2>1, <2>3
    <3>2. CASE x = nx[p]
      <4>1. e \in S /\ ao[e] = t /\ ap[e] = p
        BY <1>2, <1>6, <1>8, <1>9, <2>3, <3>1, <3>2
      <4>2. p \in S
        BY <1>14, <4>1
      <4>3. pv[x] = p
        BY <1>1, <3>2
      <4> QED
        BY <1>2, <2>1, <4>2, <4>3
    <3>3. CASE x # nx[p]
      <4>1. ap[x] = pv[x] /\ pv[x] # e
        BY <1>1, <1>2, <1>8, <3>1, <3>3
      <4> QED
        BY <2>1, <3>1, <4>1
    <3> QED
      BY <3>2, <3>3
  <2>4. \A x \in Nodes : o[x] = t => x \in T
    BY <2>2, <2>3 DEF SoundLinks
  <2>5. ASSUME NEW x \in Nodes, ao[x] = t
        PROVE  x \in S
    <3>1. CASE x # e
      BY <1>9, <2>1, <2>4, <2>5, <3>1
    <3>2. CASE x = e
      <4>1. nx[p] \in S /\ ao[nx[p]] = t /\ ap[nx[p]] = e
        BY <1>6, <1>8, <1>9, <2>1, <2>4, <2>5, <3>2
      <4> QED
        BY <1>14, <3>2, <4>1
    <3> QED
      BY <3>1, <3>2
  <2> QED
    BY <2>5
<1>15. SoundLinks(an, ap, ao)
  BY <1>7, <1>8, <1>9, <1>11, <1>12, <1>13, <1>14 DEF SoundLinks
<1> QED
  BY <1>3, <1>4, <1>5, <1>15

(* An entry on a list is not alone there.                                  *)
LEMMA NotAlone ==
    ASSUME SoundLinks(next, prev, on), NEW t \in Roots, NEW x \in Nodes, on[x] = t, x # t
    PROVE  next[x] # x /\ x \in Entries
<1>1. x \in Entries
  BY Apart DEF SoundLinks
<1>2. ASSUME next[x] = x
      PROVE  FALSE
  <2>1. PICK S \in SUBSET Nodes : S = Nodes \ {x}
    OBVIOUS
  <2>2. t \in S
    BY <2>1, Apart
  <2>3. ASSUME NEW y \in S, on[y] = t
        PROVE  prev[y] \in S
    <3>1. prev[y] \in Nodes /\ next[prev[y]] = y /\ y # x
      BY <2>1 DEF SoundLinks
    <3> QED
      BY <1>2, <2>1, <3>1
  <2> QED
    BY <2>1, <2>2, <2>3 DEF SoundLinks
<1> QED
  BY <1>1, <1>2
-----------------------------------------------------------------------------
(* A part of the invariant holds on while its variables keep their values. *)

(* Nothing happens to the entry that was taken off.                        *)
LEMMA GoneFrame ==
    ASSUME GoneInv, UNCHANGED <<gone, call, ct, on, next, prev, funct_ptr>>
    PROVE  GoneInv'
BY DEF GoneInv, Removing

(* The functs of the entries stay.                                         *)
LEMMA PtrFrame ==
    ASSUME PtrInv, UNCHANGED <<gone, on, funct_ptr, functs>>
    PROVE  PtrInv'
BY DEF PtrInv

(* The users of the functs stay.                                           *)
LEMMA UsersFrame ==
    ASSUME UsersInv, UNCHANGED <<functs, users, funct_ptr>>
    PROVE  UsersInv'
BY DEF UsersInv, Pointing

(* The threads stay.                                                       *)
LEMMA ThreadsFrame ==
    ASSUME ThreadsInv, UNCHANGED <<on, threads, priority>>
    PROVE  ThreadsInv'
BY DEF ThreadsInv, IsThread, OlderNotBelow, rtapi_prio_next_lower

(* The call goes on, or there is none.                                     *)
LEMMA CallFrame ==
    ASSUME CallInv, UNCHANGED <<call, ct, cf, list_entry, threads, on, functs, users, todo,
                                funct_ptr, gone, prev>>
    PROVE  CallInv'
BY DEF CallInv, IsThread, Available, Passed, Matches

(* Without a call there is nothing to say of its locals.                   *)
LEMMA CallDone ==
    ASSUME NoCall
    PROVE  CallInv' /\ ExitInv'
BY DEF NoCall, CallInv, ExitInv

(* The exit of a thread goes on.                                           *)
LEMMA ExitFrame ==
    ASSUME ExitInv, UNCHANGED <<call, ct, tasks, at>>
    PROVE  ExitInv'
BY DEF ExitInv

(* The threads stay where they are.                                        *)
LEMMA ExecFrame ==
    ASSUME ExecInv, UNCHANGED <<at, exec>>
    PROVE  ExecInv'
BY DEF ExecInv
-----------------------------------------------------------------------------
(* The realtime threads.                                                   *)

(* A step of a realtime thread changes its own place only, along its list. *)
LEMMA TaskStep ==
    ASSUME ThreadInv, NEW t \in Threads, thread_task(t)
    PROVE  ThreadInv'
<1>1. /\ TypeOK /\ SoundLinks(next, prev, on) /\ GoneInv /\ PtrInv /\ UsersInv
      /\ ThreadsInv /\ CallInv /\ ExitInv /\ ExecInv
  BY DEF ThreadInv
<1>2. UNCHANGED <<threads_running, lock, threads, base_period, period, priority, tasks, functs,
                  users, next, prev, on, funct_ptr, call, cf, ct, position, n, list_entry, todo,
                  gone>>
  BY DEF thread_task, CycleStart, CallFunct, FunctReturns, threadVars, functVars, listVars,
         callVars
<1>3. /\ SoundLinks(next, prev, on)' /\ GoneInv' /\ PtrInv' /\ UsersInv' /\ ThreadsInv'
      /\ CallInv'
  BY <1>1, <1>2, GoneFrame, PtrFrame, UsersFrame, ThreadsFrame, CallFrame
<1>4. /\ \A x \in Nodes : next[x] \in Nodes /\ on[next[x]] = on[x]
      /\ \A x \in Roots : on[x] = x
      /\ t \in Nodes /\ t \in Roots /\ None \notin Nodes /\ Entries \subseteq Nodes
      /\ Nodes = Roots \cup Entries
  BY <1>1, Apart DEF SoundLinks
<1>5. CASE CycleStart(t)
  <2>1. /\ t \in tasks /\ at[t] = None /\ threads_running /\ exec' = exec
        /\ at' = [at EXCEPT ![t] = IF next[t] = t THEN None ELSE next[t]]
    BY <1>5 DEF CycleStart, Follow
  <2>2. PICK x : x = IF next[t] = t THEN None ELSE next[t]
    OBVIOUS
  <2>3. x # None => x \in Entries /\ on[x] = t
    BY <1>4, <2>2
  <2>4. exec[t] = None
    BY <1>1, <1>4, <2>1 DEF ExecInv
  <2>5. at'[t] = x /\ \A u \in Threads : u # t => at'[u] = at[u]
    BY <1>1, <2>1, <2>2 DEF TypeOK
  <2>6. TypeOK'
    BY <1>1, <1>2, <1>4, <2>1, <2>2, <2>3 DEF TypeOK
  <2>7. ExitInv'
    BY <1>1, <1>2, <2>1, <2>5 DEF ExitInv, CallInv, TypeOK
  <2>8. ExecInv'
    BY <1>1, <2>1, <2>4, <2>5 DEF ExecInv
  <2> QED
    BY <1>3, <2>6, <2>7, <2>8 DEF ThreadInv
<1>6. CASE CallFunct(t)
  <2>1. /\ at[t] \in Entries /\ exec[t] = None /\ funct_ptr[at[t]] # None /\ at' = at
        /\ exec' = [exec EXCEPT ![t] = funct_ptr[at[t]]]
    BY <1>6 DEF CallFunct
  <2>2. exec'[t] = funct_ptr[at[t]] /\ \A u \in Threads : u # t => exec'[u] = exec[u]
    BY <1>1, <2>1 DEF TypeOK
  <2>3. TypeOK'
    BY <1>1, <1>2, <2>1 DEF TypeOK
  <2>4. ExitInv'
    BY <1>1, <1>2, <2>1, ExitFrame
  <2>5. ExecInv'
    BY <1>1, <2>1, <2>2 DEF ExecInv
  <2> QED
    BY <1>3, <2>3, <2>4, <2>5 DEF ThreadInv
<1>7. CASE FunctReturns(t)
  <2>1. /\ exec[t] # None /\ exec' = [exec EXCEPT ![t] = None]
        /\ at' = [at EXCEPT ![t] = IF next[at[t]] = t THEN None ELSE next[at[t]]]
    BY <1>7 DEF FunctReturns, Follow
  <2>2. at[t] \in Entries /\ at[t] \in Nodes /\ at[t] # None
    BY <1>1, <1>4, <2>1 DEF ExecInv
  <2>3. PICK x : x = IF next[at[t]] = t THEN None ELSE next[at[t]]
    OBVIOUS
  <2>4. x \in Nodes \cup {None} /\ (x # None /\ on[at[t]] = t => x \in Entries /\ on[x] = t)
    BY <1>4, <2>2, <2>3
  <2>5. /\ at'[t] = x /\ exec'[t] = None
        /\ \A u \in Threads : u # t => at'[u] = at[u] /\ exec'[u] = exec[u]
    BY <1>1, <2>1, <2>3 DEF TypeOK
  <2>6. TypeOK'
    BY <1>1, <1>2, <2>1, <2>3, <2>4 DEF TypeOK
  <2>7. ExitInv'
    BY <1>1, <1>2, <2>2, <2>5 DEF ExitInv, CallInv, TypeOK
  <2>8. ExecInv'
    BY <1>1, <2>5 DEF ExecInv
  <2> QED
    BY <1>3, <2>6, <2>7, <2>8 DEF ThreadInv
<1> QED
  BY <1>5, <1>6, <1>7 DEF thread_task
-----------------------------------------------------------------------------
(* Configuring.                                                            *)

(* Starting, stopping and locking touch no list.                           *)
LEMMA SwitchStep ==
    ASSUME ThreadInv, hal_start_threads \/ hal_stop_threads \/ hal_set_lock
    PROVE  ThreadInv'
<1>1. /\ TypeOK /\ SoundLinks(next, prev, on) /\ GoneInv /\ PtrInv /\ UsersInv
      /\ ThreadsInv /\ CallInv /\ ExitInv /\ ExecInv
  BY DEF ThreadInv
<1>2. UNCHANGED <<threads, base_period, period, priority, tasks, functs, users, next, prev, on,
                  funct_ptr, call, cf, ct, position, n, list_entry, todo, gone, at, exec>>
  BY DEF hal_start_threads, hal_stop_threads, hal_set_lock, threadVars, functVars, listVars,
         callVars, rtVars
<1>3. /\ SoundLinks(next, prev, on)' /\ GoneInv' /\ PtrInv' /\ UsersInv' /\ ThreadsInv'
      /\ CallInv' /\ ExitInv' /\ ExecInv'
  BY <1>1, <1>2, GoneFrame, PtrFrame, UsersFrame, ThreadsFrame, CallFrame, ExitFrame, ExecFrame
<1>4. threads_running' \in BOOLEAN /\ lock' \in BOOLEAN
  BY <1>1 DEF TypeOK, hal_start_threads, hal_stop_threads, hal_set_lock
<1>5. TypeOK'
  BY <1>1, <1>2, <1>4 DEF TypeOK
<1> QED
  BY <1>3, <1>5 DEF ThreadInv

(* The next lower priority is one, and not above; it keeps the order.      *)
LEMMA NextLower ==
    ASSUME NEW x \in Nat, NEW y \in Nat
    PROVE  /\ rtapi_prio_next_lower(x) \in Nat /\ rtapi_prio_next_lower(x) >= PrioLowest
           /\ x >= PrioLowest => rtapi_prio_next_lower(x) <= x
           /\ x <= y => rtapi_prio_next_lower(x) <= rtapi_prio_next_lower(y)
BY ThreadAssumption DEF rtapi_prio_next_lower

(* Periods are rounded in whole numbers.                                   *)
LEMMA DivNat == \A x \in Nat, y \in Nat \ {0} : x \div y \in Nat
OBVIOUS

(* A new thread has an empty list, and a priority that is not above the    *)
(* others.                                                                 *)
LEMMA CreateStep ==
    ASSUME ThreadInv, NEW t \in Threads, NEW p \in Periods, hal_create_xthread(t, p)
    PROVE  ThreadInv'
<1>1. /\ TypeOK /\ SoundLinks(next, prev, on) /\ GoneInv /\ PtrInv /\ UsersInv
      /\ ThreadsInv /\ CallInv /\ ExitInv /\ ExecInv
  BY DEF ThreadInv
<1>2. /\ UNCHANGED <<threads_running, lock, functs, users, on, funct_ptr, call, cf, ct, position,
                     n, list_entry, todo, gone, at, exec>>
      /\ call = "none" /\ ~IsThread(t)
      /\ tasks' = tasks \cup {t} /\ threads' = Append(threads, t)
  BY DEF hal_create_xthread, Idle, functVars, callVars, rtVars
<1>3. next[t] = t /\ prev[t] = t
  <2>1. t \in Nodes /\ t \in Roots /\ next[t] \in Nodes /\ on[next[t]] = t /\ prev[next[t]] = t
        /\ \A x \in Roots : on[x] = x
    BY <1>1, Apart DEF SoundLinks
  <2>2. next[t] \notin Entries
    BY <1>1, <1>2, <2>1 DEF ThreadsInv
  <2> QED
    BY <2>1, <2>2, Apart
<1>4. next' = next /\ prev' = prev
  <2>1. next' = [next EXCEPT ![t] = t] /\ prev' = [prev EXCEPT ![t] = t]
    BY DEF hal_create_xthread
  <2>2. next \in [Nodes -> Nodes] /\ prev \in [Nodes -> Nodes]
    BY <1>1 DEF SoundLinks
  <2> QED
    BY <1>3, <2>1, <2>2
<1>5. SoundLinks(next, prev, on)' /\ GoneInv' /\ PtrInv' /\ UsersInv' /\ ExecInv'
  BY <1>1, <1>2, <1>4, GoneFrame, PtrFrame, UsersFrame, ExecFrame
<1>6. CallInv' /\ ExitInv'
  <2>1. ct = None
    BY <1>1, <1>2 DEF CallInv
  <2> QED
    BY <1>2, <2>1 DEF CallInv, ExitInv
<1>7. PICK q \in Nat : /\ priority' = [priority EXCEPT ![t] = q]
                       /\ q = rtapi_prio_next_lower(IF threads = <<>> THEN PrioHighest
                                                    ELSE priority[threads[1]])
                       /\ q >= PrioLowest
  <2>1. Head(threads) = threads[1]
    BY <1>1 DEF TypeOK
  <2>2. threads # <<>> => threads[1] \in Threads
    BY <1>1 DEF TypeOK
  <2>3. (IF threads = <<>> THEN PrioHighest ELSE priority[threads[1]]) \in Nat
    BY <1>1, <2>2, ThreadAssumption DEF TypeOK
  <2>4. PICK y \in Nat : y = IF threads = <<>> THEN PrioHighest ELSE priority[threads[1]]
    BY <2>3
  <2>5. rtapi_prio_next_lower(y) \in Nat /\ rtapi_prio_next_lower(y) >= PrioLowest
    BY NextLower
  <2>6. priority' = [priority EXCEPT ![t] = rtapi_prio_next_lower(y)]
    BY <2>1, <2>4 DEF hal_create_xthread
  <2> QED
    BY <2>4, <2>5, <2>6
<1>8. TypeOK'
  <2>1. PICK base \in Nat : /\ base = IF base_period = 0 THEN p ELSE base_period
                            /\ base > 0 /\ p \in Nat
    BY <1>1, ThreadAssumption DEF TypeOK
  <2>2. PICK h \in Nat : h = base \div 2
    BY DivNat
  <2>3. PICK d \in Nat : d = (p + h) \div base
    <3>1. p + h \in Nat /\ base \in Nat \ {0}
      BY <2>1
    <3> QED
      BY <3>1, DivNat, Zenon
  <2>4. \A x, y \in Nat : x * y \in Nat
    OBVIOUS
  <2>5. base * d \in Nat
    BY <2>4
  <2>6. base * ((p + base \div 2) \div base) \in Nat
    BY <2>2, <2>3, <2>5, Zenon
  <2>7. base_period' = base /\ period' = [period EXCEPT ![t] = base * ((p + base \div 2) \div base)]
    BY <2>1 DEF hal_create_xthread
  <2>8. threads' \in Seq(Threads) /\ tasks' \subseteq Threads
    BY <1>1, <1>2 DEF TypeOK
  <2>9. base_period' \in Nat /\ period' \in [Threads -> Nat] /\ priority' \in [Threads -> Nat]
    BY <1>1, <1>7, <2>6, <2>7 DEF TypeOK
  <2> QED
    BY <1>1, <1>2, <1>4, <2>8, <2>9 DEF TypeOK
<1>9. ThreadsInv'
  <2>1. /\ threads \in Seq(Threads) /\ Len(threads) \in Nat /\ Len(threads') = Len(threads) + 1
        /\ \A i \in 1 .. Len(threads) : threads'[i] = threads[i]
        /\ threads'[Len(threads) + 1] = t
        /\ \A i \in 1 .. Len(threads) : threads[i] \in Threads /\ threads[i] # t
    <3>1. threads \in Seq(Threads)
      BY <1>1 DEF TypeOK
    <3>2. \A i \in 1 .. Len(threads) : threads[i] \in Threads /\ threads[i] # t
      BY <1>2, <3>1 DEF IsThread
    <3> QED
      BY <1>2, <3>1, <3>2, AppendProperties
  <2>2. /\ priority'[t] = q /\ \A u \in Threads : u # t => priority'[u] = priority[u]
        /\ \A u \in Threads : priority[u] \in Nat /\ priority'[u] \in Nat
    BY <1>1, <1>7 DEF TypeOK
  <2>3. \A i \in 1 .. Len(threads) : priority'[threads'[i]] = priority[threads[i]]
    BY <2>1, <2>2
  <2>4. priority'[threads'[Len(threads) + 1]] = q
    BY <2>1, <2>2
  <2>5. \A i \in 1 .. Len(threads) : priority[threads[i]] >= q
    BY <1>1, <1>7, <2>1 DEF ThreadsInv
  <2>6. OlderNotBelow'
    <3> SUFFICES ASSUME NEW i \in 1 .. Len(threads) + 1, NEW j \in 1 .. Len(threads) + 1, i < j
                 PROVE  priority'[threads'[i]] >= priority'[threads'[j]]
      BY <2>1 DEF OlderNotBelow
    <3>1. i \in 1 .. Len(threads)
      BY <2>1
    <3>2. CASE j \in 1 .. Len(threads)
      BY <1>1, <2>3, <3>1, <3>2 DEF ThreadsInv, OlderNotBelow
    <3>3. CASE j = Len(threads) + 1
      BY <2>3, <2>4, <2>5, <3>1, <3>3
    <3> QED
      BY <2>1, <3>2, <3>3
  <2>7. ASSUME NEW i \in 1 .. Len(threads) + 1
        PROVE  priority'[threads'[i]] >= rtapi_prio_next_lower(priority'[threads'[1]])
    <3>1. CASE threads = <<>>
      <4>1. Len(threads) = 0 /\ i = 1 /\ priority'[threads'[1]] = q
        BY <2>1, <2>4, <3>1
      <4>2. rtapi_prio_next_lower(q) <= q /\ rtapi_prio_next_lower(q) \in Nat
        BY <1>7, NextLower
      <4> QED
        BY <4>1, <4>2
    <3>2. CASE threads # <<>>
      <4>1. 1 \in 1 .. Len(threads)
        BY <2>1, <3>2
      <4>2. priority'[threads'[1]] = priority[threads[1]] /\ q = rtapi_prio_next_lower(priority[threads[1]])
        BY <1>7, <2>3, <3>2, <4>1
      <4>3. CASE i \in 1 .. Len(threads)
        BY <2>3, <2>5, <4>2, <4>3
      <4>4. CASE i = Len(threads) + 1
        BY <1>7, <2>4, <4>2, <4>4
      <4> QED
        BY <2>1, <4>3, <4>4
    <3> QED
      BY <3>1, <3>2
  <2>8. \A u : IsThread(u) => IsThread(u)'
    BY <2>1 DEF IsThread
  <2>9. \A e \in Entries : on'[e] \in Threads => IsThread(on[e])'
    BY <1>1, <1>2, <2>8 DEF ThreadsInv
  <2>10. \A i, j \in 1 .. Len(threads') : threads'[i] = threads'[j] => i = j
    <3> SUFFICES ASSUME NEW i \in 1 .. Len(threads) + 1, NEW j \in 1 .. Len(threads) + 1,
                        threads'[i] = threads'[j]
                 PROVE  i = j
      BY <2>1
    <3>1. i \in 1 .. Len(threads) \/ i = Len(threads) + 1
      BY <2>1
    <3>2. j \in 1 .. Len(threads) \/ j = Len(threads) + 1
      BY <2>1
    <3> QED
      BY <1>1, <2>1, <3>1, <3>2 DEF ThreadsInv
  <2> QED
    BY <2>1, <2>6, <2>7, <2>9, <2>10 DEF ThreadsInv, rtapi_prio_next_lower
<1> QED
  BY <1>5, <1>6, <1>8, <1>9 DEF ThreadInv

(* A funct that is exported has no users.                                  *)
LEMMA ExportStep ==
    ASSUME ThreadInv, NEW f \in Functs, hal_export_funct(f)
    PROVE  ThreadInv'
<1>1. /\ TypeOK /\ SoundLinks(next, prev, on) /\ GoneInv /\ PtrInv /\ UsersInv
      /\ ThreadsInv /\ CallInv /\ ExitInv /\ ExecInv
  BY DEF ThreadInv
<1>2. /\ UNCHANGED <<threads_running, lock, threads, base_period, period, priority, tasks, next,
                     prev, on, funct_ptr, call, cf, ct, position, n, list_entry, todo, gone, at,
                     exec>>
      /\ call = "none" /\ f \notin functs
      /\ functs' = functs \cup {f} /\ users' = [users EXCEPT ![f] = 0]
  BY DEF hal_export_funct, Idle, threadVars, listVars, callVars, rtVars
<1>3. SoundLinks(next, prev, on)' /\ GoneInv' /\ ThreadsInv' /\ ExitInv' /\ ExecInv'
  BY <1>1, <1>2, GoneFrame, ThreadsFrame, ExitFrame, ExecFrame
<1>4. TypeOK'
  BY <1>1, <1>2 DEF TypeOK
<1>5. PtrInv'
  BY <1>1, <1>2 DEF PtrInv
<1>6. UsersInv'
  <2>1. Pointing(f) = {}
    BY <1>1, <1>2, Apart DEF Pointing, PtrInv
  <2>2. Cardinality(Pointing(f)) = 0
    BY <2>1, FS_EmptySet
  <2>3. users'[f] = 0 /\ \A g \in functs : g # f => users'[g] = users[g]
    BY <1>1, <1>2 DEF TypeOK
  <2>4. \A g : Pointing(g)' = Pointing(g)
    BY <1>2 DEF Pointing
  <2> QED
    BY <1>1, <1>2, <2>2, <2>3, <2>4 DEF UsersInv
<1>7. CallInv'
  BY <1>1, <1>2 DEF CallInv
<1> QED
  BY <1>3, <1>4, <1>5, <1>6, <1>7 DEF ThreadInv

(* Adding a funct: the checks.                                             *)
LEMMA AddFunctStep ==
    ASSUME ThreadInv, NEW f \in Functs, NEW t \in Threads, NEW pos \in Int, AddFunct(f, t, pos)
    PROVE  ThreadInv'
<1>1. /\ TypeOK /\ SoundLinks(next, prev, on) /\ GoneInv /\ PtrInv /\ UsersInv
      /\ ThreadsInv /\ CallInv /\ ExitInv /\ ExecInv
  BY DEF ThreadInv
<1>2. /\ UNCHANGED <<threads_running, lock, threads, base_period, period, priority, tasks, functs,
                     users, next, prev, on, funct_ptr, todo, gone, at, exec>>
      /\ call = "none" /\ f \in functs /\ Available(f) /\ IsThread(t)
      /\ call' = "addf" /\ cf' = f /\ ct' = t /\ list_entry' = t
      /\ position' = pos /\ n' = IF pos > 0 THEN 1 ELSE -1
  BY DEF AddFunct, Idle, threadVars, functVars, listVars, rtVars
<1>3. gone = None
  BY <1>1, <1>2 DEF GoneInv, Removing
<1>4. SoundLinks(next, prev, on)' /\ PtrInv' /\ UsersInv' /\ ThreadsInv' /\ ExecInv'
  BY <1>1, <1>2, PtrFrame, UsersFrame, ThreadsFrame, ExecFrame
<1>5. t \in Nodes /\ on[t] = t
  BY <1>1, Apart DEF SoundLinks
<1>6. TypeOK'
  <2>1. n' \in Int
    BY <1>2
  <2> QED
    BY <1>1, <1>2, <1>5, <2>1 DEF TypeOK
<1>7. GoneInv' /\ ExitInv'
  BY <1>2, <1>3 DEF GoneInv, ExitInv
<1>8. CallInv'
  <2>1. IsThread(ct)'
    BY <1>2 DEF IsThread
  <2>2. Available(cf)'
    BY <1>2 DEF Available
  <2>3. list_entry' \in Nodes /\ on'[list_entry'] = ct' /\ cf' \in functs' /\ ct' # None
    BY <1>2, <1>5, Apart
  <2> QED
    BY <1>2, <2>1, <2>2, <2>3 DEF CallInv
<1> QED
  BY <1>4, <1>6, <1>7, <1>8 DEF ThreadInv

(* Adding a funct: the search stays on the list of the thread.             *)
LEMMA AddSeekStep ==
    ASSUME ThreadInv, AddSeek
    PROVE  ThreadInv'
<1>1. /\ TypeOK /\ SoundLinks(next, prev, on) /\ GoneInv /\ PtrInv /\ UsersInv
      /\ ThreadsInv /\ CallInv /\ ExitInv /\ ExecInv
  BY DEF ThreadInv
<1>2. /\ UNCHANGED <<threads_running, lock, threads, base_period, period, priority, tasks, functs,
                     users, next, prev, on, funct_ptr, todo, gone, at, exec>>
      /\ call = "addf"
  BY DEF AddSeek, threadVars, functVars, listVars, rtVars
<1>3. gone = None
  BY <1>1, <1>2 DEF GoneInv, Removing
<1>4. PICK le : /\ le = IF position > 0 THEN next[list_entry] ELSE prev[list_entry]
                /\ \/ le = ct /\ NoCall
                   \/ /\ le # ct
                      /\ list_entry' = le /\ n' = IF position > 0 THEN n + 1 ELSE n - 1
                      /\ UNCHANGED <<call, cf, ct, position>>
  BY DEF AddSeek
<1>5. ct # None /\ IsThread(ct) /\ list_entry \in Nodes /\ on[list_entry] = ct
  BY <1>1, <1>2 DEF CallInv
<1>6. le \in Nodes /\ on[le] = ct
  <2>1. /\ next[list_entry] \in Nodes /\ prev[list_entry] \in Nodes
        /\ on[next[list_entry]] = ct /\ on[next[prev[list_entry]]] = on[prev[list_entry]]
        /\ next[prev[list_entry]] = list_entry
    BY <1>1, <1>5 DEF SoundLinks
  <2> QED
    BY <1>4, <1>5, <2>1
<1>7. SoundLinks(next, prev, on)' /\ PtrInv' /\ UsersInv' /\ ThreadsInv' /\ ExecInv'
  BY <1>1, <1>2, PtrFrame, UsersFrame, ThreadsFrame, ExecFrame
<1>8. CASE NoCall
  <2>1. TypeOK'
    BY <1>1, <1>2, <1>8 DEF TypeOK, NoCall
  <2>2. GoneInv'
    BY <1>1, <1>2, <1>3, <1>8 DEF NoCall, GoneInv
  <2> QED
    BY <1>7, <1>8, <2>1, <2>2, CallDone DEF ThreadInv
<1>9. CASE list_entry' = le /\ UNCHANGED <<call, cf, ct, position>>
           /\ n' = IF position > 0 THEN n + 1 ELSE n - 1
  <2>1. TypeOK'
    <3>1. n' \in Int
      BY <1>1, <1>9 DEF TypeOK
    <3> QED
      BY <1>1, <1>2, <1>6, <1>9, <3>1 DEF TypeOK
  <2>2. GoneInv' /\ ExitInv'
    BY <1>1, <1>2, <1>3, <1>9 DEF GoneInv, ExitInv
  <2>3. CallInv'
    BY <1>1, <1>2, <1>6, <1>9 DEF CallInv, IsThread, Available
  <2> QED
    BY <1>7, <2>1, <2>2, <2>3 DEF ThreadInv
<1> QED
  BY <1>4, <1>8, <1>9

(* Adding a funct without memory.                                          *)
LEMMA AddFailsStep ==
    ASSUME ThreadInv, AddFails
    PROVE  ThreadInv'
<1>1. /\ TypeOK /\ SoundLinks(next, prev, on) /\ GoneInv /\ PtrInv /\ UsersInv
      /\ ThreadsInv /\ CallInv /\ ExitInv /\ ExecInv
  BY DEF ThreadInv
<1>2. /\ UNCHANGED <<threads_running, lock, threads, base_period, period, priority, tasks, functs,
                     users, next, prev, on, funct_ptr, todo, gone, at, exec>>
      /\ call = "addf" /\ NoCall
  BY DEF AddFails, threadVars, functVars, listVars, rtVars
<1>3. gone = None
  BY <1>1, <1>2 DEF GoneInv, Removing
<1>4. SoundLinks(next, prev, on)' /\ PtrInv' /\ UsersInv' /\ ThreadsInv' /\ ExecInv'
  BY <1>1, <1>2, PtrFrame, UsersFrame, ThreadsFrame, ExecFrame
<1>5. TypeOK'
  BY <1>1, <1>2 DEF TypeOK, NoCall
<1>6. GoneInv'
  BY <1>1, <1>2, <1>3 DEF NoCall, GoneInv
<1> QED
  BY <1>2, <1>4, <1>5, <1>6, CallDone DEF ThreadInv

(* The entries that call a funct are finitely many.                        *)
LEMMA PointingFinite ==
    ASSUME NEW f
    PROVE  IsFiniteSet(Pointing(f)) /\ Cardinality(Pointing(f)) \in Nat
<1>1. Pointing(f) \subseteq Entries
  BY DEF Pointing
<1>2. IsFiniteSet(Pointing(f))
  BY <1>1, ThreadAssumption, FS_Subset
<1> QED
  BY <1>2, FS_CardinalityType

(* Adding a funct: the entry joins the list of the thread, and is counted. *)
LEMMA AddInsertStep ==
    ASSUME ThreadInv, AddInsert
    PROVE  ThreadInv'
<1>1. /\ TypeOK /\ SoundLinks(next, prev, on) /\ GoneInv /\ PtrInv /\ UsersInv
      /\ ThreadsInv /\ CallInv /\ ExitInv /\ ExecInv
  BY DEF ThreadInv
<1>2. PICK e \in Entries :
         /\ Allocated(e)
         /\ dlist_add_after(e, InsertAfter, RemovedNext(e), RemovedPrev(e))
         /\ funct_ptr' = [funct_ptr EXCEPT ![e] = cf]
         /\ on' = [on EXCEPT ![e] = ct]
  BY DEF AddInsert
<1>3. /\ UNCHANGED <<threads_running, lock, threads, base_period, period, priority, tasks, functs,
                     todo, gone, at, exec>>
      /\ call = "addf" /\ NoCall /\ users' = [users EXCEPT ![cf] = @ + 1]
  BY DEF AddInsert, threadVars, rtVars
<1>4. gone = None
  BY <1>1, <1>3 DEF GoneInv, Removing
<1>5. /\ ct # None /\ ct \in Threads /\ IsThread(ct) /\ list_entry \in Nodes /\ on[list_entry] = ct
      /\ cf \in functs /\ cf \in Functs /\ Available(cf)
  BY <1>1, <1>3 DEF CallInv, TypeOK
<1>6. e \in Nodes /\ ct \in Roots /\ ct # Free /\ e # None /\ cf # None /\ None \notin Threads
      /\ Free \notin Threads
  BY <1>5, Apart
<1>7. on[e] \in {Free, None}
  <2>1. Free \in Nodes /\ on[Free] = Free /\ on[next[Free]] = on[Free]
    BY <1>1, Apart DEF SoundLinks
  <2>2. e = next[Free] \/ e \in Unused
    BY <1>2 DEF Allocated
  <2> QED
    BY <2>1, <2>2 DEF Unused
<1>8. funct_ptr[e] = None
  BY <1>1, <1>4, <1>6, <1>7 DEF PtrInv
<1>9. SoundLinks(next, prev, on)'
  <2>1. PICK nx : nx = RemovedNext(e)
    OBVIOUS
  <2>2. PICK pv : pv = RemovedPrev(e)
    OBVIOUS
  <2>3. PICK o : o = [on EXCEPT ![e] = None]
    OBVIOUS
  <2>4. SoundLinks(nx, pv, o) /\ nx[e] = e /\ pv[e] = e
    BY <1>1, <2>1, <2>2, <2>3, RemovedSound
  <2>5. PICK q \in Nodes : q = InsertAfter /\ on[q] = ct
    <3>1. /\ prev[list_entry] \in Nodes /\ next[prev[list_entry]] = list_entry
          /\ on[next[prev[list_entry]]] = on[prev[list_entry]]
      BY <1>1, <1>5 DEF SoundLinks
    <3> QED
      BY <1>5, <3>1 DEF InsertAfter
  <2>6. on \in [Nodes -> Roots \cup {None}]
    BY <1>1 DEF SoundLinks
  <2>7. o[e] = None /\ o[q] = ct /\ [o EXCEPT ![e] = ct] = [on EXCEPT ![e] = ct]
    BY <1>5, <1>6, <1>7, <2>3, <2>5, <2>6
  <2>8. SoundLinks([nx EXCEPT ![e] = nx[q], ![q] = e], [pv EXCEPT ![e] = q, ![nx[q]] = e],
                   [o EXCEPT ![e] = ct])
    BY <1>6, <2>4, <2>5, <2>7, InsertSound
  <2>9. next' = [nx EXCEPT ![e] = nx[q], ![q] = e] /\ prev' = [pv EXCEPT ![e] = q, ![nx[q]] = e]
    BY <1>2, <2>1, <2>2, <2>5 DEF dlist_add_after
  <2>10. on' = [o EXCEPT ![e] = ct]
    BY <1>2, <2>7
  <2> QED
    BY <2>8, <2>9, <2>10
<1>10. /\ on'[e] = ct /\ \A x \in Nodes : x # e => on'[x] = on[x]
       /\ funct_ptr'[e] = cf /\ \A x \in Entries : x # e => funct_ptr'[x] = funct_ptr[x]
       /\ Entries \subseteq Nodes
  BY <1>1, <1>2, <1>6, Apart DEF TypeOK
<1>11. PtrInv'
  BY <1>1, <1>3, <1>4, <1>5, <1>6, <1>10 DEF PtrInv
<1>12. UsersInv'
  <2>1. PICK g \in functs : g = cf
    BY <1>5
  <2>2. Pointing(g)' = Pointing(g) \cup {e} /\ e \notin Pointing(g)
    BY <1>6, <1>8, <1>10, <2>1 DEF Pointing
  <2>3. \A f \in functs : f # g => Pointing(f)' = Pointing(f)
    BY <1>1, <1>8, <1>10, <2>1, Apart DEF Pointing, TypeOK
  <2>4. Cardinality(Pointing(g)') = Cardinality(Pointing(g)) + 1
    BY <2>2, PointingFinite, FS_AddElement, Zenon
  <2>5. /\ users'[g] = users[g] + 1 /\ users[g] \in Nat
        /\ \A f \in functs : f # g => users'[f] = users[f]
    BY <1>1, <1>3, <2>1 DEF TypeOK
  <2>6. users[g] = Cardinality(Pointing(g)) /\ (g \notin Reentrant => users[g] = 0)
    BY <1>1, <1>5, <2>1, <2>5 DEF UsersInv, Available
  <2>7. users'[g] = Cardinality(Pointing(g)') /\ (g \notin Reentrant => users'[g] <= 1)
    BY <2>4, <2>5, <2>6
  <2>8. ASSUME NEW f \in functs
        PROVE  (users[f] = Cardinality(Pointing(f)) /\ (f \notin Reentrant => users[f] <= 1))'
    <3>1. CASE f = g
      BY <2>7, <3>1
    <3>2. CASE f # g
      BY <1>1, <2>3, <2>5, <3>2 DEF UsersInv
    <3> QED
      BY <3>1, <3>2
  <2> QED
    BY <1>3, <2>8 DEF UsersInv
<1>13. ThreadsInv'
  <2>1. \A x : IsThread(x)' <=> IsThread(x)
    BY <1>3 DEF IsThread
  <2>2. \A x \in Entries : on'[x] \in Threads => IsThread(on'[x])
    BY <1>1, <1>5, <1>10 DEF ThreadsInv
  <2>3. \A x \in Entries : on'[x] \in Threads => IsThread(on[x])'
    BY <1>3, <2>2 DEF IsThread
  <2> QED
    BY <1>1, <1>3, <2>3 DEF ThreadsInv, OlderNotBelow, rtapi_prio_next_lower
<1>14. TypeOK'
  <2>1. users' \in [Functs -> Nat] /\ funct_ptr' \in [Entries -> Functs \cup {None}]
    BY <1>1, <1>2, <1>3, <1>5 DEF TypeOK
  <2>2. next' \in [Nodes -> Nodes] /\ prev' \in [Nodes -> Nodes]
    BY <1>9 DEF SoundLinks
  <2>3. on' \in [Nodes -> Threads \cup {Free, None}]
    BY <1>1, <1>2, <1>5 DEF TypeOK
  <2> QED
    BY <1>1, <1>3, <2>1, <2>2, <2>3 DEF TypeOK, NoCall
<1>16. GoneInv' /\ ExecInv' /\ CallInv' /\ ExitInv'
  BY <1>1, <1>3, <1>4, ExecFrame, CallDone DEF GoneInv
<1> QED
  BY <1>9, <1>11, <1>12, <1>13, <1>14, <1>16 DEF ThreadInv
-----------------------------------------------------------------------------
(* Removing functs: the walks.                                             *)

(* A walk begins behind the root of the list: it has passed the root only. *)
LEMMA WalkBegins ==
    ASSUME SoundLinks(next, prev, on), UNCHANGED <<next, prev, on>>, NEW t \in Threads,
           ct' = t, list_entry' = next[t]
    PROVE  /\ ct' # None /\ list_entry' \in Nodes /\ on'[list_entry'] = ct'
           /\ \E W \in SUBSET Nodes : Passed(W)'
<1>1. /\ t \in Nodes /\ t # None /\ on[t] = t /\ next[t] \in Nodes /\ on[next[t]] = t
      /\ prev[next[t]] = t
  BY Apart DEF SoundLinks
<1>2. PICK W \in SUBSET Nodes : W = {t}
  BY <1>1
<1>3. Passed(W)'
  BY <1>1, <1>2 DEF Passed
<1> QED
  BY <1>1, <1>2, <1>3

(* Deleting a funct from a thread: the checks.                             *)
LEMMA DelFunctStep ==
    ASSUME ThreadInv, NEW f \in Functs, NEW t \in Threads, DelFunct(f, t)
    PROVE  ThreadInv'
<1>1. /\ TypeOK /\ SoundLinks(next, prev, on) /\ GoneInv /\ PtrInv /\ UsersInv
      /\ ThreadsInv /\ CallInv /\ ExitInv /\ ExecInv
  BY DEF ThreadInv
<1>2. /\ UNCHANGED <<threads_running, lock, threads, base_period, period, priority, tasks, functs,
                     users, next, prev, on, funct_ptr, position, n, todo, gone, at, exec>>
      /\ call = "none" /\ MayRemove /\ f \in functs /\ IsThread(t)
      /\ call' = "delf" /\ cf' = f /\ ct' = t /\ list_entry' = next[t]
  BY DEF DelFunct, Idle, threadVars, functVars, listVars, rtVars
<1>3. gone = None
  BY <1>1, <1>2 DEF GoneInv, Removing
<1>4. SoundLinks(next, prev, on)' /\ PtrInv' /\ UsersInv' /\ ThreadsInv' /\ ExecInv'
  BY <1>1, <1>2, PtrFrame, UsersFrame, ThreadsFrame, ExecFrame
<1>5. ct' # None /\ list_entry' \in Nodes /\ on'[list_entry'] = ct'
  BY <1>1, <1>2, WalkBegins
<1>6. TypeOK'
  BY <1>1, <1>2, <1>5 DEF TypeOK
<1>7. GoneInv' /\ ExitInv'
  BY <1>2, <1>3 DEF GoneInv, ExitInv
<1>8. IsThread(ct)'
  BY <1>2 DEF IsThread
<1>9. CallInv'
  BY <1>2, <1>5, <1>8 DEF CallInv
<1> QED
  BY <1>4, <1>6, <1>7, <1>9 DEF ThreadInv

(* A component exits: the first funct to be freed.                         *)
LEMMA FreeFunctStep ==
    ASSUME ThreadInv, NEW f \in Functs, free_funct_struct(f)
    PROVE  ThreadInv'
<1>1. /\ TypeOK /\ SoundLinks(next, prev, on) /\ GoneInv /\ PtrInv /\ UsersInv
      /\ ThreadsInv /\ CallInv /\ ExitInv /\ ExecInv
  BY DEF ThreadInv
<1>2. /\ UNCHANGED <<threads_running, lock, threads, base_period, period, priority, tasks, functs,
                     users, next, prev, on, funct_ptr, ct, position, n, list_entry, gone, at, exec>>
      /\ call = "none" /\ MayRemove /\ f \in functs
      /\ call' = "free_funct" /\ cf' = f
      /\ todo' = IF users[f] > 0 THEN {t \in Threads : IsThread(t)} ELSE {}
  BY DEF free_funct_struct, Idle, threadVars, functVars, listVars, rtVars
<1>3. gone = None /\ ct = None
  BY <1>1, <1>2 DEF GoneInv, Removing, CallInv
<1>4. SoundLinks(next, prev, on)' /\ PtrInv' /\ UsersInv' /\ ThreadsInv' /\ ExecInv'
  BY <1>1, <1>2, PtrFrame, UsersFrame, ThreadsFrame, ExecFrame
<1>5. todo' \subseteq Threads /\ \A t \in todo' : IsThread(t)
  BY <1>2
<1>6. TypeOK'
  BY <1>1, <1>2, <1>5 DEF TypeOK
<1>7. GoneInv' /\ ExitInv'
  BY <1>2, <1>3 DEF GoneInv, ExitInv
<1>8. ASSUME NEW e \in Entries, funct_ptr[e] = f
      PROVE  on[e] \in todo'
  <2>1. on[e] \in Threads /\ IsThread(on[e])
    BY <1>1, <1>3, <1>8, Apart DEF PtrInv, ThreadsInv
  <2>2. users[f] > 0
    <3>1. e \in Pointing(f)
      BY <1>8 DEF Pointing
    <3>2. Cardinality(Pointing(f)) # 0
      BY <3>1, PointingFinite, FS_EmptySet
    <3> QED
      BY <1>1, <1>2, <3>2, PointingFinite DEF UsersInv
  <2> QED
    BY <1>2, <2>1, <2>2
<1>9. \A t \in todo' : IsThread(t)'
  BY <1>2, <1>5 DEF IsThread
<1>10. CallInv'
  BY <1>2, <1>3, <1>8, <1>9 DEF CallInv
<1> QED
  BY <1>4, <1>6, <1>7, <1>10 DEF ThreadInv

(* The funct to be freed: the next thread's list.                          *)
LEMMA NextThreadStep ==
    ASSUME ThreadInv, NEW t \in Threads, NextThread(t)
    PROVE  ThreadInv'
<1>1. /\ TypeOK /\ SoundLinks(next, prev, on) /\ GoneInv /\ PtrInv /\ UsersInv
      /\ ThreadsInv /\ CallInv /\ ExitInv /\ ExecInv
  BY DEF ThreadInv
<1>2. /\ UNCHANGED <<threads_running, lock, threads, base_period, period, priority, tasks, functs,
                     users, next, prev, on, funct_ptr, call, cf, position, n, gone, at, exec>>
      /\ call = "free_funct" /\ ct = None /\ t \in todo
      /\ ct' = t /\ list_entry' = next[t] /\ todo' = todo \ {t}
  BY DEF NextThread, threadVars, functVars, listVars, rtVars
<1>3. gone = None
  BY <1>1, <1>2 DEF GoneInv
<1>4. SoundLinks(next, prev, on)' /\ PtrInv' /\ UsersInv' /\ ThreadsInv' /\ ExecInv'
  BY <1>1, <1>2, PtrFrame, UsersFrame, ThreadsFrame, ExecFrame
<1>5. /\ ct' # None /\ list_entry' \in Nodes /\ on'[list_entry'] = ct'
      /\ \E W \in SUBSET Nodes : Passed(W)'
  BY <1>1, <1>2, WalkBegins
<1>6. TypeOK'
  BY <1>1, <1>2, <1>5 DEF TypeOK
<1>7. GoneInv' /\ ExitInv'
  BY <1>2, <1>3 DEF GoneInv, ExitInv
<1>8. \A u \in todo : IsThread(u)'
  BY <1>1, <1>2 DEF CallInv, IsThread
<1>9. \A e \in Entries : funct_ptr[e] = cf => on[e] \in todo' \cup {ct'}
  <2>1. (\A e \in Entries : e # gone) /\ None \notin Threads
    BY <1>3, Apart
  <2>2. \A e \in Entries : funct_ptr[e] = cf => on[e] \in todo \cup {None}
    BY <1>1, <1>2, <2>1 DEF CallInv
  <2>3. cf \in functs /\ cf # None
    BY <1>1, <1>2, Apart DEF CallInv, TypeOK
  <2>4. \A e \in Entries : funct_ptr[e] = cf => on[e] # None
    BY <1>1, <2>1, <2>3 DEF PtrInv
  <2> QED
    BY <1>2, <2>2, <2>4
<1>10. cf' \in functs' /\ IsThread(ct)'
  <2>1. cf \in functs /\ IsThread(t)
    BY <1>1, <1>2 DEF CallInv
  <2> QED
    BY <1>2, <2>1 DEF IsThread
<1>11. CallInv'
  BY <1>2, <1>5, <1>8, <1>9, <1>10 DEF CallInv
<1> QED
  BY <1>4, <1>6, <1>7, <1>11 DEF ThreadInv

(* A thread exits: its task is gone before its list is cleared.            *)
LEMMA ExitThreadStep ==
    ASSUME ThreadInv, NEW t \in Threads, halg_exit_thread(t)
    PROVE  ThreadInv'
<1>1. /\ TypeOK /\ SoundLinks(next, prev, on) /\ GoneInv /\ PtrInv /\ UsersInv
      /\ ThreadsInv /\ CallInv /\ ExitInv /\ ExecInv
  BY DEF ThreadInv
<1>2. /\ UNCHANGED <<lock, threads, base_period, period, priority, functs, users, next, prev, on,
                     funct_ptr, cf, position, n, todo, gone>>
      /\ call = "none" /\ IsThread(t) /\ threads_running' = FALSE /\ tasks' = tasks \ {t}
      /\ at' = [at EXCEPT ![t] = None] /\ exec' = [exec EXCEPT ![t] = None]
      /\ call' = "exit_thread" /\ ct' = t /\ list_entry' = next[t]
  BY DEF halg_exit_thread, Idle, functVars, listVars
<1>3. gone = None
  BY <1>1, <1>2 DEF GoneInv, Removing
<1>4. SoundLinks(next, prev, on)' /\ PtrInv' /\ UsersInv' /\ ThreadsInv'
  BY <1>1, <1>2, PtrFrame, UsersFrame, ThreadsFrame
<1>5. /\ ct' # None /\ list_entry' \in Nodes /\ on'[list_entry'] = ct'
      /\ \E W \in SUBSET Nodes : Passed(W)'
  BY <1>1, <1>2, WalkBegins
<1>6. TypeOK'
  BY <1>1, <1>2, <1>5 DEF TypeOK
<1>7. /\ at'[t] = None /\ exec'[t] = None
      /\ \A u \in Threads : u # t => at'[u] = at[u] /\ exec'[u] = exec[u]
  BY <1>1, <1>2 DEF TypeOK
<1>8. GoneInv' /\ ExitInv'
  BY <1>2, <1>3, <1>7 DEF GoneInv, ExitInv
<1>9. IsThread(ct)'
  BY <1>2 DEF IsThread
<1>10. CallInv'
  BY <1>2, <1>5, <1>9 DEF CallInv
<1>11. ExecInv'
  BY <1>1, <1>7 DEF ExecInv
<1> QED
  BY <1>4, <1>6, <1>8, <1>10, <1>11 DEF ThreadInv

(* The walk passes an entry that does not match.                           *)
LEMMA WalkOnStep ==
    ASSUME ThreadInv, WalkOn
    PROVE  ThreadInv'
<1>1. /\ TypeOK /\ SoundLinks(next, prev, on) /\ GoneInv /\ PtrInv /\ UsersInv
      /\ ThreadsInv /\ CallInv /\ ExitInv /\ ExecInv
  BY DEF ThreadInv
<1>2. /\ UNCHANGED <<threads_running, lock, threads, base_period, period, priority, tasks, functs,
                     users, next, prev, on, funct_ptr, call, cf, ct, position, n, todo, gone, at,
                     exec>>
      /\ Removing /\ ct # None /\ gone = None /\ list_entry # ct /\ ~Matches(list_entry)
      /\ list_entry' = next[list_entry]
  BY DEF WalkOn, Walking, threadVars, functVars, listVars, rtVars
<1>3. /\ SoundLinks(next, prev, on)' /\ PtrInv' /\ UsersInv' /\ ThreadsInv' /\ ExecInv'
      /\ GoneInv' /\ ExitInv'
  BY <1>1, <1>2, PtrFrame, UsersFrame, ThreadsFrame, ExecFrame, GoneFrame, ExitFrame
<1>4. /\ list_entry \in Nodes /\ on[list_entry] = ct /\ next[list_entry] \in Nodes
      /\ on[next[list_entry]] = ct /\ prev[next[list_entry]] = list_entry
  BY <1>1, <1>2 DEF CallInv, SoundLinks
<1>5. TypeOK'
  BY <1>1, <1>2, <1>4 DEF TypeOK
<1>6. ASSUME NEW W \in SUBSET Nodes, Passed(W)
      PROVE  \E V \in SUBSET Nodes : Passed(V)'
  <2>1. PICK V \in SUBSET Nodes : V = W \cup {list_entry}
    BY <1>4
  <2>2. ct \in W /\ prev[list_entry] \in W
        /\ \A x \in W : on[x] = ct /\ (x # ct => prev[x] \in W /\ ~Matches(x))
    BY <1>6 DEF Passed
  <2>3. \A x : Matches(x)' <=> Matches(x)
    BY <1>2 DEF Matches
  <2>4. Passed(V)'
    <3>1. ct' \in V /\ prev'[list_entry'] \in V
      BY <1>2, <1>4, <2>1, <2>2
    <3>2. \A x \in V : on'[x] = ct' /\ (x # ct' => prev'[x] \in V)
      BY <1>2, <1>4, <2>1, <2>2
    <3>3. \A x \in V : x # ct' => ~Matches(x)
      BY <1>2, <2>1, <2>2
    <3> QED
      BY <1>2, <3>1, <3>2, <3>3 DEF Passed, Matches
  <2> QED
    BY <2>1, <2>4
<1>7. IsThread(ct)' <=> IsThread(ct)
  BY <1>2 DEF IsThread
<1>8. Available(cf)' <=> Available(cf)
  BY <1>2 DEF Available
<1>9. \A u \in todo : IsThread(u)' <=> IsThread(u)
  BY <1>2 DEF IsThread
<1>10. CallInv'
  BY <1>1, <1>2, <1>4, <1>6, <1>7, <1>8, <1>9 DEF CallInv
<1> QED
  BY <1>3, <1>5, <1>10 DEF ThreadInv

(* The walk takes an entry off its list; nothing points to it then.        *)
LEMMA RemoveStep ==
    ASSUME ThreadInv, dlist_remove_entry
    PROVE  ThreadInv'
<1>1. /\ TypeOK /\ SoundLinks(next, prev, on) /\ GoneInv /\ PtrInv /\ UsersInv
      /\ ThreadsInv /\ CallInv /\ ExitInv /\ ExecInv
  BY DEF ThreadInv
<1>2. /\ UNCHANGED <<threads_running, lock, threads, base_period, period, priority, tasks, functs,
                     users, funct_ptr, call, cf, ct, position, n, todo, at, exec>>
      /\ Removing /\ ct # None /\ gone = None /\ list_entry # ct /\ Matches(list_entry)
      /\ next' = RemovedNext(list_entry) /\ prev' = RemovedPrev(list_entry)
      /\ on' = [on EXCEPT ![list_entry] = None]
      /\ gone' = list_entry /\ list_entry' = next[list_entry]
  BY DEF dlist_remove_entry, Walking, threadVars, functVars, rtVars
<1>3. ct \in Threads /\ ct \in Roots /\ IsThread(ct) /\ list_entry \in Nodes /\ on[list_entry] = ct
  BY <1>1, <1>2, Apart DEF CallInv, TypeOK
<1>4. PICK e \in Entries : e = list_entry /\ next[e] # e
  BY <1>1, <1>2, <1>3, NotAlone
<1>5. PICK x \in Nodes : x = next[e] /\ x # e /\ on[x] = ct /\ prev[x] = e
  BY <1>1, <1>3, <1>4 DEF SoundLinks
<1>6. e \in Nodes /\ e # None /\ None \notin Threads \cup Entries /\ Entries \subseteq Nodes
  BY Apart
<1>7. SoundLinks(next, prev, on)' /\ next'[e] = e /\ prev'[e] = e
  BY <1>1, <1>2, <1>4, RemovedSound
<1>8. on'[e] = None /\ \A y \in Nodes : y # e => on'[y] = on[y]
  BY <1>1, <1>2, <1>4, <1>6 DEF TypeOK
<1>9. prev'[x] = prev[e] /\ \A y \in Nodes : y # e /\ y # x => prev'[y] = prev[y]
  BY <1>1, <1>2, <1>4, <1>5, <1>6 DEF TypeOK, RemovedPrev
<1>10. funct_ptr[e] # None
  BY <1>1, <1>2, <1>3, <1>4, <1>6 DEF PtrInv
<1>11. GoneInv'
  <2>1. Removing' /\ ct' # None
    BY <1>2 DEF Removing
  <2>2. gone' = e /\ funct_ptr'[e] # None
    BY <1>2, <1>4, <1>10
  <2> QED
    BY <1>7, <1>8, <2>1, <2>2 DEF GoneInv
<1>12. PtrInv'
  BY <1>1, <1>2, <1>4, <1>6, <1>8 DEF PtrInv
<1>13. UsersInv' /\ ExitInv' /\ ExecInv'
  BY <1>1, <1>2, UsersFrame, ExitFrame, ExecFrame
<1>14. ThreadsInv'
  <2>1. \A y \in Entries : on'[y] \in Threads => IsThread(on'[y])
    BY <1>1, <1>6, <1>8 DEF ThreadsInv
  <2>2. \A y \in Entries : on'[y] \in Threads => IsThread(on[y])'
    BY <1>2, <2>1 DEF IsThread
  <2> QED
    BY <1>1, <1>2, <2>2 DEF ThreadsInv, OlderNotBelow, rtapi_prio_next_lower
<1>15. TypeOK'
  <2>1. next' \in [Nodes -> Nodes] /\ prev' \in [Nodes -> Nodes]
    BY <1>7 DEF SoundLinks
  <2>2. on' \in [Nodes -> Threads \cup {Free, None}]
    BY <1>1, <1>2 DEF TypeOK
  <2>3. list_entry' \in Nodes /\ gone' \in Entries
    BY <1>2, <1>4, <1>5
  <2> QED
    BY <1>1, <1>2, <2>1, <2>2, <2>3 DEF TypeOK
<1>16. ASSUME NEW W \in SUBSET Nodes, Passed(W)
       PROVE  Passed(W)'
  <2>1. /\ ct \in W /\ prev[e] \in W
        /\ \A y \in W : on[y] = ct /\ (y # ct => prev[y] \in W /\ ~Matches(y))
    BY <1>4, <1>16 DEF Passed
  <2>2. \A y \in W : y # e
    BY <1>2, <1>4, <2>1
  <2>3. \A y \in W : on'[y] = ct
    BY <1>8, <2>1, <2>2
  <2>4. \A y \in W : y # ct => prev'[y] \in W
    <3> SUFFICES ASSUME NEW y \in W, y # ct
                 PROVE  prev'[y] \in W
      OBVIOUS
    <3>1. CASE y = x
      BY <1>9, <2>1, <3>1
    <3>2. CASE y # x
      BY <1>9, <2>1, <2>2, <3>2
    <3> QED
      BY <3>1, <3>2
  <2>5. ct' \in W /\ prev'[list_entry'] \in W
    BY <1>2, <1>4, <1>5, <1>9, <2>1
  <2>6. \A y \in W : y # ct => ~Matches(y)
    BY <2>1
  <2> QED
    BY <1>2, <2>3, <2>4, <2>5, <2>6 DEF Passed, Matches
<1>17. CallInv'
  <2>1. IsThread(ct)'
    BY <1>2, <1>3 DEF IsThread
  <2>2. list_entry' \in Nodes /\ on'[list_entry'] = ct'
    BY <1>2, <1>4, <1>5, <1>8
  <2>3. call # "none" /\ call # "addf"
    BY <1>2 DEF Removing
  <2>4. call = "free_funct" =>
           /\ \A u \in todo : IsThread(u)'
           /\ \A y \in Entries : funct_ptr[y] = cf /\ y # e => on'[y] \in todo \cup {ct}
    <3>1. call = "free_funct" => \A u \in todo : IsThread(u)
      BY <1>1 DEF CallInv
    <3>2. call = "free_funct" => \A u \in todo : IsThread(u)'
      BY <1>2, <3>1 DEF IsThread
    <3>3. call = "free_funct" =>
             \A y \in Entries : funct_ptr[y] = cf /\ y # gone => on[y] \in todo \cup {ct}
      BY <1>1 DEF CallInv
    <3> QED
      BY <1>2, <1>6, <1>8, <3>2, <3>3
  <2>5. call \in {"free_funct", "exit_thread"} => \E W \in SUBSET Nodes : Passed(W)'
    BY <1>1, <1>2, <1>16 DEF CallInv
  <2>6. call \in {"addf", "delf", "free_funct"} => cf \in functs
    BY <1>1 DEF CallInv
  <2> QED
    BY <1>2, <1>4, <2>1, <2>2, <2>3, <2>4, <2>5, <2>6 DEF CallInv
<1> QED
  BY <1>7, <1>11, <1>12, <1>13, <1>14, <1>15, <1>17 DEF ThreadInv

(* The entry goes to the free list, and its funct has a user less.         *)
LEMMA FreeEntryStep ==
    ASSUME ThreadInv, free_funct_entry_struct
    PROVE  ThreadInv'
<1>1. /\ TypeOK /\ SoundLinks(next, prev, on) /\ GoneInv /\ PtrInv /\ UsersInv
      /\ ThreadsInv /\ CallInv /\ ExitInv /\ ExecInv
  BY DEF ThreadInv
<1>2. /\ UNCHANGED <<threads_running, lock, threads, base_period, period, priority, tasks, functs,
                     todo, at, exec>>
      /\ gone # None /\ users' = [users EXCEPT ![funct_ptr[gone]] = @ - 1]
      /\ funct_ptr' = [funct_ptr EXCEPT ![gone] = None]
      /\ next' = [next EXCEPT ![gone] = next[Free], ![Free] = gone]
      /\ prev' = [prev EXCEPT ![gone] = Free, ![next[Free]] = gone]
      /\ on' = [on EXCEPT ![gone] = Free] /\ gone' = None
      /\ \/ call = "delf" /\ NoCall
         \/ call # "delf" /\ UNCHANGED <<call, cf, ct, position, n, list_entry>>
  BY DEF free_funct_entry_struct, dlist_add_after, threadVars, rtVars
<1>3. PICK e \in Entries : e = gone
  BY <1>1, <1>2 DEF TypeOK
<1>4. /\ Removing /\ ct # None /\ on[e] = None /\ next[e] = e /\ prev[e] = e
      /\ funct_ptr[e] # None
  BY <1>1, <1>2, <1>3 DEF GoneInv
<1>5. PICK g \in functs : g = funct_ptr[e]
  BY <1>1, <1>4 DEF PtrInv
<1>6. /\ e \in Nodes /\ None \notin Threads \cup Entries /\ Entries \subseteq Nodes
      /\ Free \in Nodes /\ Free \in Roots /\ Free \notin Threads /\ Free # None
  BY Apart
<1>7. ct \in Threads /\ IsThread(ct) /\ list_entry \in Nodes /\ on[list_entry] = ct /\ ct \in Roots
  BY <1>1, <1>4, Apart DEF CallInv, TypeOK
<1>8. on[Free] = Free /\ next[Free] \in Nodes /\ on[next[Free]] = Free
  BY <1>1, <1>6 DEF SoundLinks
<1>9. SoundLinks(next, prev, on)'
  <2>1. PICK a : a = next
    OBVIOUS
  <2>2. PICK b : b = prev
    OBVIOUS
  <2>3. PICK c : c = on
    OBVIOUS
  <2>4. SoundLinks(a, b, c) /\ a[e] = e /\ b[e] = e /\ c[e] = None /\ c[Free] = Free
    BY <1>1, <1>4, <1>8, <2>1, <2>2, <2>3
  <2>5. SoundLinks([a EXCEPT ![e] = a[Free], ![Free] = e], [b EXCEPT ![e] = Free, ![a[Free]] = e],
                   [c EXCEPT ![e] = Free])
    BY <1>6, <2>4, InsertSound
  <2> QED
    BY <1>2, <1>3, <2>1, <2>2, <2>3, <2>5
<1>10. /\ on'[e] = Free /\ \A y \in Nodes : y # e => on'[y] = on[y]
       /\ funct_ptr'[e] = None /\ \A y \in Entries : y # e => funct_ptr'[y] = funct_ptr[y]
  BY <1>1, <1>2, <1>3, <1>6 DEF TypeOK
<1>11. \A y \in Nodes : y # e /\ y # next[Free] => prev'[y] = prev[y]
  BY <1>1, <1>2, <1>3, <1>6, <1>8 DEF TypeOK
<1>12. PtrInv'
  BY <1>1, <1>2, <1>3, <1>6, <1>10 DEF PtrInv
<1>13. UsersInv' /\ users' \in [Functs -> Nat]
  <2>1. Pointing(g)' = Pointing(g) \ {e} /\ e \in Pointing(g)
    BY <1>4, <1>5, <1>10 DEF Pointing
  <2>2. \A f \in functs : f # g => Pointing(f)' = Pointing(f)
    BY <1>1, <1>5, <1>10, Apart DEF Pointing, TypeOK
  <2>3. PICK k \in Nat : k = Cardinality(Pointing(g))
    BY PointingFinite
  <2>4. Cardinality(Pointing(g)') = k - 1 /\ k # 0
    <3>1. Cardinality(Pointing(g) \ {e}) =
             IF e \in Pointing(g) THEN Cardinality(Pointing(g)) - 1 ELSE Cardinality(Pointing(g))
      BY PointingFinite, FS_RemoveElement, Zenon
    <3>2. Cardinality(Pointing(g)) # 0
      BY <2>1, PointingFinite, FS_EmptySet
    <3> QED
      BY <2>1, <2>3, <3>1, <3>2
  <2>5. users[g] = k /\ (g \notin Reentrant => k <= 1)
    BY <1>1, <2>3 DEF UsersInv
  <2>6. /\ users'[g] = k - 1 /\ users' \in [Functs -> Nat]
        /\ \A f \in functs : f # g => users'[f] = users[f]
    <3>1. users' = [users EXCEPT ![g] = k - 1] /\ k - 1 \in Nat /\ g \in Functs
      BY <1>1, <1>2, <1>3, <1>5, <2>4, <2>5 DEF TypeOK
    <3> QED
      BY <1>1, <3>1 DEF TypeOK
  <2>7. ASSUME NEW f \in functs
        PROVE  (users[f] = Cardinality(Pointing(f)) /\ (f \notin Reentrant => users[f] <= 1))'
    <3>1. CASE f = g
      BY <2>4, <2>5, <2>6, <3>1
    <3>2. CASE f # g
      BY <1>1, <2>2, <2>6, <3>2 DEF UsersInv
    <3> QED
      BY <3>1, <3>2
  <2> QED
    BY <1>2, <2>6, <2>7 DEF UsersInv
<1>14. ThreadsInv'
  <2>1. \A y \in Entries : on'[y] \in Threads => IsThread(on'[y])
    BY <1>1, <1>6, <1>10 DEF ThreadsInv
  <2>2. \A y \in Entries : on'[y] \in Threads => IsThread(on[y])'
    BY <1>2, <2>1 DEF IsThread
  <2> QED
    BY <1>1, <1>2, <2>2 DEF ThreadsInv, OlderNotBelow, rtapi_prio_next_lower
<1>15. TypeOK'
  <2>1. next' \in [Nodes -> Nodes] /\ prev' \in [Nodes -> Nodes]
    BY <1>9 DEF SoundLinks
  <2>2. /\ on' \in [Nodes -> Threads \cup {Free, None}]
        /\ funct_ptr' \in [Entries -> Functs \cup {None}]
    BY <1>1, <1>2 DEF TypeOK
  <2>3. /\ call' \in {"none", "addf", "delf", "free_funct", "exit_thread"}
        /\ cf' \in Functs \cup {None} /\ ct' \in Threads \cup {None}
        /\ position' \in Int /\ n' \in Int /\ list_entry' \in Nodes \cup {None}
    BY <1>1, <1>2 DEF TypeOK, NoCall
  <2> QED
    BY <1>1, <1>2, <1>13, <2>1, <2>2, <2>3 DEF TypeOK
<1>17. GoneInv' /\ ExecInv'
  BY <1>1, <1>2, ExecFrame DEF GoneInv
<1>18. CallInv' /\ ExitInv'
  <2>1. CASE NoCall
    BY <2>1, CallDone
  <2>2. CASE UNCHANGED <<call, cf, ct, position, n, list_entry>>
    <3>1. ExitInv'
      BY <1>1, <1>2, <2>2, ExitFrame
    <3>2. list_entry # e /\ list_entry # next[Free]
      BY <1>4, <1>6, <1>7, <1>8
    <3>3. ASSUME NEW W \in SUBSET Nodes, Passed(W)
          PROVE  Passed(W)'
      <4>1. /\ ct \in W /\ prev[list_entry] \in W
            /\ \A y \in W : on[y] = ct /\ (y # ct => prev[y] \in W /\ ~Matches(y))
        BY <3>3 DEF Passed
      <4>2. \A y \in W : y # e /\ y # next[Free]
        BY <1>4, <1>6, <1>7, <1>8, <4>1
      <4>3. \A y \in W : on'[y] = ct /\ (y # ct => prev'[y] \in W)
        BY <1>10, <1>11, <4>1, <4>2
      <4>4. ASSUME NEW y \in W, y # ct
            PROVE  ~Matches(y)'
        <5>1. y \in Entries /\ y # e
          BY <1>1, <1>7, <4>1, <4>2, <4>4, NotAlone
        <5>2. ~Matches(y) /\ funct_ptr'[y] = funct_ptr[y]
          BY <1>10, <4>1, <4>4, <5>1
        <5> QED
          BY <2>2, <5>2 DEF Matches
      <4>5. ct' \in W /\ prev'[list_entry'] \in W
        BY <1>7, <1>11, <2>2, <3>2, <4>1
      <4> QED
        BY <2>2, <4>3, <4>4, <4>5 DEF Passed
    <3>4. IsThread(ct)'
      BY <1>2, <1>7, <2>2 DEF IsThread
    <3>5. on'[list_entry] = ct
      BY <1>7, <1>10, <3>2
    <3>6. call # "none" /\ call # "addf"
      BY <1>4 DEF Removing
    <3>7. call = "free_funct" =>
             /\ \A u \in todo : IsThread(u)'
             /\ \A y \in Entries : funct_ptr'[y] = cf => on'[y] \in todo \cup {ct}
      <4>1. call = "free_funct" => \A u \in todo : IsThread(u)
        BY <1>1 DEF CallInv
      <4>2. call = "free_funct" => \A u \in todo : IsThread(u)'
        BY <1>2, <4>1 DEF IsThread
      <4>3. call = "free_funct" =>
               /\ cf \in functs
               /\ \A y \in Entries : funct_ptr[y] = cf /\ y # gone => on[y] \in todo \cup {ct}
        BY <1>1 DEF CallInv
      <4>4. None \notin functs
        BY <1>1, Apart DEF TypeOK
      <4> QED
        BY <1>3, <1>6, <1>10, <4>2, <4>3, <4>4
    <3>8. call \in {"free_funct", "exit_thread"} => \E W \in SUBSET Nodes : Passed(W)'
      BY <1>1, <1>4, <3>3 DEF CallInv
    <3>9. call \in {"addf", "delf", "free_funct"} => cf \in functs
      BY <1>1 DEF CallInv
    <3>10. CallInv'
      BY <1>2, <1>4, <1>7, <2>2, <3>4, <3>5, <3>6, <3>7, <3>8, <3>9 DEF CallInv
    <3> QED
      BY <3>1, <3>10
  <2> QED
    BY <1>2, <2>1, <2>2
<1> QED
  BY <1>9, <1>12, <1>13, <1>14, <1>15, <1>17, <1>18 DEF ThreadInv

(* A walk that is back at the root has passed the whole list.              *)
LEMMA WalkDone ==
    ASSUME SoundLinks(next, prev, on), ct \in Roots, list_entry = ct,
           NEW W \in SUBSET Nodes, Passed(W), NEW e \in Entries, on[e] = ct
    PROVE  ~Matches(e)
<1>1. ct \in W /\ \A x \in W : on[x] = ct => prev[x] \in W
  BY DEF Passed
<1>2. e \in Nodes /\ e # ct
  BY Apart
<1>3. e \in W
  BY <1>1, <1>2 DEF SoundLinks
<1> QED
  BY <1>2, <1>3 DEF Passed

(* A sequence without its i-th element.                                    *)
LEMMA WithoutElement ==
    ASSUME NEW S, NEW s \in Seq(S), NEW i \in 1 .. Len(s)
    PROVE  LET r == SubSeq(s, 1, i - 1) \o SubSeq(s, i + 1, Len(s))
           IN  /\ r \in Seq(S) /\ Len(r) = Len(s) - 1
               /\ \A j \in 1 .. Len(s) - 1 : r[j] = IF j < i THEN s[j] ELSE s[j + 1]
<1>1. Len(s) \in Nat /\ i \in Nat /\ 1 <= i /\ i <= Len(s) /\ \A j \in 1 .. Len(s) : s[j] \in S
  OBVIOUS
<1>2. PICK a : a = SubSeq(s, 1, i - 1)
  OBVIOUS
<1>3. PICK b : b = SubSeq(s, i + 1, Len(s))
  OBVIOUS
<1>4. a \in Seq(S) /\ Len(a) = i - 1 /\ \A j \in 1 .. i - 1 : a[j] = s[j]
  <2>1. \A j \in 1 .. i - 1 : s[j] \in S
    BY <1>1
  <2>2. /\ a \in Seq(S) /\ Len(a) = IF 1 <= i - 1 THEN (i - 1) - 1 + 1 ELSE 0
        /\ \A j \in 1 .. (i - 1) - 1 + 1 : a[j] = s[1 + j - 1]
    BY <1>1, <1>2, <2>1, SubSeqProperties
  <2> QED
    BY <1>1, <2>2
<1>5. b \in Seq(S) /\ Len(b) = Len(s) - i /\ \A j \in 1 .. Len(s) - i : b[j] = s[i + j]
  <2>1. \A j \in (i + 1) .. Len(s) : s[j] \in S
    BY <1>1
  <2>2. /\ b \in Seq(S) /\ Len(b) = IF i + 1 <= Len(s) THEN Len(s) - (i + 1) + 1 ELSE 0
        /\ \A j \in 1 .. Len(s) - (i + 1) + 1 : b[j] = s[(i + 1) + j - 1]
    BY <1>1, <1>3, <2>1, SubSeqProperties
  <2>3. Len(b) = Len(s) - i
    BY <1>1, <2>2
  <2>4. ASSUME NEW j \in 1 .. Len(s) - i
        PROVE  b[j] = s[i + j]
    <3>1. j \in 1 .. Len(s) - (i + 1) + 1 /\ (i + 1) + j - 1 = i + j
      BY <1>1
    <3> QED
      BY <2>2, <3>1
  <2> QED
    BY <2>2, <2>3, <2>4
<1>6. PICK r : r = a \o b
  OBVIOUS
<1>7. /\ r \in Seq(S) /\ Len(r) = Len(a) + Len(b)
      /\ \A j \in 1 .. Len(a) + Len(b) : r[j] = IF j <= Len(a) THEN a[j] ELSE b[j - Len(a)]
  BY <1>4, <1>5, <1>6, ConcatProperties, Zenon
<1>8. Len(r) = Len(s) - 1
  BY <1>1, <1>4, <1>5, <1>7
<1>9. ASSUME NEW j \in 1 .. Len(s) - 1
      PROVE  r[j] = IF j < i THEN s[j] ELSE s[j + 1]
  <2>1. j \in 1 .. Len(a) + Len(b)
    BY <1>1, <1>4, <1>5
  <2>2. CASE j < i
    <3>1. j <= Len(a) /\ j \in 1 .. i - 1
      BY <1>1, <1>4, <2>2
    <3> QED
      BY <1>4, <1>7, <2>1, <2>2, <3>1
  <2>3. CASE ~(j < i)
    <3>1. ~(j <= Len(a)) /\ j - Len(a) \in 1 .. Len(s) - i /\ i + (j - Len(a)) = j + 1
      BY <1>1, <1>4, <2>3
    <3>2. r[j] = b[j - Len(a)] /\ b[j - Len(a)] = s[i + (j - Len(a))]
      BY <1>5, <1>7, <2>1, <3>1
    <3> QED
      BY <2>3, <3>1, <3>2
  <2> QED
    BY <2>2, <2>3
<1> QED
  BY <1>2, <1>3, <1>6, <1>7, <1>8, <1>9

(* The threads that are left when one is freed are in order.               *)
LEMMA ThreadGone ==
    ASSUME TypeOK, ThreadsInv, UNCHANGED <<on, priority>>,
           NEW i \in 1 .. Len(threads), \A e \in Entries : on[e] # threads[i],
           threads' = SubSeq(threads, 1, i - 1) \o SubSeq(threads, i + 1, Len(threads))
    PROVE  ThreadsInv' /\ threads' \in Seq(Threads)
<1>1. PICK s \in Seq(Threads) : s = threads
  BY DEF TypeOK
<1>2. PICK r : r = SubSeq(s, 1, i - 1) \o SubSeq(s, i + 1, Len(s))
  OBVIOUS
<1>3. PICK m \in Nat : m = Len(s)
  BY <1>1
<1>4. i \in 1 .. m /\ threads' = r
  BY <1>1, <1>2, <1>3
<1>5. /\ r \in Seq(Threads) /\ Len(r) = m - 1
      /\ \A j \in 1 .. m - 1 : r[j] = IF j < i THEN s[j] ELSE s[j + 1]
  BY <1>2, <1>3, <1>4, WithoutElement
<1>6. \A j \in 1 .. m - 1 : \E k \in 1 .. m : r[j] = s[k] /\ k = (IF j < i THEN j ELSE j + 1)
  <2> SUFFICES ASSUME NEW j \in 1 .. m - 1
               PROVE  \E k \in 1 .. m : r[j] = s[k] /\ k = (IF j < i THEN j ELSE j + 1)
    OBVIOUS
  <2>1. CASE j < i
    <3>1. j \in 1 .. m /\ r[j] = s[j]
      BY <1>5, <2>1
    <3> QED
      BY <2>1, <3>1
  <2>2. CASE ~(j < i)
    <3>1. j + 1 \in 1 .. m /\ r[j] = s[j + 1]
      BY <1>5, <2>2
    <3> QED
      BY <2>2, <3>1
  <2> QED
    BY <2>1, <2>2
<1>7. /\ \A e \in Entries : on[e] \in Threads => \E k \in 1 .. m : s[k] = on[e]
      /\ \A k, l \in 1 .. m : s[k] = s[l] => k = l
      /\ \A k, l \in 1 .. m : k < l => priority[s[k]] >= priority[s[l]]
      /\ \A k \in 1 .. m : priority[s[k]] >= rtapi_prio_next_lower(priority[s[1]])
  BY <1>1, <1>3 DEF ThreadsInv, IsThread, OlderNotBelow
<1>8. \A k \in 1 .. m : s[k] \in Threads /\ priority[s[k]] \in Nat
  BY <1>1, <1>3 DEF TypeOK
<1>9. \A j, k \in 1 .. m - 1 : r[j] = r[k] => j = k
  <2> SUFFICES ASSUME NEW j \in 1 .. m - 1, NEW k \in 1 .. m - 1, r[j] = r[k]
               PROVE  j = k
    OBVIOUS
  <2>1. PICK a \in 1 .. m : r[j] = s[a] /\ a = (IF j < i THEN j ELSE j + 1)
    BY <1>6
  <2>2. PICK b \in 1 .. m : r[k] = s[b] /\ b = (IF k < i THEN k ELSE k + 1)
    BY <1>6
  <2>3. a = b
    BY <1>7, <2>1, <2>2
  <2> QED
    BY <1>4, <2>1, <2>2, <2>3
<1>10. \A j, k \in 1 .. m - 1 : j < k => priority[r[j]] >= priority[r[k]]
  <2> SUFFICES ASSUME NEW j \in 1 .. m - 1, NEW k \in 1 .. m - 1, j < k
               PROVE  priority[r[j]] >= priority[r[k]]
    OBVIOUS
  <2>1. PICK a \in 1 .. m : r[j] = s[a] /\ a = (IF j < i THEN j ELSE j + 1)
    BY <1>6
  <2>2. PICK b \in 1 .. m : r[k] = s[b] /\ b = (IF k < i THEN k ELSE k + 1)
    BY <1>6
  <2>3. a < b
    BY <1>4, <2>1, <2>2
  <2> QED
    BY <1>7, <2>1, <2>2, <2>3
<1>11. ASSUME NEW j \in 1 .. m - 1
       PROVE  priority[r[j]] >= rtapi_prio_next_lower(priority[r[1]])
  <2>1. PICK a \in 1 .. m : r[j] = s[a] /\ a = (IF j < i THEN j ELSE j + 1)
    BY <1>6
  <2>2. 1 \in 1 .. m - 1 /\ 1 \in 1 .. m
    BY <1>3
  <2>3. PICK b \in 1 .. m : r[1] = s[b] /\ b = (IF 1 < i THEN 1 ELSE 1 + 1)
    BY <1>6, <2>2
  <2>4. priority[s[b]] <= priority[s[1]]
    <3>1. b = 1 \/ 1 < b
      BY <2>3
    <3> QED
      BY <1>7, <1>8, <2>2, <3>1
  <2>5. /\ rtapi_prio_next_lower(priority[s[b]]) <= rtapi_prio_next_lower(priority[s[1]])
        /\ rtapi_prio_next_lower(priority[s[b]]) \in Nat
        /\ rtapi_prio_next_lower(priority[s[1]]) \in Nat
    BY <1>8, <2>2, <2>4, NextLower
  <2>6. priority[s[a]] >= rtapi_prio_next_lower(priority[s[1]]) /\ priority[s[a]] \in Nat
    BY <1>7, <1>8
  <2>7. \A x, y, z \in Nat : x >= y /\ z <= y => x >= z
    OBVIOUS
  <2>8. priority[s[a]] >= rtapi_prio_next_lower(priority[s[b]])
    BY <2>5, <2>6, <2>7
  <2> QED
    BY <2>1, <2>3, <2>8
<1>12. ASSUME NEW e \in Entries, on[e] \in Threads
       PROVE  \E j \in 1 .. m - 1 : r[j] = on[e]
  <2>1. PICK k \in 1 .. m : s[k] = on[e]
    BY <1>7, <1>12
  <2>2. k # i
    BY <1>1, <2>1
  <2>3. CASE k < i
    <3>1. k \in 1 .. m - 1
      BY <1>4, <2>3
    <3> QED
      BY <1>5, <2>1, <2>3, <3>1
  <2>4. CASE k > i
    <3>1. k - 1 \in 1 .. m - 1 /\ ~(k - 1 < i) /\ (k - 1) + 1 = k
      BY <1>4, <2>4
    <3>2. r[k - 1] = s[k]
      BY <1>5, <3>1
    <3> QED
      BY <2>1, <3>1, <3>2
  <2>5. k < i \/ k > i
    BY <1>4, <2>2
  <2> QED
    BY <2>3, <2>4, <2>5
<1>13. Len(threads') = m - 1
  BY <1>4, <1>5
<1>14. \A e \in Entries : on'[e] \in Threads => IsThread(on[e])'
  BY <1>4, <1>12, <1>13 DEF IsThread
<1>15. OlderNotBelow'
  BY <1>4, <1>10, <1>13 DEF OlderNotBelow
<1>16. \A j \in 1 .. Len(threads') :
          priority'[threads'[j]] >= rtapi_prio_next_lower(priority[threads[1]])'
  BY <1>4, <1>11, <1>13 DEF rtapi_prio_next_lower
<1> QED
  BY <1>4, <1>5, <1>9, <1>13, <1>14, <1>15, <1>16 DEF ThreadsInv

(* The end of a list: nothing on it matches.                               *)
LEMMA WalkEndStep ==
    ASSUME ThreadInv, WalkEnd
    PROVE  ThreadInv'
<1>1. /\ TypeOK /\ SoundLinks(next, prev, on) /\ GoneInv /\ PtrInv /\ UsersInv
      /\ ThreadsInv /\ CallInv /\ ExitInv /\ ExecInv
  BY DEF ThreadInv
<1>2. /\ UNCHANGED <<threads_running, lock, base_period, period, priority, tasks, functs, users,
                     next, prev, on, funct_ptr, todo, gone, at, exec>>
      /\ Removing /\ ct # None /\ gone = None /\ list_entry = ct
  BY DEF WalkEnd, Walking, functVars, listVars, rtVars
<1>3. ct \in Threads /\ ct \in Roots /\ None \notin Threads \cup Entries
  BY <1>1, <1>2, Apart DEF TypeOK
<1>4. SoundLinks(next, prev, on)' /\ PtrInv' /\ UsersInv' /\ ExecInv' /\ GoneInv'
  BY <1>1, <1>2, PtrFrame, UsersFrame, ExecFrame DEF GoneInv
<1>5. CASE call = "delf" /\ NoCall /\ UNCHANGED threads
  <2>1. TypeOK'
    BY <1>1, <1>2, <1>5 DEF TypeOK, NoCall
  <2>2. ThreadsInv' /\ CallInv' /\ ExitInv'
    BY <1>1, <1>2, <1>5, ThreadsFrame, CallDone
  <2> QED
    BY <1>4, <2>1, <2>2 DEF ThreadInv
<1>6. CASE /\ call = "exit_thread" /\ NoCall
           /\ \E i \in 1 .. Len(threads) :
                 /\ threads[i] = ct
                 /\ threads' = SubSeq(threads, 1, i - 1) \o SubSeq(threads, i + 1, Len(threads))
  <2>1. PICK i \in 1 .. Len(threads) :
           /\ threads[i] = ct
           /\ threads' = SubSeq(threads, 1, i - 1) \o SubSeq(threads, i + 1, Len(threads))
    BY <1>6
  <2>2. PICK W \in SUBSET Nodes : Passed(W)
    BY <1>1, <1>2, <1>6 DEF CallInv
  <2>3. \A e \in Entries : on[e] = ct => ~Matches(e)
    BY <1>1, <1>2, <1>3, <2>2, WalkDone
  <2>4. \A e \in Entries : on[e] # threads[i]
    BY <1>6, <2>1, <2>3 DEF Matches
  <2>5. ThreadsInv' /\ threads' \in Seq(Threads)
    BY <1>1, <1>2, <2>1, <2>4, ThreadGone
  <2>6. TypeOK'
    <3>1. NoCall /\ threads' \in Seq(Threads)
      BY <1>6, <2>5
    <3>2. TypeOK
      BY <1>1
    <3> QED
      BY <1>2, <3>1, <3>2 DEF TypeOK, NoCall
  <2>7. CallInv' /\ ExitInv' /\ call' = "none"
    BY <1>6, CallDone DEF NoCall
  <2> QED
    BY <1>4, <2>5, <2>6, <2>7 DEF ThreadInv
<1>7. CASE /\ call = "free_funct" /\ ct' = None /\ list_entry' = None
           /\ UNCHANGED <<threads, call, cf, position, n>>
  <2>1. TypeOK'
    BY <1>1, <1>2, <1>7 DEF TypeOK
  <2>2. ThreadsInv' /\ ExitInv'
    BY <1>1, <1>2, <1>7, ThreadsFrame DEF ExitInv
  <2>3. PICK W \in SUBSET Nodes : Passed(W)
    BY <1>1, <1>2, <1>7 DEF CallInv
  <2>4. \A e \in Entries : on[e] = ct => ~Matches(e)
    BY <1>1, <1>2, <1>3, <2>3, WalkDone
  <2>5. \A e \in Entries : funct_ptr[e] = cf => on[e] # ct
    BY <2>4 DEF Matches
  <2>6. /\ cf \in functs /\ \A u \in todo : IsThread(u)
        /\ \A e \in Entries : funct_ptr[e] = cf => on[e] \in todo \cup {ct}
    BY <1>1, <1>2, <1>3, <1>7 DEF CallInv
  <2>7. \A u \in todo : IsThread(u)'
    BY <1>7, <2>6 DEF IsThread
  <2>8. CallInv'
    BY <1>2, <1>7, <2>5, <2>6, <2>7 DEF CallInv
  <2> QED
    BY <1>4, <2>1, <2>2, <2>8 DEF ThreadInv
<1> QED
  BY <1>5, <1>6, <1>7 DEF WalkEnd

(* When a funct is freed no entry points to it.                            *)
LEMMA FunctFreedStep ==
    ASSUME ThreadInv, FunctFreed
    PROVE  ThreadInv'
<1>1. /\ TypeOK /\ SoundLinks(next, prev, on) /\ GoneInv /\ PtrInv /\ UsersInv
      /\ ThreadsInv /\ CallInv /\ ExitInv /\ ExecInv
  BY DEF ThreadInv
<1>2. /\ UNCHANGED <<threads_running, lock, threads, base_period, period, priority, tasks, users,
                     next, prev, on, funct_ptr, todo, gone, at, exec>>
      /\ call = "free_funct" /\ ct = None /\ todo = {} /\ functs' = functs \ {cf} /\ NoCall
  BY DEF FunctFreed, threadVars, listVars, rtVars
<1>3. gone = None /\ None \notin Threads \cup Entries
  BY <1>1, <1>2, Apart DEF GoneInv
<1>4. cf \in functs /\ cf # None
  BY <1>1, <1>2, Apart DEF CallInv, TypeOK
<1>5. \A e \in Entries : funct_ptr[e] # cf
  <2>1. \A e \in Entries : funct_ptr[e] = cf => on[e] = None
    BY <1>1, <1>2, <1>3 DEF CallInv
  <2> QED
    BY <1>1, <1>3, <1>4, <2>1 DEF PtrInv
<1>6. SoundLinks(next, prev, on)' /\ ThreadsInv' /\ ExecInv' /\ GoneInv' /\ CallInv' /\ ExitInv'
  BY <1>1, <1>2, <1>3, ThreadsFrame, ExecFrame, CallDone DEF GoneInv
<1>7. PtrInv'
  BY <1>1, <1>2, <1>5 DEF PtrInv
<1>8. UsersInv'
  BY <1>1, <1>2 DEF UsersInv, Pointing
<1>9. TypeOK'
  BY <1>1, <1>2 DEF TypeOK, NoCall
<1> QED
  BY <1>6, <1>7, <1>8, <1>9 DEF ThreadInv
-----------------------------------------------------------------------------
(* The theorems.                                                           *)

(* The invariant holds when HAL starts: no threads, no functs, all entries *)
(* unused.                                                                 *)
LEMMA ThreadInit ==
    ASSUME Init
    PROVE  ThreadInv
<1>1. /\ threads_running = FALSE /\ lock = FALSE /\ threads = <<>> /\ base_period = 0 /\ tasks = {}
      /\ period = [t \in Threads |-> 0] /\ priority = [t \in Threads |-> 0]
      /\ functs = {} /\ users = [f \in Functs |-> 0]
      /\ next = [x \in Nodes |-> x] /\ prev = [x \in Nodes |-> x]
      /\ funct_ptr = [e \in Entries |-> None]
      /\ on = [x \in Nodes |-> IF x \in Entries THEN None ELSE x]
      /\ call = "none" /\ cf = None /\ ct = None /\ position = 0 /\ n = 0 /\ list_entry = None
      /\ todo = {} /\ gone = None
      /\ at = [t \in Threads |-> None] /\ exec = [t \in Threads |-> None]
  BY DEF Init
<1>2. /\ on \in [Nodes -> Roots \cup {None}] /\ on \in [Nodes -> Threads \cup {Free, None}]
      /\ (\A x \in Roots : x \in Nodes /\ on[x] = x) /\ (\A e \in Entries : on[e] = None)
      /\ Entries \subseteq Nodes /\ None \notin Nodes
  BY <1>1, Apart DEF Roots
<1>3. TypeOK
  <2>1. threads \in Seq(Threads) /\ base_period \in Nat /\ position \in Int /\ n \in Int
    BY <1>1
  <2>2. /\ period \in [Threads -> Nat] /\ priority \in [Threads -> Nat]
        /\ users \in [Functs -> Nat] /\ funct_ptr \in [Entries -> Functs \cup {None}]
        /\ next \in [Nodes -> Nodes] /\ prev \in [Nodes -> Nodes]
        /\ at \in [Threads -> Nodes \cup {None}] /\ exec \in [Threads -> Functs \cup {None}]
    BY <1>1
  <2>3. /\ call \in {"none", "addf", "delf", "free_funct", "exit_thread"}
        /\ threads_running \in BOOLEAN /\ lock \in BOOLEAN
    BY <1>1
  <2> QED
    BY <1>1, <1>2, <2>1, <2>2, <2>3 DEF TypeOK
<1>4. SoundLinks(next, prev, on)
  <2>1. \A x \in Nodes : next[x] = x /\ prev[x] = x
    BY <1>1
  <2>2. next \in [Nodes -> Nodes] /\ prev \in [Nodes -> Nodes]
    BY <1>1
  <2>3. \A t \in Roots, x \in Nodes : on[x] = t => x = t
    BY <1>2, Apart
  <2> QED
    BY <1>2, <2>1, <2>2, <2>3 DEF SoundLinks
<1>5. PtrInv /\ GoneInv /\ UsersInv
  BY <1>1, <1>2, Apart DEF PtrInv, GoneInv, UsersInv
<1>6. ThreadsInv
  <2>1. Len(threads) = 0
    BY <1>1
  <2>2. 1 .. Len(threads) = {}
    BY <2>1
  <2> QED
    BY <1>2, <2>2, Apart DEF ThreadsInv, OlderNotBelow
<1>7. CallInv /\ ExitInv /\ ExecInv
  <2>1. \A t \in Threads : at[t] = None /\ exec[t] = None
    BY <1>1
  <2>2. CallInv /\ ExitInv
    BY <1>1 DEF CallInv, ExitInv
  <2> QED
    BY <1>1, <2>1, <2>2 DEF ExecInv
<1> QED
  BY <1>3, <1>4, <1>5, <1>6, <1>7 DEF ThreadInv

(* Every step keeps the invariant.                                         *)
LEMMA ThreadStep ==
    ASSUME ThreadInv, [Next]_vars
    PROVE  ThreadInv'
<1>1. CASE Configure
  <2>1. CASE \E t \in Threads, p \in Periods : hal_create_xthread(t, p)
    BY <2>1, CreateStep
  <2>2. CASE \E f \in Functs : hal_export_funct(f)
    BY <2>2, ExportStep
  <2>3. CASE \E f \in Functs, t \in Threads, pos \in -MaxPosition .. MaxPosition :
                AddFunct(f, t, pos)
    <3>1. PICK f \in Functs, t \in Threads, pos \in -MaxPosition .. MaxPosition :
             AddFunct(f, t, pos)
      BY <2>3
    <3>2. pos \in Int
      BY ThreadAssumption
    <3> QED
      BY <3>1, <3>2, AddFunctStep
  <2>4. CASE AddSeek \/ AddInsert \/ AddFails
    BY <2>4, AddSeekStep, AddInsertStep, AddFailsStep
  <2>5. CASE hal_start_threads \/ hal_stop_threads \/ hal_set_lock
    BY <2>5, SwitchStep
  <2> QED
    BY <1>1, <2>1, <2>2, <2>3, <2>4, <2>5 DEF Configure
<1>2. CASE Dismantle
  <2>1. CASE \E f \in Functs, t \in Threads : DelFunct(f, t)
    BY <2>1, DelFunctStep
  <2>2. CASE \E f \in Functs : free_funct_struct(f)
    BY <2>2, FreeFunctStep
  <2>3. CASE \E t \in Threads : NextThread(t) \/ halg_exit_thread(t)
    BY <2>3, NextThreadStep, ExitThreadStep
  <2>4. CASE WalkOn \/ dlist_remove_entry \/ free_funct_entry_struct \/ WalkEnd \/ FunctFreed
    BY <2>4, WalkOnStep, RemoveStep, FreeEntryStep, WalkEndStep, FunctFreedStep
  <2> QED
    BY <1>2, <2>1, <2>2, <2>3, <2>4 DEF Dismantle
<1>3. CASE \E t \in Threads : thread_task(t)
  BY <1>3, TaskStep
<1>4. CASE UNCHANGED vars
  <2>1. /\ TypeOK /\ SoundLinks(next, prev, on) /\ GoneInv /\ PtrInv /\ UsersInv
        /\ ThreadsInv /\ CallInv /\ ExitInv /\ ExecInv
    BY DEF ThreadInv
  <2>2. UNCHANGED <<threads_running, lock, threads, base_period, period, priority, tasks, functs,
                    users, next, prev, on, funct_ptr, call, cf, ct, position, n, list_entry, todo,
                    gone, at, exec>>
    BY <1>4 DEF vars, threadVars, functVars, listVars, callVars, rtVars
  <2>3. TypeOK'
    BY <2>1, <2>2 DEF TypeOK
  <2> QED
    BY <2>1, <2>2, <2>3, GoneFrame, PtrFrame, UsersFrame, ThreadsFrame, CallFrame, ExitFrame,
       ExecFrame DEF ThreadInv
<1> QED
  BY <1>1, <1>2, <1>3, <1>4 DEF Next

(* The invariant holds in every state.                                     *)
LEMMA ThreadInvariant == Spec => []ThreadInv
<1>1. Init => ThreadInv
  BY ThreadInit
<1>2. ThreadInv /\ [Next]_vars => ThreadInv'
  BY ThreadStep
<1> QED
  BY <1>1, <1>2, PTL DEF Spec

(* Every variable keeps its type.                                          *)
THEOREM ThreadTypeOK == Spec => []TypeOK
<1>1. ThreadInv => TypeOK
  BY DEF ThreadInv
<1> QED
  BY <1>1, ThreadInvariant, PTL

(* hal_add_funct_to_thread() and free_funct_entry_struct() count right:    *)
(* the users of a valid funct are the entries that point to it.            *)
THEOREM ThreadUsersRight == Spec => []UsersRight
<1>1. ThreadInv => UsersRight
  BY DEF ThreadInv, UsersInv, UsersRight, Pointing
<1> QED
  BY <1>1, ThreadInvariant, PTL

(* The lists of hal_list.h are sound after every store of every change,    *)
(* whoever changes them when: next and prev are each other's inverses, and *)
(* the entries on the lists of threads are the ones with a valid funct.    *)
THEOREM ThreadListsSound == Spec => []ListsSound
<1>1. ThreadInv => ListsSound
  <2> SUFFICES ASSUME ThreadInv
               PROVE  ListsSound
    OBVIOUS
  <2>1. SoundLinks(next, prev, on) /\ PtrInv
    BY DEF ThreadInv
  <2> QED
    BY <2>1 DEF SoundLinks, PtrInv, ListsSound
<1> QED
  BY <1>1, ThreadInvariant, PTL

(* hal_create_xthread() derives each priority from the first thread: no    *)
(* thread is above one that was created before it.                         *)
THEOREM ThreadOlderNotBelow == Spec => []OlderNotBelow
<1>1. ThreadInv => OlderNotBelow
  BY DEF ThreadInv, ThreadsInv
<1> QED
  BY <1>1, ThreadInvariant, PTL

(* The check of hal_add_funct_to_thread() is enough for two threads that   *)
(* are each on their own list: they are never at once in a funct that was  *)
(* not exported as reentrant.                                              *)
THEOREM ThreadNoReentry == Spec => []NoReentry
<1>1. ThreadInv => NoReentry
  <2> SUFFICES ASSUME ThreadInv, NEW t \in Threads, NEW u \in Threads, t # u,
                      OnList(t), OnList(u), exec[t] # None, exec[t] = exec[u],
                      exec[t] \notin Reentrant
               PROVE  FALSE
    BY DEF NoReentry
  <2>1. UsersInv
    BY DEF ThreadInv
  <2>2. at[t] \in Entries /\ at[u] \in Entries
    BY DEF OnList
  <2>3. /\ on[at[t]] = t /\ on[at[u]] = u
        /\ exec[t] = funct_ptr[at[t]] /\ exec[t] = funct_ptr[at[u]]
    BY DEF OnList
  <2>4. PICK f \in functs : f = exec[t]
    BY DEF OnList
  <2>5. at[t] \in Pointing(f) /\ at[u] \in Pointing(f) /\ at[t] # at[u]
    BY <2>2, <2>3, <2>4 DEF Pointing
  <2>6. Cardinality(Pointing(f)) <= 1 /\ Cardinality(Pointing(f)) \in Nat
        /\ IsFiniteSet(Pointing(f))
    BY <2>1, <2>4, PointingFinite DEF UsersInv
  <2>7. Cardinality(Pointing(f)) = 1 \/ Cardinality(Pointing(f)) = 0
    BY <2>6
  <2>8. CASE Cardinality(Pointing(f)) = 0
    BY <2>5, <2>6, <2>8, FS_EmptySet
  <2>9. CASE Cardinality(Pointing(f)) = 1
    <3>1. PICK x : Pointing(f) = {x}
      BY <2>6, <2>9, FS_Singleton
    <3> QED
      BY <2>5, <3>1
  <2> QED
    BY <2>7, <2>8, <2>9
<1> QED
  BY <1>1, ThreadInvariant, PTL
(* A thread whose place and entry keep their values stays on its list.     *)
LEMMA Stays ==
    ASSUME PtrInv', NEW t \in Threads, OnList(t), at'[t] = at[t], exec'[t] = exec[t],
           on'[at[t]] = t, funct_ptr'[at[t]] = funct_ptr[at[t]]
    PROVE  OnList(t)'
BY DEF OnList, PtrInv

(* A step of the thread itself leads to the next entry of its list.        *)
LEMMA OwnStep ==
    ASSUME ThreadInv, PtrInv', NEW t \in Threads, at[t] = None \/ OnList(t), thread_task(t)
    PROVE  at'[t] = None \/ OnList(t)'
<1>1. TypeOK /\ SoundLinks(next, prev, on) /\ PtrInv /\ ExecInv
  BY DEF ThreadInv
<1>2. UNCHANGED <<on, funct_ptr, next, functs>>
  BY DEF thread_task, CycleStart, CallFunct, FunctReturns, functVars, listVars
<1>3. /\ \A x \in Nodes : next[x] \in Nodes /\ on[next[x]] = on[x]
      /\ \A x \in Roots : on[x] = x
      /\ t \in Nodes /\ t \in Roots /\ None \notin Nodes /\ Entries \subseteq Nodes
      /\ Nodes = Roots \cup Entries
  BY <1>1, Apart DEF SoundLinks
<1>4. CASE CycleStart(t)
  <2>1. /\ at[t] = None /\ exec' = exec
        /\ at' = [at EXCEPT ![t] = IF next[t] = t THEN None ELSE next[t]]
    BY <1>4 DEF CycleStart, Follow
  <2>2. at'[t] = IF next[t] = t THEN None ELSE next[t]
    BY <1>1, <2>1 DEF TypeOK
  <2>3. exec'[t] = None
    BY <1>1, <1>3, <2>1 DEF ExecInv
  <2> QED
    BY <1>2, <1>3, <2>2, <2>3 DEF OnList
<1>5. CASE CallFunct(t)
  <2>1. /\ at[t] \in Entries /\ funct_ptr[at[t]] # None /\ at' = at
        /\ exec' = [exec EXCEPT ![t] = funct_ptr[at[t]]]
    BY <1>5 DEF CallFunct
  <2>2. exec'[t] = funct_ptr[at[t]] /\ funct_ptr[at[t]] \in functs /\ OnList(t)
    BY <1>1, <1>3, <2>1 DEF TypeOK, PtrInv
  <2> QED
    BY <1>2, <2>1, <2>2 DEF OnList
<1>6. CASE FunctReturns(t)
  <2>1. /\ exec[t] # None /\ exec' = [exec EXCEPT ![t] = None]
        /\ at' = [at EXCEPT ![t] = IF next[at[t]] = t THEN None ELSE next[at[t]]]
    BY <1>6 DEF FunctReturns, Follow
  <2>2. at[t] \in Entries /\ on[at[t]] = t
    BY <1>1, <1>3, <2>1 DEF ExecInv, OnList
  <2>3. at'[t] = (IF next[at[t]] = t THEN None ELSE next[at[t]]) /\ exec'[t] = None
    BY <1>1, <2>1 DEF TypeOK
  <2> QED
    BY <1>2, <1>3, <2>2, <2>3 DEF OnList
<1> QED
  BY <1>4, <1>5, <1>6 DEF thread_task

(* Only the removal of the entry a thread is at takes it off its list.     *)
LEMMA WalkStep ==
    ASSUME ThreadInv, ThreadInv', [Next]_vars, NEW t \in Threads, at[t] = None \/ OnList(t)
    PROVE  \/ at'[t] = None \/ OnList(t)'
           \/ call \in {"delf", "free_funct"} /\ gone = None /\ gone' = at[t]
<1>1. /\ TypeOK /\ SoundLinks(next, prev, on) /\ GoneInv /\ CallInv /\ ExitInv /\ PtrInv'
  BY DEF ThreadInv
<1>2. /\ None \notin Nodes /\ Nodes = Roots \cup Entries /\ Free \notin Threads
      /\ Free \in Nodes /\ Entries \subseteq Nodes /\ t # None
  BY Apart
<1>3. at[t] # None => at[t] \in Entries /\ on[at[t]] = t /\ OnList(t)
  BY DEF OnList
<1>4. CASE UNCHANGED <<at, exec, on, funct_ptr>>
  BY <1>1, <1>3, <1>4, Stays
<1>5. CASE AddInsert
  <2>1. PICK e \in Entries : /\ Allocated(e) /\ funct_ptr' = [funct_ptr EXCEPT ![e] = cf]
                             /\ on' = [on EXCEPT ![e] = ct]
    BY <1>5 DEF AddInsert
  <2>2. UNCHANGED <<at, exec>>
    BY <1>5 DEF AddInsert, rtVars
  <2>3. on[next[Free]] = Free
    BY <1>1, Apart DEF SoundLinks
  <2>4. on[e] # t
    BY <1>2, <2>1, <2>3 DEF Allocated, Unused
  <2>5. CASE at[t] # None
    <3>1. on'[at[t]] = t /\ funct_ptr'[at[t]] = funct_ptr[at[t]]
      BY <1>1, <1>2, <1>3, <2>1, <2>4, <2>5 DEF TypeOK
    <3> QED
      BY <1>1, <1>3, <2>2, <2>5, <3>1, Stays
  <2> QED
    BY <2>2, <2>5
<1>6. CASE dlist_remove_entry
  <2>1. /\ UNCHANGED <<at, exec, funct_ptr>> /\ Removing /\ ct # None /\ gone = None
        /\ on' = [on EXCEPT ![list_entry] = None] /\ gone' = list_entry
    BY <1>6 DEF dlist_remove_entry, Walking, rtVars
  <2>2. ct \in Threads /\ list_entry \in Nodes /\ on[list_entry] = ct
    BY <1>1, <2>1 DEF CallInv, TypeOK
  <2>3. CASE at[t] # None /\ at[t] # list_entry
    <3>1. on'[at[t]] = t
      BY <1>1, <1>2, <1>3, <2>1, <2>3 DEF TypeOK
    <3> QED
      BY <1>1, <1>3, <2>1, <2>3, <3>1, Stays
  <2>4. CASE at[t] = list_entry
    <3>1. ct = t
      BY <1>2, <1>3, <2>2, <2>4
    <3>2. call # "exit_thread"
      BY <1>1, <1>2, <2>2, <2>4, <3>1 DEF ExitInv
    <3> QED
      BY <2>1, <2>4, <3>2 DEF Removing
  <2> QED
    BY <2>1, <2>3, <2>4
<1>7. CASE free_funct_entry_struct
  <2>1. /\ UNCHANGED <<at, exec>> /\ gone # None /\ on' = [on EXCEPT ![gone] = Free]
        /\ funct_ptr' = [funct_ptr EXCEPT ![gone] = None]
    BY <1>7 DEF free_funct_entry_struct, rtVars
  <2>2. CASE at[t] # None
    <3>1. at[t] # gone
      BY <1>1, <1>2, <1>3, <2>1, <2>2 DEF GoneInv
    <3>2. on'[at[t]] = t /\ funct_ptr'[at[t]] = funct_ptr[at[t]]
      BY <1>1, <1>2, <1>3, <2>1, <2>2, <3>1 DEF TypeOK
    <3> QED
      BY <1>1, <1>3, <2>1, <2>2, <3>2, Stays
  <2> QED
    BY <2>1, <2>2
<1>8. CASE \E u \in Threads : halg_exit_thread(u)
  <2>1. PICK u \in Threads : halg_exit_thread(u)
    BY <1>8
  <2>2. /\ UNCHANGED <<on, funct_ptr>>
        /\ at' = [at EXCEPT ![u] = None] /\ exec' = [exec EXCEPT ![u] = None]
    BY <2>1 DEF halg_exit_thread, listVars
  <2>3. CASE u = t
    BY <1>1, <2>2, <2>3 DEF TypeOK
  <2>4. CASE u # t
    <3>1. at'[t] = at[t] /\ exec'[t] = exec[t]
      BY <1>1, <2>2, <2>4 DEF TypeOK
    <3> QED
      BY <1>1, <1>3, <2>2, <3>1, Stays
  <2> QED
    BY <2>3, <2>4
<1>9. CASE \E u \in Threads : thread_task(u)
  <2>1. PICK u \in Threads : thread_task(u)
    BY <1>9
  <2>2. CASE u = t
    BY <1>1, <2>1, <2>2, OwnStep
  <2>3. CASE u # t
    <3>1. UNCHANGED <<on, funct_ptr>> /\ at'[t] = at[t] /\ exec'[t] = exec[t]
      BY <1>1, <2>1, <2>3
      DEF TypeOK, thread_task, CycleStart, CallFunct, FunctReturns, Follow, listVars
    <3> QED
      BY <1>1, <1>3, <3>1, Stays
  <2> QED
    BY <2>2, <2>3
<1>10. \/ UNCHANGED <<at, exec, on, funct_ptr>> \/ AddInsert \/ dlist_remove_entry
       \/ free_funct_entry_struct \/ \E u \in Threads : halg_exit_thread(u)
       \/ \E u \in Threads : thread_task(u)
  <2>1. CASE Configure
    BY <2>1 DEF Configure, hal_create_xthread, hal_export_funct, AddFunct, AddSeek, AddFails,
       hal_start_threads, hal_stop_threads, hal_set_lock, listVars, rtVars
  <2>2. CASE Dismantle
    BY <2>2 DEF Dismantle, DelFunct, free_funct_struct, NextThread, WalkOn, WalkEnd, FunctFreed,
       listVars, rtVars
  <2>3. CASE UNCHANGED vars
    BY <2>3 DEF vars, listVars, rtVars
  <2> QED
    BY <2>1, <2>2, <2>3 DEF Next
<1> QED
  BY <1>4, <1>5, <1>6, <1>7, <1>8, <1>9, <1>10

(* thread_task() follows its list without the mutex, and yet only the      *)
(* removal of the very entry it is at takes a thread off it, whatever is   *)
(* inserted, removed elsewhere, unloaded or deleted meanwhile.             *)
THEOREM ThreadWalkKept == Spec => WalkKept
<1>1. ThreadInv /\ ThreadInv' /\ [Next]_vars =>
         [\A t \in Threads : at[t] = None \/ OnList(t) =>
             \/ at'[t] = None \/ OnList(t)'
             \/ call \in {"delf", "free_funct"} /\ gone = None /\ gone' = at[t]]_vars
  BY WalkStep
<1> QED
  BY <1>1, ThreadInvariant, PTL DEF Spec, WalkKept
=============================================================================

------------------------------ MODULE HalThread ------------------------------
(***************************************************************************)
(* HAL threads and their functs (hal_thread.c, hal_funct.c).  Each thread  *)
(* is a realtime task that walks its list of funct entries without a lock; *)
(* the lists are changed under the HAL mutex.  The doubly linked lists     *)
(* (hal_list.h) are modelled link by link: a thread's list, and the list   *)
(* of free entries, are rings through a root node.  A realtime thread only *)
(* follows next, so the stores of one list operation are one step.         *)
(***************************************************************************)
EXTENDS Integers, Sequences, FiniteSets

CONSTANTS Threads, Functs,  \* the names
          Entries,          \* bound: the funct entries there is memory for
          Reentrant,        \* the functs exported as reentrant
          UsesFP,           \* threads and functs that use floating point
          Periods,          \* the periods threads are created with
          PrioHighest, PrioLowest,
          MaxPosition,      \* bound: positions passed to addf
          Callers,          \* when functs are removed: see MayRemove
          Free,             \* hal_data->funct_entry_free
          None

Nodes == Threads \cup Entries \cup {Free}

ASSUME ThreadAssumption ==
    /\ IsFiniteSet(Entries) /\ Periods \subseteq Nat \ {0} /\ MaxPosition \in Nat
    /\ PrioHighest \in Nat /\ PrioLowest \in Nat /\ PrioLowest < PrioHighest
    /\ Callers \in {"any", "stopped"}
    /\ Threads \cap Entries = {} /\ Free \notin Threads \cup Entries
    /\ None \notin Nodes \cup Functs

VARIABLES
    threads_running, lock,     \* hal_data->threads_running, hal_data->lock
    threads, base_period,      \* hal_data->threads, ->base_period (0: no clock)
    period, priority,          \* hal_thread_t
    tasks,                     \* the threads whose rtapi task exists
    functs, users,             \* hal_funct_t: the valid ones, their users
    next, prev, funct_ptr,     \* hal_funct_entry_t, and the roots of the lists
    on,                        \* history: the list an entry is on
    call, cf, ct, position, n, list_entry, todo, gone, \* the call that holds the HAL mutex
    at, exec                   \* a thread's funct_entry, the funct it is in

threadVars == <<threads, base_period, period, priority, tasks>>
functVars  == <<functs, users>>
listVars   == <<next, prev, on>>
callVars   == <<call, cf, ct, position, n, list_entry, todo, gone>>
rtVars     == <<at, exec>>
vars == <<threads_running, lock, threadVars, functVars, listVars, funct_ptr, callVars,
          rtVars>>

Idle == call = "none"
Removing == call \in {"delf", "free_funct", "exit_thread"}

IsThread(t) == \E i \in 1 .. Len(threads) : threads[i] = t

Init ==
    /\ threads_running = FALSE /\ lock = FALSE
    /\ threads = <<>> /\ base_period = 0 /\ tasks = {}
    /\ period = [t \in Threads |-> 0] /\ priority = period
    /\ functs = {} /\ users = [f \in Functs |-> 0]
    /\ next = [x \in Nodes |-> x] /\ prev = next
    /\ funct_ptr = [e \in Entries |-> None]
    /\ on = [x \in Nodes |-> IF x \in Entries THEN None ELSE x]
    /\ call = "none" /\ cf = None /\ ct = None /\ position = 0 /\ n = 0 /\ list_entry = None
    /\ todo = {} /\ gone = None
    /\ at = [t \in Threads |-> None] /\ exec = at
-----------------------------------------------------------------------------
(* Threads.                                                                *)

\* Mutant: out of range to the wrong end.
rtapi_prio_next_lower_Wrap(prio) == IF prio - 1 < PrioLowest THEN PrioHighest ELSE prio - 1

rtapi_prio_next_lower(prio) == IF prio - 1 < PrioLowest THEN PrioLowest ELSE prio - 1

\* hal_create_xthread(): the task starts before the thread joins the list, at its
\* end; period and priority are derived from the first thread of the list.
hal_create_xthread(t, p) ==
    /\ Idle /\ ~lock /\ ~IsThread(t)
    /\ LET first == threads = <<>>
           base  == IF base_period = 0 THEN p ELSE base_period
           per   == base * ((p + base \div 2) \div base)
       IN /\ first => base <= p + p \div 100
          /\ p >= base
          /\ ~first => per >= period[Head(threads)]
          /\ base_period' = base
          /\ period' = [period EXCEPT ![t] = per]
          /\ priority' = [priority EXCEPT ![t] =
                rtapi_prio_next_lower(IF first THEN PrioHighest
                                      ELSE priority[Head(threads)])]
    /\ next' = [next EXCEPT ![t] = t] /\ prev' = [prev EXCEPT ![t] = t]
    /\ tasks' = tasks \cup {t}
    /\ threads' = Append(threads, t)
    /\ UNCHANGED <<threads_running, lock, functVars, on, funct_ptr, callVars, rtVars>>

hal_start_threads ==
    /\ ~lock
    /\ threads_running' = TRUE
    /\ UNCHANGED <<lock, threadVars, functVars, listVars, funct_ptr, callVars, rtVars>>

hal_stop_threads ==
    /\ ~lock
    /\ threads_running' = FALSE
    /\ UNCHANGED <<lock, threadVars, functVars, listVars, funct_ptr, callVars, rtVars>>

hal_set_lock ==
    /\ lock' = ~lock
    /\ UNCHANGED <<threads_running, threadVars, functVars, listVars, funct_ptr, callVars,
                   rtVars>>
-----------------------------------------------------------------------------
(* Adding functs.                                                          *)

hal_export_funct(f) ==
    /\ Idle /\ ~lock /\ f \notin functs
    /\ functs' = functs \cup {f} /\ users' = [users EXCEPT ![f] = 0]
    /\ UNCHANGED <<threads_running, lock, threadVars, listVars, funct_ptr, callVars, rtVars>>

NoCall ==
    /\ call' = "none" /\ cf' = None /\ ct' = None /\ list_entry' = None
    /\ position' = 0 /\ n' = 0

\* Mutant: the reentrancy check dropped.
Available_Always(f) == TRUE

\* May f be added to a thread once more?
Available(f) == users[f] > 0 => f \in Reentrant

\* hal_add_funct_to_thread(): the checks ...
AddFunct(f, t, pos) ==
    /\ Idle /\ ~lock
    /\ pos # 0
    /\ f \in functs /\ Available(f)
    /\ IsThread(t) /\ (f \in UsesFP => t \in UsesFP)
    /\ call' = "addf" /\ cf' = f /\ ct' = t /\ list_entry' = t
    /\ position' = pos /\ n' = IF pos > 0 THEN 1 ELSE -1
    /\ UNCHANGED <<threads_running, lock, threadVars, functVars, listVars, funct_ptr, todo,
                   gone, rtVars>>

\* ... the search for the insertion point, from either end of the list.  A walk
\* that comes back to the root fails.
AddSeek ==
    /\ call = "addf" /\ n # position
    /\ LET le == IF position > 0 THEN next[list_entry] ELSE prev[list_entry] IN
          \/ le = ct /\ NoCall
          \/ /\ le # ct
             /\ list_entry' = le /\ n' = IF position > 0 THEN n + 1 ELSE n - 1
             /\ UNCHANGED <<call, cf, ct, position>>
    /\ UNCHANGED <<threads_running, lock, threadVars, functVars, listVars, funct_ptr, todo,
                   gone, rtVars>>

\* dlist_add_after(e, p) and dlist_remove_entry(e) on given links.
dlist_add_after(e, p, nx, pv) ==
    /\ next' = [nx EXCEPT ![e] = nx[p], ![p] = e]
    /\ prev' = [pv EXCEPT ![e] = p, ![nx[p]] = e]

RemovedNext(e) == [next EXCEPT ![prev[e]] = next[e], ![e] = e]
\* Mutant: the successor keeps its backward link.
RemovedPrev_OneWay(e) == [prev EXCEPT ![e] = e]

RemovedPrev(e) == [prev EXCEPT ![next[e]] = prev[e], ![e] = e]

\* alloc_funct_entry_struct(): the first free entry, or new memory.
Unused == {e \in Entries : on[e] = None}
Allocated(e) == IF next[Free] # Free THEN e = next[Free]
                ELSE e \in Unused


\* The entry a new one is put behind.
InsertAfter == IF position > 0 THEN list_entry ELSE prev[list_entry]

\* Mutant: the use is not counted.
AddInsert_NotCounted ==
    /\ call = "addf" /\ n = position
    /\ \E e \in Entries :
          /\ Allocated(e)
          /\ dlist_add_after(e, InsertAfter, RemovedNext(e), RemovedPrev(e))
          /\ funct_ptr' = [funct_ptr EXCEPT ![e] = cf]
          /\ on' = [on EXCEPT ![e] = ct]
    /\ NoCall
    /\ UNCHANGED <<threads_running, lock, threadVars, functVars, todo, gone, rtVars>>

\* ... and the new entry, filled in before the store that links it.
AddInsert ==
    /\ call = "addf" /\ n = position
    /\ \E e \in Entries :
          /\ Allocated(e)
          /\ dlist_add_after(e, InsertAfter, RemovedNext(e), RemovedPrev(e))
          /\ funct_ptr' = [funct_ptr EXCEPT ![e] = cf]
          /\ on' = [on EXCEPT ![e] = ct]
    /\ users' = [users EXCEPT ![cf] = @ + 1]
    /\ NoCall
    /\ UNCHANGED <<threads_running, lock, threadVars, functs, todo, gone, rtVars>>

\* No memory for an entry.
AddFails ==
    /\ call = "addf" /\ n = position /\ \A e \in Entries : ~Allocated(e)
    /\ NoCall
    /\ UNCHANGED <<threads_running, lock, threadVars, functVars, listVars, funct_ptr, todo,
                   gone, rtVars>>
-----------------------------------------------------------------------------
(* Removing functs.                                                        *)

\* Nothing in the code keeps a caller from removing functs at "any" time.  A
\* careful caller calls hal_stop_threads() first ("stopped"); it has no means to
\* wait until the threads have come to rest.
MayRemove == Callers = "stopped" => ~threads_running

\* hal_del_funct_from_thread(): the checks.
DelFunct(f, t) ==
    /\ Idle /\ ~lock /\ MayRemove
    /\ f \in functs /\ users[f] > 0 /\ IsThread(t)
    /\ call' = "delf" /\ cf' = f /\ ct' = t /\ list_entry' = next[t]
    /\ UNCHANGED <<threads_running, lock, threadVars, functVars, listVars, funct_ptr,
                   position, n, todo, gone, rtVars>>

\* A component or an instance exits: its functs are taken off all threads first.
free_funct_struct(f) ==
    /\ Idle /\ MayRemove /\ f \in functs
    /\ call' = "free_funct" /\ cf' = f
    /\ todo' = IF users[f] > 0 THEN {t \in Threads : IsThread(t)} ELSE {}
    /\ UNCHANGED <<threads_running, lock, threadVars, functVars, listVars, funct_ptr, ct,
                   position, n, list_entry, gone, rtVars>>

\* halg_foreach(..., thread_cb): on to the next thread.
NextThread(t) ==
    /\ call = "free_funct" /\ ct = None /\ t \in todo
    /\ ct' = t /\ list_entry' = next[t] /\ todo' = todo \ {t}
    /\ UNCHANGED <<threads_running, lock, threadVars, functVars, listVars, funct_ptr, call,
                   cf, position, n, gone, rtVars>>

\* Mutant: the task is not waited for.
halg_exit_thread_NoJoin(t) ==
    /\ Idle /\ ~lock /\ IsThread(t)
    /\ threads_running' = FALSE
    /\ call' = "exit_thread" /\ ct' = t /\ list_entry' = next[t]
    /\ UNCHANGED <<lock, threadVars, functVars, listVars, funct_ptr, cf, position, n, todo,
                   gone, rtVars>>

\* halg_exit_thread(): the threads are told to stop, the thread's task is
\* cancelled and joined, in its wait or in a funct that has a cancellation point,
\* and then free_thread_struct() clears its list.
halg_exit_thread(t) ==
    /\ Idle /\ ~lock /\ IsThread(t)
    /\ threads_running' = FALSE
    /\ tasks' = tasks \ {t}
    /\ at' = [at EXCEPT ![t] = None] /\ exec' = [exec EXCEPT ![t] = None]
    /\ call' = "exit_thread" /\ ct' = t /\ list_entry' = next[t]
    /\ UNCHANGED <<lock, threads, base_period, period, priority, functVars, listVars,
                   funct_ptr, cf, position, n, todo, gone>>

\* The walk down a thread's list for the entries to remove: all that point to
\* the funct (only the first for delf), or all of them.
Matches(e) == call = "exit_thread" \/ funct_ptr[e] = cf

Walking == Removing /\ ct # None /\ gone = None

WalkOn ==
    /\ Walking /\ list_entry # ct /\ ~Matches(list_entry)
    /\ list_entry' = next[list_entry]
    /\ UNCHANGED <<threads_running, lock, threadVars, functVars, listVars, funct_ptr, call,
                   cf, ct, position, n, todo, gone, rtVars>>

dlist_remove_entry ==
    /\ Walking /\ list_entry # ct /\ Matches(list_entry)
    /\ next' = RemovedNext(list_entry) /\ prev' = RemovedPrev(list_entry)
    /\ on' = [on EXCEPT ![list_entry] = None]
    /\ gone' = list_entry /\ list_entry' = next[list_entry]
    /\ UNCHANGED <<threads_running, lock, threadVars, functVars, funct_ptr, call, cf, ct,
                   position, n, todo, rtVars>>

\* Mutant: the funct keeps its user.
free_funct_entry_struct_Kept ==
    /\ gone # None
    /\ funct_ptr' = [funct_ptr EXCEPT ![gone] = None]
    /\ dlist_add_after(gone, Free, next, prev)
    /\ on' = [on EXCEPT ![gone] = Free]
    /\ gone' = None
    /\ \/ call = "delf" /\ NoCall
       \/ call # "delf" /\ UNCHANGED <<call, cf, ct, position, n, list_entry>>
    /\ UNCHANGED <<threads_running, lock, threadVars, functVars, todo, rtVars>>

free_funct_entry_struct ==
    /\ gone # None
    /\ users' = [users EXCEPT ![funct_ptr[gone]] = @ - 1]
    /\ funct_ptr' = [funct_ptr EXCEPT ![gone] = None]
    /\ dlist_add_after(gone, Free, next, prev)
    /\ on' = [on EXCEPT ![gone] = Free]
    /\ gone' = None
    /\ \/ call = "delf" /\ NoCall
       \/ call # "delf" /\ UNCHANGED <<call, cf, ct, position, n, list_entry>>
    /\ UNCHANGED <<threads_running, lock, threadVars, functs, todo, rtVars>>

\* The end of a list: delf has found nothing, a thread is taken off the list of
\* threads and freed, or the other threads follow.
WalkEnd ==
    /\ Walking /\ list_entry = ct
    /\ \/ call = "delf" /\ NoCall /\ UNCHANGED threads
       \/ /\ call = "exit_thread" /\ NoCall
          /\ \E i \in 1 .. Len(threads) :
                /\ threads[i] = ct
                /\ threads' = SubSeq(threads, 1, i - 1) \o SubSeq(threads, i + 1, Len(threads))
       \/ /\ call = "free_funct" /\ ct' = None /\ list_entry' = None
          /\ UNCHANGED <<threads, call, cf, position, n>>
    /\ UNCHANGED <<threads_running, lock, base_period, period, priority, tasks, functVars,
                   listVars, funct_ptr, todo, gone, rtVars>>

FunctFreed ==
    /\ call = "free_funct" /\ ct = None /\ todo = {}
    /\ functs' = functs \ {cf}
    /\ NoCall
    /\ UNCHANGED <<threads_running, lock, threadVars, users, listVars, funct_ptr, todo,
                   gone, rtVars>>
-----------------------------------------------------------------------------
(* The realtime task of thread t: thread_task().                           *)

\* The end of the list is the end of the cycle.
Follow(t, x) == at' = [at EXCEPT ![t] = IF x = t THEN None ELSE x]

CycleStart(t) ==
    /\ t \in tasks /\ at[t] = None /\ threads_running
    /\ Follow(t, next[t])
    /\ UNCHANGED <<threads_running, lock, threadVars, functVars, listVars, funct_ptr,
                   callVars, exec>>

\* The call of the funct.  (A thread that has strayed from its list, to the free
\* list or to an entry without a funct, calls through a null pointer.)
CallFunct(t) ==
    /\ at[t] \in Entries /\ exec[t] = None /\ funct_ptr[at[t]] # None
    /\ exec' = [exec EXCEPT ![t] = funct_ptr[at[t]]]
    /\ UNCHANGED <<threads_running, lock, threadVars, functVars, listVars, funct_ptr,
                   callVars, at>>

\* Mutant: one funct per cycle.
FunctReturns_Ends(t) ==
    /\ exec[t] # None
    /\ exec' = [exec EXCEPT ![t] = None]
    /\ at' = [at EXCEPT ![t] = None]
    /\ UNCHANGED <<threads_running, lock, threadVars, functVars, listVars, funct_ptr,
                   callVars>>

\* The funct returns, and the thread follows the link of the entry.
FunctReturns(t) ==
    /\ exec[t] # None
    /\ exec' = [exec EXCEPT ![t] = None]
    /\ Follow(t, next[at[t]])
    /\ UNCHANGED <<threads_running, lock, threadVars, functVars, listVars, funct_ptr,
                   callVars>>

thread_task(t) == CycleStart(t) \/ CallFunct(t) \/ FunctReturns(t)
-----------------------------------------------------------------------------
Configure ==
    \/ \E t \in Threads, p \in Periods : hal_create_xthread(t, p)
    \/ \E f \in Functs : hal_export_funct(f)
    \/ \E f \in Functs, t \in Threads, pos \in -MaxPosition .. MaxPosition :
          AddFunct(f, t, pos)
    \/ AddSeek \/ AddInsert \/ AddFails
    \/ hal_start_threads \/ hal_stop_threads \/ hal_set_lock

Dismantle ==
    \/ \E f \in Functs, t \in Threads : DelFunct(f, t)
    \/ \E f \in Functs : free_funct_struct(f)
    \/ \E t \in Threads : NextThread(t) \/ halg_exit_thread(t)
    \/ WalkOn \/ dlist_remove_entry \/ free_funct_entry_struct \/ WalkEnd \/ FunctFreed

Next == Configure \/ Dismantle \/ \E t \in Threads : thread_task(t)

Spec == Init /\ [][Next]_vars

\* The operating system runs every thread that is ready, and functs return.
FairSpec == Spec /\ \A t \in Threads : WF_vars(thread_task(t))
-----------------------------------------------------------------------------
(* Properties.                                                             *)

TypeOK ==
    /\ threads_running \in BOOLEAN /\ lock \in BOOLEAN
    /\ threads \in Seq(Threads) /\ base_period \in Nat /\ tasks \subseteq Threads
    /\ period \in [Threads -> Nat] /\ priority \in [Threads -> Nat]
    /\ functs \subseteq Functs /\ users \in [Functs -> Nat]
    /\ next \in [Nodes -> Nodes] /\ prev \in [Nodes -> Nodes]
    /\ funct_ptr \in [Entries -> Functs \cup {None}]
    /\ on \in [Nodes -> Threads \cup {Free, None}]
    /\ call \in {"none", "addf", "delf", "free_funct", "exit_thread"}
    /\ cf \in Functs \cup {None} /\ ct \in Threads \cup {None}
    /\ position \in Int /\ n \in Int
    /\ list_entry \in Nodes \cup {None}
    /\ todo \subseteq Threads /\ gone \in Entries \cup {None}
    /\ at \in [Threads -> Nodes \cup {None}] /\ exec \in [Threads -> Functs \cup {None}]

\* The users count of a funct is the number of entries that point to it, whatever
\* was added, deleted and unloaded, one thread or all of them.
UsersRight ==
    \A f \in functs : users[f] = Cardinality({e \in Entries : funct_ptr[e] = f})

\* The lists are sound at every step of every change: the links are each other's
\* inverses, no list leads into another, and exactly the entries on a thread's
\* list have a funct, a valid one.
ListsSound ==
    /\ \A x \in Nodes : prev[next[x]] = x /\ next[prev[x]] = x
    /\ \A x \in Nodes : on[next[x]] = on[x]
    /\ \A e \in Entries : e # gone => (on[e] \in Threads <=> funct_ptr[e] # None)
    /\ \A e \in Entries : funct_ptr[e] # None => funct_ptr[e] \in functs

\* Thread t is at an entry of its own list, and in no other funct than the entry's,
\* a valid one.
OnList(t) ==
    /\ at[t] \in Entries /\ on[at[t]] = t
    /\ exec[t] # None => exec[t] = funct_ptr[at[t]] /\ exec[t] \in functs

\* A realtime thread leaves its list in one way only: hal_del_funct_from_thread() or
\* free_funct_struct() removes the very entry it is at.  No insertion, no removal of
\* another entry, no unload of another funct and no deletion of a thread does it.
WalkKept ==
    [][\A t \in Threads : at[t] = None \/ OnList(t) =>
          \/ at'[t] = None \/ OnList(t)'
          \/ call \in {"delf", "free_funct"} /\ gone = None /\ gone' = at[t]]_vars

\* The check of hal_add_funct_to_thread() keeps two threads that are each on their
\* own list from being at once in a funct that is not reentrant.
NoReentry ==
    \A t, u \in Threads : t # u /\ OnList(t) /\ OnList(u) /\ exec[t] # None /\ exec[t] = exec[u]
                             => exec[t] \in Reentrant

\* "So an RT thread cant trample on the comp while it's being destroyed": when
\* a funct is freed no thread is in it, nor will any call it.
FreedNotCalled == \A t \in Threads : exec[t] # None => exec[t] \in functs

\* A thread never runs at a higher priority than one created before it, whichever
\* threads were deleted and created again in between.
OlderNotBelow ==
    \A i, j \in 1 .. Len(threads) :
       i < j => priority[threads[i]] >= priority[threads[j]]

\* The list of thread t as a sequence of entries.
ListOf(t) ==
    LET N == Cardinality(Entries)
        walk[k \in 0 .. N + 1] == IF k = 0 THEN t ELSE next[walk[k - 1]]
        len == CHOOSE k \in 0 .. N : walk[k + 1] = t /\ \A j \in 1 .. k : walk[j] # t
    IN  [k \in 1 .. len |-> walk[k]]


\* While a thread runs on its list, and no funct is taken off any, every funct on it is
\* called again and again, whatever is added before and behind the thread.
EachFunctRuns ==
    \A t \in Threads, f \in Functs :
       <>[](/\ threads_running /\ t \in tasks /\ ~Removing
            /\ at[t] = None \/ OnList(t)
            /\ \E e \in Entries : on[e] = t /\ funct_ptr[e] = f)
          => []<>(exec[t] = f)
=============================================================================

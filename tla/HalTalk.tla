------------------------------- MODULE HalTalk -------------------------------
(***************************************************************************)
(* haltalk serves remote components and groups of the HAL (module          *)
(* HalObject) to clients on the network.  It is one process with one event *)
(* loop, but a request takes several calls into the HAL, each under the    *)
(* HAL mutex, and other processes use the HAL between them.  haltalk keeps *)
(* pointers to HAL objects in compiled components and groups, and follows  *)
(* them from timers without the mutex.  It may end and be started again,   *)
(* and be killed at any moment; what it did in the HAL stays then, its own *)
(* component too, so that hal_init() refuses every later start.            *)
(***************************************************************************)
EXTENDS HalObject

CONSTANT HtPids   \* the process ids of haltalk, one for each start

\* The counts stay in their 7 bits, with room for a reference of each start to a group.
ASSUME TalkAssumption ==
    /\ HtPids \subseteq Pids /\ IsFiniteSet(HtPids) /\ Cardinality(HtPids) <= MaxRefs
    /\ MaxRefs <= 63

VARIABLES self,            \* htself_t.pid, None when haltalk does not run
          unborn,          \* pids of starts still to come
          pc, req, pins,   \* the request under way: component, pins to create; "down":
                           \* haltalk does not run, "dead": and its component is left
          comp,            \* comp_id in create_rcomp()
          rcomps, groups   \* htself_t: what is served, by name

htVars == <<self, unborn, pc, req, pins, comp, rcomps, groups>>
request == <<pc, req, pins, comp>>
vars == <<mem, rt, htVars>>

\* hal_compiled_comp_t, hal_compiled_group_t; none for a name that is not served.
NoRcomp == [comp |-> None, pins |-> {}]
NoGroup == [group |-> None, members |-> {}]

\* Other processes, with pids of their own.
Others == HalNext(comp, Pids \ HtPids) /\ UNCHANGED htVars

TalkInit ==
    /\ Init
    /\ self = None /\ unborn = HtPids
    /\ pc = "down" /\ req = None /\ pins = {} /\ comp = None
    /\ rcomps = [c \in RemoteComps |-> NoRcomp] /\ groups = [g \in Groups |-> NoGroup]

Goto(where) == pc' = where /\ UNCHANGED <<req, pins, comp>>
InLoop == pc' = "loop" /\ req' = None /\ pins' = {} /\ comp' = None

Down(where) ==
    /\ self' = None
    /\ pc' = where /\ req' = None /\ pins' = {} /\ comp' = None
    /\ rcomps' = [c \in RemoteComps |-> NoRcomp] /\ groups' = [g \in Groups |-> NoGroup]
-----------------------------------------------------------------------------
(* Adopting what is in the HAL.                                            *)

\* halg_compile_comp(): fails when there is no pin to watch.
CompiledComp(m, d) == [comp |-> d, pins |-> Owned(m, "pin", d)]

\* scan_component(): disowned, unbound and not known yet.
Adoptable == {d \in Desc : /\ IsRemote(mem, d) /\ mem[d].pid = None
                           /\ mem[d].state = "unbound" /\ rcomps[mem[d].name] = NoRcomp}

\* A component is acquired before it is compiled, and stays so when that fails.
AdoptedMem == [d \in Desc |-> IF d \in Adoptable THEN Acquired(mem, d, self)[d] ELSE mem[d]]
Adopted ==
    [c \in RemoteComps |->
        LET new == {d \in Adoptable : mem[d].name = c /\ Owned(mem, "pin", d) # {}}
        IN IF new = {} THEN rcomps[c] ELSE CompiledComp(mem, CHOOSE d \in new : TRUE)]

\* All in one transaction under the HAL mutex.
scan_comps == mem' = AdoptedMem /\ rcomps' = Adopted
ScanFails == \E d \in Adoptable : Owned(mem, "pin", d) = {}

\* halpr_group_compile(): a group that reports changes needs a member.
Compilable(g) == mem[g].name \in OnChange => Owned(mem, "member", g) # {}
NewGroups == {g \in Desc : mem[g].valid /\ mem[g].type = "group" /\ groups[mem[g].name] = NoGroup}

CompiledMem ==
    [d \in Desc |-> IF d \in NewGroups /\ Compilable(d) THEN ho_incref(mem[d]) ELSE mem[d]]

scan_groups ==
    /\ mem' = CompiledMem
    /\ groups' = [n \in Groups |->
          LET new == {g \in NewGroups : mem[g].name = n /\ Compilable(g)}
          IN IF new = {} THEN groups[n]
             ELSE LET g == CHOOSE d \in new : TRUE
                  IN [group |-> g, members |-> Owned(mem, "member", g)]]
-----------------------------------------------------------------------------
(* Start, end, and death.                                                  *)

\* hal_setup(): hal_init() fails as long as there is a component of this name.  An
\* object that cannot be compiled ends the process, and what it has acquired by then
\* stays acquired, and its component stays.
Start(pid) ==
    /\ pc = "down" /\ pid \in unborn
    /\ self' = pid /\ unborn' = unborn \ {pid}
    /\ Goto("setup")
    /\ UNCHANGED <<mem, rt, rcomps, groups>>

SetupGroups ==
    /\ pc = "setup"
    /\ \/ (\A g \in NewGroups : Compilable(g)) /\ scan_groups /\ Goto("setup2")
          /\ UNCHANGED <<self, rcomps>>
       \/ (\E g \in NewGroups : ~Compilable(g)) /\ mem' = CompiledMem /\ Down("dead")
    /\ UNCHANGED <<rt, unborn>>

SetupComps ==
    /\ pc = "setup2"
    /\ \/ ~ScanFails /\ scan_comps /\ Goto("loop") /\ UNCHANGED <<self, groups>>
       \/ ScanFails /\ mem' = AdoptedMem /\ Down("dead")
    /\ UNCHANGED <<rt, unborn>>

\* handle_signal(), also sent by unloadusr and by rtapi_app's shutdown.
Terminate ==
    /\ pc = "loop" /\ Goto("cleanup")
    /\ UNCHANGED <<mem, rt, self, unborn, rcomps, groups>>

\* release_comps(): unbind, if bound by us, and release are two calls.
unbind_comp(c) ==
    /\ pc = "cleanup" /\ rcomps[c] # NoRcomp
    /\ LET d == rcomps[c].comp
       IN mem' = IF mem[d].pid = self THEN Unbound(mem, d) ELSE mem
    /\ pc' = "release" /\ req' = c /\ UNCHANGED <<pins, comp>>
    /\ UNCHANGED <<rt, self, unborn, rcomps, groups>>

release_comp ==
    /\ pc = "release"
    /\ mem' = Released(mem, rcomps[req].comp, self)
    /\ rcomps' = [rcomps EXCEPT ![req] = NoRcomp]
    /\ pc' = "cleanup" /\ req' = None /\ UNCHANGED <<pins, comp>>
    /\ UNCHANGED <<rt, self, unborn, groups>>

\* release_groups(), after the components
release_group(g) ==
    /\ pc = "cleanup" /\ groups[g] # NoGroup
    /\ \A c \in RemoteComps : rcomps[c] = NoRcomp
    /\ mem' = [d \in Desc |-> IF d \in Find("group", g) THEN ho_decref(mem[d]) ELSE mem[d]]
    /\ groups' = [groups EXCEPT ![g] = NoGroup]
    /\ UNCHANGED <<rt, self, unborn, request, rcomps>>

\* ... and hal_exit()
Exited ==
    /\ pc = "cleanup"
    /\ \A c \in RemoteComps : rcomps[c] = NoRcomp
    /\ \A g \in Groups : groups[g] = NoGroup
    /\ Down("down")
    /\ UNCHANGED <<mem, rt, unborn>>

\* Killed: nothing is given back.
Crash == self # None /\ Down("dead") /\ UNCHANGED <<mem, rt, unborn>>
-----------------------------------------------------------------------------
(* process_rcomp_bind() and create_rcomp().                                *)

\* A bind request for a component that is not served: look for a new one first.
BindRequest(c, ps) ==
    /\ pc = "loop" /\ rcomps[c] = NoRcomp
    /\ scan_comps
    /\ pc' = "bind" /\ req' = c /\ pins' = ps
    /\ UNCHANGED <<rt, self, unborn, comp, groups>>

\* Served now, refused (no_create, or being set up by somebody else), or created.
BindDecide ==
    /\ pc = "bind"
    /\ \/ InLoop
       \/ /\ rcomps[req] = NoRcomp
          /\ \A d \in Find("comp", req) : mem[d].state # "initializing"
          /\ Goto("xinit")
    /\ UNCHANGED <<mem, rt, self, unborn, rcomps, groups>>

CreateXinit(d) ==
    /\ pc = "xinit"
    /\ \/ /\ Find("comp", req) # {} \/ \A e \in Desc : ~Fresh(e, None)
          /\ mem' = mem /\ InLoop
       \/ /\ Find("comp", req) = {} /\ Fresh(d, None)
          /\ mem' = Xinit(mem, d, req)
          /\ pc' = "pins" /\ comp' = d /\ UNCHANGED <<req, pins>>
    /\ UNCHANGED <<rt, self, unborn, rcomps, groups>>

\* The name may be taken, the component be gone, the memory used up.
CreatePin(p, d) ==
    /\ pc = "pins" /\ p \in pins
    /\ \/ /\ Find("pin", p) # {} \/ ~IsComp(mem, comp) \/ \A e \in Desc : ~Fresh(e, comp)
          /\ mem' = mem /\ Goto("undo")
       \/ /\ Find("pin", p) = {} /\ IsComp(mem, comp) /\ Fresh(d, comp)
          /\ mem' = [mem EXCEPT ![d] = Object("pin", p, comp)]
          /\ pins' = pins \ {p} /\ UNCHANGED <<pc, req, comp>>
    /\ UNCHANGED <<rt, self, unborn, rcomps, groups>>

\* The result of hal_ready() is not looked at.
CreateReady ==
    /\ pc = "pins" /\ pins = {}
    /\ mem' = IF IsComp(mem, comp) /\ mem[comp].state = "initializing"
              THEN [mem EXCEPT ![comp].state = ReadyState(mem, comp)] ELSE mem
    /\ Goto("acquire")
    /\ UNCHANGED <<rt, self, unborn, rcomps, groups>>

\* By name: it may be another component, made meanwhile.
CreateAcquire ==
    /\ pc = "acquire"
    /\ LET found == {d \in Find("comp", req) : MayAcquire(mem, d)} IN
          \/ found = {} /\ mem' = mem /\ Goto("undo")
          \/ \E d \in found : mem' = Acquired(mem, d, self) /\ Goto("compile")
    /\ UNCHANGED <<rt, self, unborn, rcomps, groups>>

CreateCompile ==
    /\ pc = "compile"
    /\ \E d \in Find("comp", req) :
          \/ Owned(mem, "pin", d) = {} /\ Goto("undo") /\ UNCHANGED rcomps
          \/ /\ Owned(mem, "pin", d) # {}
             /\ rcomps' = [rcomps EXCEPT ![req] = CompiledComp(mem, d)]
             /\ InLoop
    /\ UNCHANGED <<mem, rt, self, unborn, groups>>

\* EXIT_COMP: hal_exit(), which does nothing to a component that is acquired.
CreateUndo ==
    /\ pc = "undo"
    /\ mem' = IF IsComp(mem, comp) THEN free_comp_struct(mem, comp) ELSE mem
    /\ InLoop
    /\ UNCHANGED <<rt, self, unborn, rcomps, groups>>
-----------------------------------------------------------------------------
(* handle_rcomp_input(), handle_group_input()                              *)

\* A subscribe event: scan, then bind what was found.
Subscribe(c) ==
    /\ pc = "loop" /\ scan_comps
    /\ pc' = "subscribe" /\ req' = c /\ UNCHANGED <<pins, comp>>
    /\ UNCHANGED <<rt, self, unborn, groups>>

SubscribeBinds ==
    /\ pc = "subscribe"
    /\ mem' = IF rcomps[req] = NoRcomp THEN mem ELSE Bound(mem, rcomps[req].comp)
    /\ InLoop
    /\ UNCHANGED <<rt, self, unborn, rcomps, groups>>

\* The last subscriber is gone.
Unsubscribe(c) ==
    /\ pc = "loop" /\ rcomps[c] # NoRcomp
    /\ mem' = Unbound(mem, rcomps[c].comp)
    /\ UNCHANGED <<rt, htVars>>

SubscribeGroup ==
    /\ pc = "loop" /\ scan_groups
    /\ UNCHANGED <<rt, self, unborn, request, rcomps>>
-----------------------------------------------------------------------------
Talk ==
    \/ \E pid \in HtPids : Start(pid)
    \/ SetupGroups \/ SetupComps \/ Terminate \/ Exited \/ Crash
    \/ \E c \in RemoteComps : unbind_comp(c) \/ Subscribe(c) \/ Unsubscribe(c)
    \/ \E g \in Groups : release_group(g)
    \/ \E c \in RemoteComps, ps \in SUBSET Pins : BindRequest(c, ps)
    \/ BindDecide \/ CreateReady \/ CreateAcquire \/ CreateCompile \/ CreateUndo
    \/ \E d \in Desc : CreateXinit(d) \/ \E p \in Pins : CreatePin(p, d)
    \/ release_comp \/ SubscribeBinds \/ SubscribeGroup

Next == Others \/ Talk
Spec == TalkInit /\ [][Next]_vars
-----------------------------------------------------------------------------
TalkTypeOK ==
    /\ TypeOK
    /\ self \in HtPids \cup {None} /\ unborn \subseteq HtPids
    /\ pc \in {"down", "dead", "setup", "setup2", "loop", "cleanup", "release", "bind", "xinit",
               "pins", "acquire", "compile", "undo", "subscribe"}
    /\ req \in RemoteComps \cup {None} /\ pins \subseteq Pins /\ comp \in Desc \cup {None}
    /\ rcomps \in [RemoteComps -> [comp : Desc \cup {None}, pins : SUBSET Desc]]
    /\ groups \in [Groups -> [group : Desc \cup {None}, members : SUBSET Desc]]

(* What haltalk's timers follow without the HAL mutex is there: as long as *)
(* haltalk serves a component or a group, the descriptors it points at are *)
(* valid and the ones it meant, with other processes exiting components,   *)
(* deleting groups, members and signals and sweeping, and when haltalk     *)
(* starts again.  It is also what the assertion on the reply to a bind     *)
(* request says (haltalk_command.cc:457).                                  *)
ServedKept ==
    /\ \A c \in RemoteComps : rcomps[c] # NoRcomp =>
          LET d == rcomps[c].comp IN
          /\ IsRemote(mem, d) /\ mem[d].name = c /\ mem[d].pid = self
          /\ rcomps[c].pins \subseteq Owned(mem, "pin", d)
    /\ \A n \in Groups : groups[n] # NoGroup =>
          LET g == groups[n].group IN
          /\ mem[g].valid /\ mem[g].type = "group" /\ mem[g].name = n
          /\ groups[n].members \subseteq Owned(mem, "member", g)
=============================================================================

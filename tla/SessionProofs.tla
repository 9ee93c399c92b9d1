--------------------------- MODULE SessionProofs ---------------------------
(***************************************************************************)
(* SessionKept for any number of starts of rtapi_msgd and rtapi_app.       *)
(*                                                                         *)
(* The property looks at one step; what makes it hold is the history of    *)
(* the name.  As long as the script is not unloading, the name of the      *)
(* global segment leads to the segment of the msgd that is there           *)
(* (NameIsServed), so that the next start finds a segment and looks for    *)
(* processes; while it unloads there is no name (NoNameUnloading); and     *)
(* nothing is started between that look and what is done on the strength   *)
(* of it (StartsApart, LookHolds).                                         *)
(***************************************************************************)
EXTENDS Session, TLAPS

MsgdStates == {"off", "look", "create", "fork", "named", "init", "loop",
               "grace", "leave", "gone"}
AppStates == {"off", "attach", "wait", "check", "load", "setup", "loop",
              "leave", "gone"}
ScriptStates == {"idle", "msgd", "ping", "rm", "wait", "term"}

Starting(m) == msgd[m] \in {"look", "create", "fork"}
HasSegment(m) == MsgdLive(m) /\ msgd[m] \notin {"look", "create"}

Types ==
  /\ script \in ScriptStates
  /\ msgd \in [Msgds -> MsgdStates]
  /\ app \in [Apps -> AppStates]
  /\ name \in Msgds \cup {None}

StartsApart ==
  /\ \A m \in Msgds : msgd[m] \in {"look", "create"} => script = "msgd"
  /\ \A m \in Msgds : msgd[m] = "fork" => script \in {"msgd", "ping"}
  /\ \A m, n \in Msgds : Starting(m) /\ Starting(n) => m = n

NameIsServed ==
  script \notin {"wait", "term"} => \A m \in Msgds : HasSegment(m) => name = m

NoNameUnloading == script \in {"wait", "term"} => name = None

LookHolds ==
  \A m \in Msgds : msgd[m] = "create" => name = None \/ Running = {}

NameWasMade == name # None => msgd[name] \notin {"off", "look", "create"}

Inv ==
  /\ Types /\ StartsApart /\ NameIsServed /\ NoNameUnloading /\ LookHolds
  /\ NameWasMade

(* What the steps of rtapi_app and its faults have in common: no process   *)
(* of that name appears.                                                   *)
AppOnly ==
  /\ UNCHANGED <<script, msgd, name>>
  /\ app' \in [Apps -> AppStates]
  /\ \A a \in Apps : AppLive(a)' => AppLive(a)

(* What the steps of a msgd that has made its segment have in common.      *)
MsgdOnly(m) ==
  /\ HasSegment(m)
  /\ UNCHANGED <<script, app>>
  /\ \E s \in MsgdStates \ {"off", "look", "create", "fork"} :
       msgd' = [msgd EXCEPT ![m] = s]

(* Every step of rtapi_app, its faults included, is of that kind.          *)
LEMMA AppSteps ==
  ASSUME Types, NEW a \in Apps,
         AppStep(a) \/ sigaction_handler_app(a) \/ KillApp(a)
  PROVE  AppOnly
<1>1. ASSUME NEW s \in AppStates \ {"off"}, app[a] \notin {"off", "gone"},
             app' = [app EXCEPT ![a] = s], UNCHANGED <<script, msgd, name>>
      PROVE  AppOnly
  BY <1>1 DEF AppOnly, Types, AppLive, AppStates
<1>2. CASE AppStep(a)
  <2>1. CASE Attach(a) \/ SeeReady(a) \/ GiveUp(a)
    BY <1>1, <2>1 DEF Attach, SeeReady, GiveUp, AppTo, AppStates
  <2>2. CASE CheckMsgd(a)
    BY <1>1, <2>2 DEF CheckMsgd, AppTo, AppStates
  <2>3. CASE init_actions(a) \/ InitActionsFail(a) \/ SetupFails(a) \/ Register(a)
    BY <1>1, <2>3
       DEF init_actions, InitActionsFail, SetupFails, Register, AppTo, AppStates
  <2>4. CASE rtapi_request_exit(a) \/ s_handle_signal_app(a)
             \/ s_handle_timer(a) \/ LeaveMainloop(a)
    BY <1>1, <2>4
       DEF rtapi_request_exit, s_handle_signal_app, s_handle_timer,
           LeaveMainloop, AppTo, AppStates
  <2>. QED BY <1>2, <2>1, <2>2, <2>3, <2>4 DEF AppStep
<1>3. CASE sigaction_handler_app(a) \/ KillApp(a)
  BY <1>1, <1>3 DEF sigaction_handler_app, KillApp, AppTo, AppStates, AppLive
<1>. QED BY <1>2, <1>3

(* Such steps keep the invariant: they only make Running smaller.          *)
LEMMA AppKeeps ==
  ASSUME Inv, AppOnly
  PROVE  Inv'
<1>1. Types'
  BY DEF Inv, Types, AppOnly
<1>2. StartsApart' /\ NameIsServed' /\ NoNameUnloading' /\ NameWasMade'
  BY DEF Inv, AppOnly, StartsApart, Starting, NameIsServed, HasSegment, MsgdLive,
         NoNameUnloading, NameWasMade
<1>3. LookHolds'
  <2>1. Running' \subseteq Running
    BY DEF AppOnly, Running, pid_of_msgd, pid_of_app, MsgdLive
  <2>. QED BY <2>1 DEF Inv, LookHolds, AppOnly
<1>. QED BY <1>1, <1>2, <1>3 DEF Inv

(* A msgd that has made its segment goes on and leaves the name alone, or  *)
(* ends, and may take the name with it.                                    *)
LEMMA MsgdKeeps ==
  ASSUME Inv, NEW m \in Msgds, MsgdOnly(m),
         name' = name \/ (name' = None /\ msgd'[m] = "gone")
  PROVE  Inv'
<1>1. PICK s \in MsgdStates \ {"off", "look", "create", "fork"} :
        msgd' = [msgd EXCEPT ![m] = s]
  BY DEF MsgdOnly
<1>2. /\ msgd \in [Msgds -> MsgdStates]
      /\ \A n \in Msgds \ {m} : msgd'[n] = msgd[n]
      /\ msgd'[m] = s
      /\ msgd[m] \notin {"off", "look", "create", "gone"}
      /\ UNCHANGED <<script, app>>
  BY <1>1 DEF Inv, Types, MsgdOnly, HasSegment, MsgdLive
<1>3. Types'
  BY <1>1, <1>2 DEF Inv, Types
<1>4. StartsApart'
  BY <1>2 DEF Inv, StartsApart, Starting
<1>5. NoNameUnloading'
  BY <1>2 DEF Inv, NoNameUnloading
<1>6. NameWasMade'
  BY <1>2 DEF Inv, NameWasMade, Types
<1>7. NameIsServed'
  <2>1. ASSUME NEW n \in Msgds, HasSegment(n)', script \notin {"wait", "term"}
        PROVE  name' = n
    <3>1. HasSegment(n) /\ HasSegment(m)
      BY <2>1, <1>2 DEF HasSegment, MsgdLive
    <3>2. name = n /\ name = m
      BY <3>1, <2>1 DEF Inv, NameIsServed
    <3>3. msgd'[m] # "gone"
      BY <3>2, <2>1 DEF HasSegment, MsgdLive
    <3>. QED BY <3>2, <3>3
  <2>. QED BY <2>1, <1>2 DEF NameIsServed
<1>8. LookHolds'
  <2>1. ASSUME NEW n \in Msgds, msgd'[n] = "create"
        PROVE  FALSE
    <3>1. n # m /\ msgd[n] = "create" /\ script = "msgd"
      BY <2>1, <1>2 DEF Inv, StartsApart
    <3>2. msgd[m] # "fork"
      BY <3>1 DEF Inv, StartsApart, Starting
    <3>3. m \in Running
      BY <3>2, <1>2 DEF Running, pid_of_msgd, MsgdLive
    <3>4. name = None
      BY <3>1, <3>3 DEF Inv, LookHolds
    <3>5. name = m
      BY <3>1, <1>2 DEF Inv, NameIsServed, HasSegment, MsgdLive
    <3>. QED BY <3>4, <3>5, SessionAssumption
  <2>. QED BY <2>1 DEF LookHolds
<1>. QED BY <1>3, <1>4, <1>5, <1>6, <1>7, <1>8 DEF Inv

(* The steps of rtapi_msgd after create_global_segment() are of that kind. *)
LEMMA MsgdSteps ==
  ASSUME Inv, NEW m \in Msgds,
         \/ Rename(m) \/ StartupFails(m) \/ init_global_data(m) \/ Ready(m)
         \/ message_poll_cb(m) \/ s_start_shutdown_cb(m)
         \/ s_handle_signal_msgd(m) \/ cleanup_actions(m)
         \/ sigaction_handler_msgd(m)
         \/ (KillMsgd(m) /\ msgd[m] \notin {"look", "create"})
  PROVE  /\ MsgdOnly(m)
         /\ name' = name \/ (name' = None /\ msgd'[m] = "gone")
<1>1. ASSUME NEW s \in MsgdStates \ {"off", "look", "create", "fork"},
             msgd[m] \notin {"off", "look", "create", "gone"},
             msgd' = [msgd EXCEPT ![m] = s], UNCHANGED <<script, app>>,
             name' = name \/ (name' = None /\ s = "gone")
      PROVE  /\ MsgdOnly(m)
             /\ name' = name \/ (name' = None /\ msgd'[m] = "gone")
  <2>1. msgd'[m] = s
    BY <1>1 DEF Inv, Types
  <2>. QED BY <1>1, <2>1 DEF MsgdOnly, HasSegment, MsgdLive
<1>2. CASE Rename(m) \/ StartupFails(m) \/ init_global_data(m) \/ Ready(m)
  BY <1>1, <1>2 DEF Rename, StartupFails, init_global_data, Ready, MsgdStates
<1>3. CASE message_poll_cb(m) \/ s_start_shutdown_cb(m)
  BY <1>1, <1>3 DEF message_poll_cb, s_start_shutdown_cb, MsgdStates
<1>4. CASE s_handle_signal_msgd(m) \/ cleanup_actions(m) \/ sigaction_handler_msgd(m)
  BY <1>1, <1>4
     DEF s_handle_signal_msgd, cleanup_actions, sigaction_handler_msgd, MsgdStates
<1>5. CASE KillMsgd(m) /\ msgd[m] \notin {"look", "create"}
  BY <1>1, <1>5 DEF KillMsgd, MsgdLive, MsgdStates
<1>. QED BY <1>2, <1>3, <1>4, <1>5

(* A msgd looks for an earlier session, and may be killed before it has    *)
(* made its segment: what it found is still so.                            *)
LEMMA LookKeeps ==
  ASSUME Inv, NEW m \in Msgds,
         Investigate(m) \/ (KillMsgd(m) /\ msgd[m] \in {"look", "create"})
  PROVE  Inv'
<1>1. PICK s \in {"create", "gone"} : msgd' = [msgd EXCEPT ![m] = s]
  BY DEF Investigate, KillMsgd
<1>2. /\ msgd \in [Msgds -> MsgdStates]
      /\ \A n \in Msgds \ {m} : msgd'[n] = msgd[n]
      /\ msgd'[m] = s
      /\ msgd[m] \in {"look", "create"}
      /\ UNCHANGED <<script, app, name>>
  BY <1>1 DEF Inv, Types, Investigate, KillMsgd
<1>3. Types'
  BY <1>1, <1>2 DEF Inv, Types, MsgdStates
<1>4. StartsApart'
  BY <1>2 DEF Inv, StartsApart, Starting
<1>5. NoNameUnloading' /\ NameWasMade'
  BY <1>2 DEF Inv, NoNameUnloading, NameWasMade, Types
<1>6. NameIsServed'
  BY <1>2 DEF Inv, NameIsServed, HasSegment, MsgdLive
<1>7. LookHolds'
  <2>1. Running' = Running
    BY <1>2 DEF Running, pid_of_msgd, pid_of_app, MsgdLive, AppLive
  <2>2. ASSUME NEW n \in Msgds, msgd'[n] = "create"
        PROVE  name = None \/ Running = {}
    <3>1. CASE n # m
      BY <3>1, <2>2, <1>2 DEF Inv, LookHolds
    <3>2. CASE n = m
      <4>1. msgd'[m] # "gone"
        BY <3>2, <2>2
      <4>2. Investigate(m)
        BY <4>1, <1>2 DEF KillMsgd, Inv, Types
      <4>. QED BY <4>1, <4>2, <1>2 DEF Investigate
    <3>. QED BY <3>1, <3>2
  <2>. QED BY <2>1, <2>2, <1>2 DEF LookHolds
<1>. QED BY <1>3, <1>4, <1>5, <1>6, <1>7 DEF Inv

(* When a msgd makes its segment, the name it replaces is nobody's.        *)
LEMMA CreateReplacesNobody ==
  ASSUME Inv, NEW m \in Msgds, Create(m), name # None
  PROVE  ~InUse(name)
<1>1. name \in Msgds /\ Running = {} /\ msgd[m] = "create"
  BY DEF Inv, Types, LookHolds, Create
<1>2. ~\E a \in Apps : AppLive(a)
  BY <1>1 DEF Running, pid_of_app
<1>3. name \notin pid_of_msgd
  BY <1>1 DEF Running
<1>4. msgd[name] # "fork"
  BY <1>1 DEF Inv, StartsApart, Starting
<1>5. ~MsgdLive(name)
  BY <1>1, <1>3, <1>4 DEF Inv, NameWasMade, pid_of_msgd
<1>. QED BY <1>2, <1>5 DEF InUse

(* The new segment is the only one that is served.                         *)
LEMMA CreateKeeps ==
  ASSUME Inv, NEW m \in Msgds, Create(m)
  PROVE  Inv'
<1>1. /\ msgd \in [Msgds -> MsgdStates]
      /\ \A n \in Msgds \ {m} : msgd'[n] = msgd[n]
      /\ msgd[m] = "create" /\ msgd'[m] = "fork"
      /\ script = "msgd"
      /\ name' = m
      /\ UNCHANGED <<script, app>>
  BY DEF Inv, Types, StartsApart, Create
<1>2. Types'
  BY <1>1 DEF Inv, Types, Create, MsgdStates
<1>3. StartsApart'
  BY <1>1 DEF Inv, StartsApart, Starting
<1>4. NoNameUnloading' /\ NameWasMade'
  BY <1>1 DEF NoNameUnloading, NameWasMade
<1>5. NameIsServed'
  <2>1. ASSUME NEW n \in Msgds \ {m}, HasSegment(n)
        PROVE  FALSE
    <3>1. name = n /\ name # None
      BY <2>1, <1>1, SessionAssumption DEF Inv, NameIsServed
    <3>2. ~InUse(name)
      BY <3>1, CreateReplacesNobody
    <3>. QED BY <3>1, <3>2, <2>1 DEF InUse, HasSegment
  <2>. QED BY <2>1, <1>1 DEF NameIsServed, HasSegment, MsgdLive
<1>6. LookHolds'
  BY <1>1 DEF Inv, StartsApart, Starting, LookHolds
<1>. QED BY <1>2, <1>3, <1>4, <1>5, <1>6 DEF Inv

(* The script starts a msgd only when none is starting, and returns to     *)
(* "idle" only when no msgd is left that has lost its name.                *)
LEMMA ScriptKeeps ==
  ASSUME Inv, Script
  PROVE  Inv'
<1>1. CASE LoadMsgd
  <2>1. PICK m \in Msgds : msgd[m] = "off" /\ msgd' = [msgd EXCEPT ![m] = "look"]
    <3>1. (CHOOSE m \in Msgds : msgd[m] = "off") \in Msgds
          /\ msgd[CHOOSE m \in Msgds : msgd[m] = "off"] = "off"
      BY <1>1 DEF LoadMsgd
    <3>. QED BY <3>1, <1>1 DEF LoadMsgd
  <2>2. /\ msgd \in [Msgds -> MsgdStates]
        /\ \A n \in Msgds \ {m} : msgd'[n] = msgd[n]
        /\ msgd'[m] = "look"
        /\ script = "idle" /\ script' = "msgd"
        /\ UNCHANGED <<app, name>>
    BY <2>1, <1>1 DEF Inv, Types, LoadMsgd
  <2>3. Types'
    BY <2>1, <2>2 DEF Inv, Types, MsgdStates, ScriptStates
  <2>4. StartsApart'
    BY <2>2 DEF Inv, StartsApart, Starting
  <2>5. NoNameUnloading' /\ NameWasMade'
    BY <2>1, <2>2 DEF Inv, NoNameUnloading, NameWasMade, Types
  <2>6. NameIsServed'
    BY <2>2 DEF Inv, NameIsServed, HasSegment, MsgdLive
  <2>7. LookHolds'
    BY <2>2 DEF Inv, StartsApart, LookHolds
  <2>. QED BY <2>3, <2>4, <2>5, <2>6, <2>7 DEF Inv
<1>2. CASE LoadApp
  <2>1. /\ app' \in [Apps -> AppStates]
        /\ script = "msgd" /\ script' = "ping"
        /\ \A m \in Msgds : msgd[m] \notin {"look", "create"}
        /\ UNCHANGED <<msgd, name>>
    BY <1>2 DEF LoadApp, AppTo, Inv, Types, AppStates
  <2>. QED BY <2>1 DEF Inv, Types, ScriptStates, StartsApart, Starting, NameIsServed,
                  HasSegment, MsgdLive, NoNameUnloading, LookHolds, NameWasMade
<1>3. CASE Ping \/ UnloadApp
  <2>1. /\ script \in {"ping", "idle"} /\ script' \in {"idle", "rm"}
        /\ \A m \in Msgds : msgd[m] # "fork"
        /\ UNCHANGED <<msgd, app, name>>
    BY <1>3 DEF Ping, UnloadApp, Inv, StartsApart
  <2>. QED BY <2>1 DEF Inv, Types, ScriptStates, StartsApart, Starting, NameIsServed,
                  HasSegment, MsgdLive, NoNameUnloading, LookHolds, NameWasMade
<1>4. CASE UnloadNames \/ UnloadTerm
  <2>1. /\ script \in {"rm", "wait"} /\ script' \in {"wait", "term"}
        /\ name' = None
        /\ UNCHANGED <<msgd, app>>
    BY <1>4 DEF UnloadNames, UnloadTerm, Inv, NoNameUnloading
  <2>. QED BY <2>1 DEF Inv, Types, ScriptStates, StartsApart, Starting, NameIsServed,
                  NoNameUnloading, LookHolds, NameWasMade
<1>5. CASE UnloadKill \/ Unloaded
  <2>1. /\ script \in {"wait", "term"} /\ script' = "idle"
        /\ name = None /\ name' = None /\ UNCHANGED app
        /\ \A m \in Msgds : msgd[m] \notin {"look", "create", "fork"}
    BY <1>5 DEF UnloadKill, Unloaded, Inv, NoNameUnloading, StartsApart
  <2>2. msgd' \in [Msgds -> MsgdStates]
    BY <1>5 DEF UnloadKill, Unloaded, Inv, Types, MsgdStates
  <2>3. \A m \in Msgds : msgd'[m] \in {"off", "gone"}
    BY <1>5, <2>1 DEF UnloadKill, Unloaded, pid_of_msgd, MsgdLive
  <2>4. Types'
    BY <2>1, <2>2 DEF Inv, Types, ScriptStates
  <2>. QED BY <2>1, <2>3, <2>4
           DEF Inv, StartsApart, Starting, NameIsServed, HasSegment, MsgdLive,
               NoNameUnloading, LookHolds, NameWasMade
<1>6. CASE CheckUnloaded
  <2>1. /\ script = "idle" /\ name' = None /\ pid_of_msgd = {}
        /\ UNCHANGED <<script, msgd, app>>
    BY <1>6 DEF CheckUnloaded
  <2>2. \A m \in Msgds : msgd[m] \in {"off", "gone"}
    BY <2>1 DEF Inv, StartsApart, pid_of_msgd, MsgdLive
  <2>. QED BY <2>1, <2>2 DEF Inv, Types, StartsApart, Starting, NameIsServed,
                  HasSegment, MsgdLive, NoNameUnloading, LookHolds, NameWasMade
<1>. QED BY <1>1, <1>2, <1>3, <1>4, <1>5, <1>6 DEF Script

(* Every step keeps the invariant.                                         *)
LEMMA StepKeeps ==
  ASSUME Inv, [Next]_vars
  PROVE  Inv'
<1>1. ASSUME NEW m \in Msgds, MsgdStep(m) \/ sigaction_handler_msgd(m) \/ KillMsgd(m)
      PROVE  Inv'
  <2>1. CASE Investigate(m) \/ (KillMsgd(m) /\ msgd[m] \in {"look", "create"})
    BY <2>1, LookKeeps
  <2>2. CASE Create(m)
    BY <2>2, CreateKeeps
  <2>3. CASE ~(\/ Investigate(m) \/ Create(m)
               \/ (KillMsgd(m) /\ msgd[m] \in {"look", "create"}))
    BY <1>1, <2>3, MsgdSteps, MsgdKeeps DEF MsgdStep
  <2>. QED BY <2>1, <2>2, <2>3
<1>2. ASSUME NEW a \in Apps, AppStep(a) \/ sigaction_handler_app(a) \/ KillApp(a)
      PROVE  Inv'
  BY <1>2, AppSteps, AppKeeps DEF Inv
<1>3. CASE Script
  BY <1>3, ScriptKeeps
<1>4. CASE UNCHANGED vars
  BY <1>4 DEF vars, Inv, Types, StartsApart, Starting, NameIsServed, HasSegment,
              MsgdLive, NoNameUnloading, LookHolds, NameWasMade, Running,
              pid_of_msgd, pid_of_app, AppLive
<1>. QED BY <1>1, <1>2, <1>3, <1>4 DEF Next, Faults

(* At every moment of a session, also after crashes and during an unload:  *)
(* at most one msgd is starting, the name of the global segment leads to   *)
(* the segment of the msgd that serves it, there is none while the script  *)
(* unloads, and what create_global_segment() found is still so when it     *)
(* acts on it.                                                             *)
THEOREM SessionNameInvariant == Spec => []Inv
<1>1. Init => Inv
  BY DEF Init, Inv, Types, MsgdStates, AppStates, ScriptStates, StartsApart, Starting,
         NameIsServed, HasSegment, MsgdLive, NoNameUnloading, LookHolds, NameWasMade
<1>2. Inv /\ [Next]_vars => Inv'
  BY StepKeeps
<1>. QED BY <1>1, <1>2, PTL DEF Spec

(* One step: only the script's rm and the cleanup_actions() of the msgd    *)
(* that made the segment take the name of a segment in use.                *)
LEMMA StepLeavesName ==
  ASSUME Inv, [Next]_vars, name # None, name' # name, InUse(name)
  PROVE  script = "rm" \/ (msgd[name] = "leave" /\ msgd'[name] = "gone")
<1>1. ASSUME NEW m \in Msgds, MsgdStep(m) \/ sigaction_handler_msgd(m) \/ KillMsgd(m)
      PROVE  msgd[name] = "leave" /\ msgd'[name] = "gone"
  <2>1. ~Create(m)
    BY CreateReplacesNobody
  <2>2. cleanup_actions(m)
    BY <1>1, <2>1
       DEF MsgdStep, Investigate, Rename, StartupFails, init_global_data, Ready,
           message_poll_cb, s_start_shutdown_cb, s_handle_signal_msgd,
           sigaction_handler_msgd, KillMsgd
  <2>3. name = m
    BY <2>2 DEF cleanup_actions, Inv, NoNameUnloading, NameIsServed, HasSegment, MsgdLive
  <2>. QED BY <2>2, <2>3 DEF cleanup_actions, Inv, Types
<1>2. ASSUME NEW a \in Apps, AppStep(a) \/ sigaction_handler_app(a) \/ KillApp(a)
      PROVE  FALSE
  BY <1>2, AppSteps DEF Inv, AppOnly
<1>3. CASE Script
  <2>1. UnloadNames \/ CheckUnloaded
    BY <1>3 DEF Script, LoadMsgd, LoadApp, Ping, UnloadApp, UnloadTerm, UnloadKill,
                Unloaded
  <2>2. ~CheckUnloaded
    <3>1. SUFFICES ASSUME CheckUnloaded PROVE FALSE
      OBVIOUS
    <3>2. pid_of_msgd = {} /\ pid_of_app = {} /\ script = "idle"
      BY <3>1 DEF CheckUnloaded
    <3>3. name \in Msgds /\ MsgdLive(name)
      BY <3>2 DEF Inv, Types, InUse, pid_of_app
    <3>. QED BY <3>2, <3>3 DEF Inv, StartsApart, pid_of_msgd
  <2>. QED BY <2>1, <2>2 DEF UnloadNames
<1>4. ~UNCHANGED vars
  BY DEF vars
<1>. QED BY <1>1, <1>2, <1>3, <1>4 DEF Next, Faults

(* SessionKept, for any sets of processes: a session with a live process   *)
(* keeps its segment's name, whatever crashes, is killed or is started.    *)
THEOREM SessionIsKept == Spec => SessionKept
<1>1. Inv /\ [Next]_vars =>
        [(name # None /\ name' # name /\ InUse(name))
           => script = "rm" \/ (msgd[name] = "leave" /\ msgd'[name] = "gone")]_vars
  BY StepLeavesName
<1>. QED BY <1>1, SessionNameInvariant, PTL DEF Spec, SessionKept
=============================================================================

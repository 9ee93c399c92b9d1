------------------------------ MODULE Session ------------------------------
(***************************************************************************)
(* A realtime session: rtapi_msgd, which makes the global segment, logs    *)
(* and ends the session; rtapi_app, which loads rtapi and hal_lib and      *)
(* takes commands; and the script "realtime", which starts and stops them. *)
(* The processes know of each other through the names pidof sees, the     *)
(* names of the segments in /dev/shm and three words of the global        *)
(* segment: magic, rtapi_msgd_pid and rtapi_app_pid.                       *)
(*                                                                         *)
(* Every process is started once, the next one the start of which has not  *)
(* been used, and pids are not reused.  A segment is named after the msgd  *)
(* that made it.  Processes may be killed (nothing is written) or crash    *)
(* (the sigaction handlers run).  Timeouts may run out at any time.  One   *)
(* script runs at a time: overlapping starts are outside the model.        *)
(***************************************************************************)

CONSTANTS Msgds, Apps   \* the processes of the run, by pid

VARIABLES
  script,   \* where the script is
  msgd,     \* msgd[m]: where rtapi_msgd m is
  app,      \* app[a]: where rtapi_app a is
  glob,     \* glob[m]: contents of the global segment m made
  at,       \* at[a]: global segment a has mapped
  name,     \* segment that the name of the global segment leads to
  hal,      \* HAL segment in /dev/shm: whose hal_lib is registered in it
  term,     \* processes with a SIGTERM pending
  asked     \* rtapi_apps with an unread shutdown request

vars == <<script, msgd, app, glob, at, name, hal, term, asked>>

None   == "none"      \* no segment of that name; pid 0
NotYet == "not yet"   \* pid -1
Unused == "unused"    \* a HAL segment without a hal_lib

ASSUME SessionAssumption == None \notin Msgds

MsgdLive(m) == msgd[m] \notin {"off", "gone"}
AppLive(a)  == app[a] \notin {"off", "gone"}

(* pidof finds msgd:<instance> once main() has renamed itself, and         *)
(* rtapi:<instance> from the first line of mainloop() on.                  *)
pid_of_msgd == {m \in Msgds : MsgdLive(m) /\ msgd[m] \notin {"look", "create", "fork"}}
pid_of_app  == {a \in Apps : AppLive(a)}

Init ==
  /\ script = "idle"
  /\ msgd = [m \in Msgds |-> "off"]
  /\ app = [a \in Apps |-> "off"]
  /\ glob = [m \in Msgds |-> [magic |-> "zero", msgd |-> None, app |-> None]]
  /\ at = [a \in Apps |-> None]
  /\ name = None
  /\ hal = None
  /\ term = {}
  /\ asked = {}

-----------------------------------------------------------------------------
(* rtapi_msgd                                                              *)

Running_MsgdOnly == pid_of_msgd   \* mutant: rtapi_app is not looked for
Running == pid_of_msgd \cup pid_of_app

(* create_global_segment(), what is left of an earlier run: segments in    *)
(* use make msgd give up.  Without a segment nobody is looked for.         *)
Investigate(m) ==
  /\ msgd[m] = "look"
  /\ msgd' = [msgd EXCEPT ![m] =
       IF (name # None \/ hal # None) /\ Running # {} THEN "gone" ELSE "create"]
  /\ UNCHANGED <<script, app, glob, at, name, hal, term, asked>>

(* create_global_segment(), the rest: the leftovers are removed and a      *)
(* segment of zeroes is made; main() forks and the first process exits.    *)
(* Starts do not overlap, so that the name is free when it is used again.  *)
Create(m) ==
  /\ msgd[m] = "create"
  /\ msgd' = [msgd EXCEPT ![m] = "fork"]
  /\ name' = m
  /\ hal' = None
  /\ UNCHANGED <<script, app, glob, at, term, asked>>

(* main(): the process gets its name, then reads its options, which may    *)
(* fail and leaves the segment behind.                                     *)
Rename(m) ==
  /\ msgd[m] = "fork"
  /\ msgd' = [msgd EXCEPT ![m] = "named"]
  /\ UNCHANGED <<script, app, glob, at, name, hal, term, asked>>

StartupFails(m) ==
  /\ msgd[m] \in {"named", "init"}
  /\ msgd' = [msgd EXCEPT ![m] = "gone"]
  /\ UNCHANGED <<script, app, glob, at, name, hal, term, asked>>

init_global_data(m) ==
  /\ msgd[m] = "named"
  /\ msgd' = [msgd EXCEPT ![m] = "init"]
  /\ glob' = [glob EXCEPT ![m] =
                [magic |-> "initializing", msgd |-> None, app |-> NotYet]]
  /\ UNCHANGED <<script, app, at, name, hal, term, asked>>

Ready(m) ==
  /\ msgd[m] = "init"
  /\ msgd' = [msgd EXCEPT ![m] = "loop"]
  /\ glob' = [glob EXCEPT ![m].msgd = m, ![m].magic = "ready"]
  /\ UNCHANGED <<script, app, at, name, hal, term, asked>>

(* message_poll_cb(): an rtapi_app_pid of 0 starts the grace period, which *)
(* nothing takes back; s_start_shutdown_cb() ends it and the loop.         *)
message_poll_cb(m) ==
  /\ msgd[m] = "loop" /\ glob[m].app = None
  /\ msgd' = [msgd EXCEPT ![m] = "grace"]
  /\ UNCHANGED <<script, app, glob, at, name, hal, term, asked>>

s_start_shutdown_cb(m) ==
  /\ msgd[m] = "grace"
  /\ msgd' = [msgd EXCEPT ![m] = "leave"]
  /\ UNCHANGED <<script, app, glob, at, name, hal, term, asked>>

Exited_PidKept(m) == [glob EXCEPT ![m].magic = "exited"]   \* mutant: the pid stays
Exited(m) == [glob EXCEPT ![m].magic = "exited", ![m].msgd = None]

(* SIGTERM for the registered rtapi_app, if it is still there.             *)
Termed(m) == term \cup ({glob[m].app} \cap pid_of_app)

start_shutdown(m) == glob' = Exited(m) /\ term' = Termed(m) \ {m}

s_handle_signal_msgd(m) ==
  /\ m \in term /\ msgd[m] \in {"loop", "grace"}
  /\ start_shutdown(m)
  /\ msgd' = [msgd EXCEPT ![m] = "leave"]
  /\ UNCHANGED <<script, app, at, name, hal, asked>>

(* The segment's name goes, whichever segment it leads to.                 *)
cleanup_actions(m) ==
  /\ msgd[m] = "leave"
  /\ msgd' = [msgd EXCEPT ![m] = "gone"]
  /\ glob' = Exited(m)
  /\ term' = Termed(m)
  /\ name' = None
  /\ UNCHANGED <<script, app, at, hal, asked>>

(* A fault in the loop: sigaction_handler() says good-bye and dumps core,  *)
(* the segment keeps its name.                                             *)
sigaction_handler_msgd(m) ==
  /\ msgd[m] \in {"loop", "grace"}
  /\ start_shutdown(m)
  /\ msgd' = [msgd EXCEPT ![m] = "gone"]
  /\ UNCHANGED <<script, app, at, name, hal, asked>>

(* SIGKILL, or SIGTERM before setup_signals().                             *)
KillMsgd(m) ==
  /\ MsgdLive(m)
  /\ msgd' = [msgd EXCEPT ![m] = "gone"]
  /\ UNCHANGED <<script, app, glob, at, name, hal, term, asked>>

-----------------------------------------------------------------------------
(* rtapi_app                                                               *)

AppTo(a, pc) == app' = [app EXCEPT ![a] = pc]
Deregister(a) == glob' = [glob EXCEPT ![at[a]].app = None]

(* attach_global_segment(): the segment, then its magic, are waited for.   *)
Attach(a) ==
  /\ app[a] = "attach" /\ name # None
  /\ AppTo(a, "wait")
  /\ at' = [at EXCEPT ![a] = name]
  /\ UNCHANGED <<script, msgd, glob, name, hal, term, asked>>

SeeReady(a) ==
  /\ app[a] = "wait" /\ glob[at[a]].magic = "ready"
  /\ AppTo(a, "check")
  /\ UNCHANGED <<script, msgd, glob, at, name, hal, term, asked>>

GiveUp(a) ==
  /\ app[a] \in {"attach", "wait"}
  /\ AppTo(a, "gone")
  /\ UNCHANGED <<script, msgd, glob, at, name, hal, term, asked>>

(* mainloop(): "in case we caught a leftover shmseg".                      *)
CheckMsgd(a) ==
  /\ app[a] = "check"
  /\ AppTo(a, IF \E m \in Msgds : glob[at[a]].msgd = m /\ MsgdLive(m)
              THEN "load" ELSE "gone")
  /\ UNCHANGED <<script, msgd, glob, at, name, hal, term, asked>>

(* init_actions(): rtapi attaches the global segment again, by its name;   *)
(* hal_lib attaches or makes the HAL segment and registers itself there.   *)
init_actions(a) ==
  /\ app[a] = "load"
  /\ name # None /\ hal \in {None, Unused}
  /\ at' = [at EXCEPT ![a] = name]
  /\ hal' = a
  /\ AppTo(a, "setup")
  /\ UNCHANGED <<script, msgd, glob, name, term, asked>>

(* It fails without a global segment, with a second hal_lib, or because a  *)
(* library cannot be loaded, and says so with the word that stands for     *)
(* "rtapi_app has exited", whoever is registered there.                    *)
InitActionsFail(a) ==
  /\ app[a] = "load"
  /\ LET seg == IF name = None THEN at[a] ELSE name IN
       /\ at' = [at EXCEPT ![a] = seg]
       /\ glob' = [glob EXCEPT ![seg].app = None]
  /\ AppTo(a, "gone")
  /\ UNCHANGED <<script, msgd, name, hal, term, asked>>

(* No right to do I/O, harden_rt() or the command socket fails: hal_lib    *)
(* stays registered.                                                       *)
SetupFails(a) ==
  /\ app[a] = "setup"
  /\ Deregister(a)
  /\ AppTo(a, "gone")
  /\ UNCHANGED <<script, msgd, at, name, hal, term, asked>>

Register(a) ==
  /\ app[a] = "setup"
  /\ glob' = [glob EXCEPT ![at[a]].app = a]
  /\ AppTo(a, "loop")
  /\ UNCHANGED <<script, msgd, at, name, hal, term, asked>>

(* exit_actions(): hal_lib is unloaded last and leaves its segment behind. *)
exit_actions(a) == hal' = IF hal = a THEN Unused ELSE hal

(* MT_RTAPI_APP_EXIT; the end of mainloop() follows.                       *)
rtapi_request_exit(a) ==
  /\ app[a] = "loop" /\ a \in asked
  /\ exit_actions(a)
  /\ asked' = asked \ {a}
  /\ AppTo(a, "leave")
  /\ UNCHANGED <<script, msgd, glob, at, name, term>>

s_handle_signal_app(a) ==
  /\ app[a] = "loop" /\ a \in term
  /\ exit_actions(a)
  /\ Deregister(a)
  /\ term' = term \ {a}
  /\ AppTo(a, "leave")
  /\ UNCHANGED <<script, msgd, at, name, asked>>

s_handle_timer(a) ==
  /\ app[a] = "loop" /\ glob[at[a]].msgd = None
  /\ exit_actions(a)
  /\ Deregister(a)
  /\ AppTo(a, "gone")
  /\ UNCHANGED <<script, msgd, at, name, term, asked>>

LeaveMainloop(a) ==
  /\ app[a] = "leave"
  /\ Deregister(a)
  /\ AppTo(a, "gone")
  /\ UNCHANGED <<script, msgd, at, name, hal, term, asked>>

(* A fault once the handlers are set: the pid is taken back, no more.      *)
sigaction_handler_app(a) ==
  /\ app[a] \in {"setup", "loop", "leave"}
  /\ Deregister(a)
  /\ AppTo(a, "gone")
  /\ UNCHANGED <<script, msgd, at, name, hal, term, asked>>

KillApp(a) ==
  /\ AppLive(a)
  /\ AppTo(a, "gone")
  /\ UNCHANGED <<script, msgd, glob, at, name, hal, term, asked>>

-----------------------------------------------------------------------------
(* The script "realtime"                                                   *)

(* Load(): rtapi_msgd is started and its first process waited for; its     *)
(* failure is reported as "aborting", from a subshell, and Load() goes on  *)
(* to start rtapi_app.                                                     *)
LoadMsgd ==
  /\ script = "idle"
  /\ \E m \in Msgds : msgd[m] = "off"
  /\ msgd' = [msgd EXCEPT ![CHOOSE m \in Msgds : msgd[m] = "off"] = "look"]
  /\ script' = "msgd"
  /\ UNCHANGED <<app, glob, at, name, hal, term, asked>>

LoadApp ==
  /\ script = "msgd"
  /\ \A m \in Msgds : msgd[m] \notin {"look", "create"}
  /\ \E a \in Apps : app[a] = "off"
  /\ AppTo(CHOOSE a \in Apps : app[a] = "off", "attach")
  /\ script' = "ping"
  /\ UNCHANGED <<msgd, glob, at, name, hal, term, asked>>

(* halcmd ping, answered or not: it takes longer than rtapi_msgd needs to  *)
(* rename itself after the fork.                                           *)
Ping ==
  /\ script = "ping"
  /\ \A m \in Msgds : msgd[m] # "fork"
  /\ script' = "idle"
  /\ UNCHANGED <<msgd, app, glob, at, name, hal, term, asked>>

(* Unload(): an rtapi_app that is found is asked to shut down; the request *)
(* waits for one that has its socket, or finds nobody and times out.       *)
UnloadApp ==
  /\ script = "idle"
  /\ asked' \in {asked} \cup {asked \cup {a} : a \in {b \in Apps : app[b] \in {"setup", "loop"}}}
  /\ script' = "rm"
  /\ UNCHANGED <<msgd, app, glob, at, name, hal, term>>

(* rm -f /dev/shm/hal-<instance>-*                                         *)
UnloadNames ==
  /\ script = "rm"
  /\ name' = None /\ hal' = None
  /\ script' = "wait"
  /\ UNCHANGED <<msgd, app, glob, at, term, asked>>

(* anywait(): msgd is left to exit by itself, then SIGTERM, then SIGKILL.  *)
UnloadTerm ==
  /\ script = "wait" /\ pid_of_msgd # {}
  /\ term' = term \cup pid_of_msgd
  /\ script' = "term"
  /\ UNCHANGED <<msgd, app, glob, at, name, hal, asked>>

UnloadKill ==
  /\ script = "term"
  /\ msgd' = [m \in Msgds |-> IF m \in pid_of_msgd THEN "gone" ELSE msgd[m]]
  /\ script' = "idle"
  /\ UNCHANGED <<app, glob, at, name, hal, term, asked>>

Unloaded ==
  /\ script \in {"wait", "term"} /\ pid_of_msgd = {}
  /\ script' = "idle"
  /\ UNCHANGED <<msgd, app, glob, at, name, hal, term, asked>>

(* CheckUnloaded(): nothing runs, leftover segments are removed.           *)
CheckUnloaded ==
  /\ script = "idle" /\ pid_of_msgd = {} /\ pid_of_app = {}
  /\ name' = None /\ hal' = None
  /\ UNCHANGED <<script, msgd, app, glob, at, term, asked>>

-----------------------------------------------------------------------------
MsgdStep(m) ==
  \/ Investigate(m) \/ Create(m) \/ Rename(m) \/ StartupFails(m)
  \/ init_global_data(m) \/ Ready(m) \/ message_poll_cb(m)
  \/ s_start_shutdown_cb(m) \/ s_handle_signal_msgd(m) \/ cleanup_actions(m)

AppStep(a) ==
  \/ Attach(a) \/ SeeReady(a) \/ GiveUp(a) \/ CheckMsgd(a)
  \/ init_actions(a) \/ InitActionsFail(a) \/ SetupFails(a) \/ Register(a)
  \/ rtapi_request_exit(a) \/ s_handle_signal_app(a) \/ s_handle_timer(a)
  \/ LeaveMainloop(a)

Faults ==
  \/ \E m \in Msgds : sigaction_handler_msgd(m) \/ KillMsgd(m)
  \/ \E a \in Apps : sigaction_handler_app(a) \/ KillApp(a)

Script ==
  \/ LoadMsgd \/ LoadApp \/ Ping
  \/ UnloadApp \/ UnloadNames \/ UnloadTerm \/ UnloadKill \/ Unloaded
  \/ CheckUnloaded

Next ==
  \/ \E m \in Msgds : MsgdStep(m)
  \/ \E a \in Apps : AppStep(a)
  \/ Faults
  \/ Script

(* Both programs run a reactor with a periodic timer and the steps outside *)
(* it do not wait, so that each keeps taking steps.  Nobody needs to run   *)
(* the script, and nothing has to fail.                                    *)
Spec ==
  /\ Init /\ [][Next]_vars
  /\ \A m \in Msgds : WF_vars(MsgdStep(m))
  /\ \A a \in Apps : WF_vars(AppStep(a))

-----------------------------------------------------------------------------
InUse(s) ==
  \/ MsgdLive(s)
  \/ \E a \in Apps : AppLive(a) /\ at[a] = s

(* The global segment of a session that has a live process loses its name  *)
(* only when its own msgd shuts down or the script unloads: a start never  *)
(* replaces it, even when msgd was killed and rtapi_app lives on (the      *)
(* EEXIST checks of create_global_segment()), and the cleanup_actions() of *)
(* an earlier msgd never takes the name of a later one's segment.          *)
SessionKept ==
  [][(name # None /\ name' # name /\ InUse(name))
       => script = "rm" \/ (msgd[name] = "leave" /\ msgd'[name] = "gone")]_vars

(* Whoever ends first, the other follows: once msgd has marked the segment *)
(* exited, by a signal, a fault or after the grace period, every rtapi_app *)
(* attached to it ends, also one that was still starting and got no        *)
(* SIGTERM (s_handle_timer()); and when rtapi_app has taken back its pid,  *)
(* msgd ends unless another one registers (message_poll_cb()).             *)
WindsDown ==
  \A m \in Msgds :
    /\ glob[m].magic = "exited" ~> \A a \in Apps : at[a] = m => ~AppLive(a)
    /\ (msgd[m] = "loop" /\ glob[m].app = None)
         ~> (~MsgdLive(m) \/ glob[m].app # None)
=============================================================================

----------------------------- MODULE Supervisor -----------------------------
(***************************************************************************)
(* The supervision core of finit: the per-service state machine           *)
(* (service_step, service_retry, service_kill in src/src/service.c), the  *)
(* global state machine (sm_step in src/src/sm.c), the SIGCHLD reaper     *)
(* (service_monitor), the bootstrap timer (sm_check_bootstrap) and the    *)
(* start-up sequence of main() (src/finit.c), all run by one event loop.  *)
(*                                                                         *)
(* A callback runs to completion.  Inside one, the nested calls are        *)
(* micro-steps: service_step_all puts the services in `work`, one         *)
(* SvcStep is one pass of the switch of service_step (the `goto restart`  *)
(* loop keeps the service in `cur` while its state changes), `smPending`  *)
(* says that sm_step is to run (again) once the services are stepped,    *)
(* and `cont` is what the callback still does after that.  Events of the  *)
(* loop (reaping, timers, conditions, operator requests) only happen when *)
(* no callback is running (Idle).  Processes exit whenever they like.     *)
(***************************************************************************)
EXTENDS Integers

CONSTANTS
  Svc,          \* the registered services (svc_t records)
  Type,         \* Type[s] \in {"service", "task", "run"}  (svc->type)
  RL,           \* RL[s]: svc->runlevels, 0 stands for the bootstrap level S
  HasCond,      \* services declared with a <condition> list
  SigHup,       \* services that support SIGHUP (svc->sighup)
  Missing,      \* services whose command does not exist (fexist fails)
  Levels,       \* runlevels an operator may request (no 0/6: no shutdown)
  CfgLevel,     \* cfglevel, the configured default runlevel
  CmdLevel,     \* cmdlevel from the kernel command line, 0 if none
  RESPAWN_MAX,  \* service.c:45
  BootTimeout,  \* ticks of sm_check_bootstrap before it gives up (120)
  ForkCanFail,  \* whether fork() may return -1 (resource exhaustion)
  CounterCap    \* model bound on restart_counter, see ProcExit

ASSUME TypeAssumption == Type \in [Svc -> {"service", "task", "run"}]
ASSUME RLAssumption == RL \in [Svc -> SUBSET (0..9)]
ASSUME SetsAssumption == HasCond \subseteq Svc /\ SigHup \subseteq Svc
                         /\ Missing \subseteq Svc
ASSUME LevelAssumption == Levels \subseteq (1..9) \ {6} /\ CfgLevel \in Levels
                          /\ CmdLevel \in {0} \cup Levels
ASSUME BoundAssumption == RESPAWN_MAX \in Nat /\ BootTimeout \in Nat
                          /\ CounterCap \in Nat /\ CounterCap > RESPAWN_MAX
                          /\ ForkCanFail \in BOOLEAN

SvcStates == {"halted", "ready", "running", "waiting", "stopping", "done"}
GsmStates == {"bootstrap", "bootstrap_wait", "running",
              "runlevel_change", "runlevel_wait", "runlevel_clean",
              "reload_change", "reload_wait", "reload_clean"}
PidVals   == {"none", "proc", "bad"}   \* svc->pid: 0, a child, -1 (failed fork)
ProcVals  == {"none", "run", "stop", "zombie"}  \* the child in the kernel
Blocks    == {"none", "restarting", "crashing", "missing"}
Timers    == {"none", "retry", "kill"} \* svc->timer_cb
CondVals  == {"on", "off", "flux"}     \* cond_get_agg(svc->cond)
Conts     == {"none", "mainrl", "bootcheck", "prune"}

VARIABLES
  gsm, runlevel, prevlevel, newlevel, reload, teardown,  \* sm_t and globals
  state, pid, block, counter, timer, dirty,              \* svc_t fields
  reg,        \* the services still registered
  cond,       \* aggregate condition of each service
  proc,       \* each service's child process as the kernel sees it
  badkill,    \* kill() was called with a pid <= 0 (process group / all)
  work, cur, smPending, cont,                            \* the running callback
  bootArmed, bootLeft                                    \* sm_check_bootstrap

gsmVars  == <<gsm, runlevel, prevlevel, newlevel, reload, teardown>>
svcVars  == <<state, pid, block, counter, timer, dirty>>
loopVars == <<work, cur, smPending, cont, bootArmed, bootLeft>>
vars == <<gsmVars, svcVars, reg, cond, proc, badkill, loopVars>>

-----------------------------------------------------------------------------
(* Helpers of the per-service state machine.                               *)

\* service_enabled(): in the current runlevel, not removed, not blocked.
Enabled(s) == s \in reg /\ runlevel \in RL[s] /\ block[s] = "none"

\* svc_is_daemon()
Daemon(s) == Type[s] = "service"

\* What a signal does to a child in state x.
Deliver(sig, x) ==
  CASE sig = "STOP" -> IF x = "run" THEN "stop" ELSE x
    [] sig = "CONT" -> IF x = "stop" THEN "run" ELSE x
    [] sig = "KILL" -> IF x \in {"run", "stop"} THEN "zombie" ELSE x

\* kill(svc->pid, sig): a positive pid names the child; 0 is finit's own
\* process group and -1 every process, which both hold every child.
SendSig(s, sig) ==
  /\ proc' = IF pid[s] = "proc" THEN [proc EXCEPT ![s] = Deliver(sig, @)]
             ELSE [t \in Svc |-> Deliver(sig, proc[t])]
  /\ badkill' = (badkill \/ pid[s] # "proc")

\* Variant with a fault: the old timer is cancelled, no kill timer armed.
ToStopping_NoKillTimer(s) ==
  /\ state' = [state EXCEPT ![s] = "stopping"]
  /\ timer' = [timer EXCEPT ![s] = "none"]

\* svc_set_state(svc, STOPPING): cancel any timer, arm the 3 s kill timer.
ToStopping(s) ==
  /\ state' = [state EXCEPT ![s] = "stopping"]
  /\ timer' = [timer EXCEPT ![s] = "kill"]

SetState(s, new) == state' = [state EXCEPT ![s] = new]

\* The outcomes of service_start() that the environment decides: the
\* norespawn check, a failing run command and a failed fork.
Outcomes(s) ==
  {"ok"} \cup (IF counter[s] < CounterCap THEN {"norespawn"} ELSE {})
         \cup (IF Type[s] = "run" /\ counter[s] < CounterCap
               THEN {"exitfail"} ELSE {})
         \cup (IF ForkCanFail THEN {"forkfail"} ELSE {})

Bump(s) == counter' = [counter EXCEPT ![s] = @ + 1]

-----------------------------------------------------------------------------
(* service_start(): READY with the service enabled, its conditions on and  *)
(* no teardown.  On error the counter is bumped and the service stays      *)
(* READY; on success it is marked clean and goes RUNNING.                  *)

StartFailed(s) ==
  /\ Bump(s)
  /\ UNCHANGED <<state, pid, timer, dirty, proc, badkill>>

Started(s, p) ==
  /\ pid' = [pid EXCEPT ![s] = p]
  /\ dirty' = [dirty EXCEPT ![s] = FALSE]
  /\ SetState(s, "running")
  /\ UNCHANGED <<block, counter, timer, badkill>>

\* A run command is waited for in place: complete(svc->cmd, pid).  After a
\* failed fork that is waitpid(-1), which collects whatever child exits.
StartRun(s, o) ==
  \/ o = "ok" /\ Started(s, "none") /\ UNCHANGED proc
  \/ o = "exitfail" /\ StartFailed(s) /\ UNCHANGED block
  \/ /\ o = "forkfail"
     /\ \E t \in {u \in Svc : proc[u] \in {"run", "zombie"}} :
          /\ proc' = [proc EXCEPT ![t] = "none"]
          /\ \/ Started(s, "none")
             \/ /\ counter[s] < CounterCap
                /\ Bump(s)
                /\ UNCHANGED <<state, pid, block, timer, dirty, badkill>>
  \/ /\ o = "forkfail" /\ counter[s] < CounterCap
     /\ \A u \in Svc : proc[u] \notin {"run", "zombie"}
     /\ StartFailed(s) /\ UNCHANGED block

Start(s, o) ==
  \/ /\ s \in Missing                      \* svc_missing(svc)
     /\ block' = [block EXCEPT ![s] = "missing"]
     /\ StartFailed(s)
  \/ /\ s \notin Missing
     /\ \/ o = "norespawn" /\ StartFailed(s) /\ UNCHANGED block
        \/ /\ Type[s] # "run"
           /\ \/ o = "ok" /\ Started(s, "proc")
                 /\ proc' = [proc EXCEPT ![s] = "run"]
              \/ o = "forkfail" /\ Started(s, "bad") /\ UNCHANGED proc
        \/ Type[s] = "run" /\ StartRun(s, o)

-----------------------------------------------------------------------------
(* One pass of the switch in service_step(), by state.                     *)

HaltedPass(s) ==
  /\ state[s] = "halted"
  /\ SetState(s, IF Enabled(s) THEN "ready" ELSE "halted")
  /\ UNCHANGED <<pid, block, counter, timer, dirty, proc, badkill>>

DonePass(s) ==
  /\ state[s] = "done"
  /\ SetState(s, IF dirty[s] THEN "halted" ELSE "done")
  /\ UNCHANGED <<pid, block, counter, timer, dirty, proc, badkill>>

\* Variant with a fault: leaves STOPPING without checking svc->pid.
StoppingPass_NoPidCheck(s) ==
  /\ state[s] = "stopping"
  /\ SetState(s, IF Daemon(s) THEN "halted" ELSE "done")
  /\ timer' = [timer EXCEPT ![s] = "none"]
  /\ UNCHANGED <<pid, block, counter, dirty, proc, badkill>>

\* Collected: cancel the kill timer; daemons halt, one-shots are done.
StoppingPass(s) ==
  /\ state[s] = "stopping"
  /\ IF pid[s] = "none"
       THEN /\ SetState(s, IF Daemon(s) THEN "halted" ELSE "done")
            /\ timer' = [timer EXCEPT ![s] = "none"]
       ELSE UNCHANGED <<state, timer>>
  /\ UNCHANGED <<pid, block, counter, dirty, proc, badkill>>

ReadyPass(s, o) ==
  /\ state[s] = "ready"
  /\ \/ /\ ~Enabled(s)
        /\ SetState(s, "halted")
        /\ UNCHANGED <<pid, block, counter, timer, dirty, proc, badkill>>
     \/ /\ Enabled(s) /\ (cond[s] # "on" \/ teardown)
        /\ UNCHANGED <<state, pid, block, counter, timer, dirty, proc, badkill>>
     \/ Enabled(s) /\ cond[s] = "on" /\ ~teardown /\ Start(s, o)

\* service_restart(): SIGHUP, unless finit is told not to respawn or the
\* pid is not a child's (then svc->pid is zeroed).
Restart(s, o) ==
  /\ pid' = IF o # "norespawn" /\ pid[s] # "proc"
              THEN [pid EXCEPT ![s] = "none"] ELSE pid

RunningPass(s, o) ==
  /\ state[s] = "running"
  /\ \/ /\ ~Enabled(s)                               \* service_stop()
        /\ ToStopping(s)
        /\ UNCHANGED <<pid, block, counter, dirty, proc, badkill>>
     \/ /\ Enabled(s) /\ pid[s] = "none" /\ Daemon(s) \* crashed
        /\ block' = [block EXCEPT ![s] = "restarting"]
        /\ SetState(s, "halted")
        /\ timer' = IF timer[s] = "none" THEN [timer EXCEPT ![s] = "retry"]
                    ELSE timer                       \* -EBUSY
        /\ UNCHANGED <<pid, counter, dirty, proc, badkill>>
     \/ /\ Enabled(s) /\ ~(pid[s] = "none" /\ Daemon(s))
        /\ \/ /\ cond[s] = "off"
              /\ ToStopping(s)
              /\ UNCHANGED <<pid, block, counter, dirty, proc, badkill>>
           \/ /\ cond[s] = "flux"
              /\ SendSig(s, "STOP")
              /\ SetState(s, "waiting")
              /\ UNCHANGED <<pid, block, counter, timer, dirty>>
           \/ /\ cond[s] = "on" /\ (~dirty[s] \/ (s \in SigHup /\ teardown))
              /\ UNCHANGED <<state, pid, block, counter, timer, dirty,
                             proc, badkill>>
           \/ /\ cond[s] = "on" /\ dirty[s] /\ s \in SigHup /\ ~teardown
              /\ Restart(s, o)
              /\ dirty' = [dirty EXCEPT ![s] = FALSE]
              /\ UNCHANGED <<state, block, counter, timer, proc, badkill>>
           \/ /\ cond[s] = "on" /\ dirty[s] /\ s \notin SigHup
              /\ ToStopping(s)
              /\ dirty' = [dirty EXCEPT ![s] = FALSE]
              /\ UNCHANGED <<pid, block, counter, proc, badkill>>

\* Variant with a fault: a disabled WAITING service is stopped without the
\* SIGCONT, so its SIGSTOPped child is left frozen.
WaitingPass_NoCont(s) ==
  /\ state[s] = "waiting"
  /\ \/ /\ ~Enabled(s)
        /\ ToStopping(s)
        /\ UNCHANGED <<pid, block, counter, dirty, proc, badkill>>
     \/ /\ Enabled(s) /\ pid[s] = "none"
        /\ Bump(s)
        /\ SetState(s, "ready")
        /\ UNCHANGED <<pid, block, timer, dirty, proc, badkill>>
     \/ /\ Enabled(s) /\ pid[s] # "none" /\ cond[s] = "on"
        /\ SendSig(s, "CONT")
        /\ SetState(s, "running")
        /\ UNCHANGED <<pid, block, counter, timer, dirty>>
     \/ /\ Enabled(s) /\ pid[s] # "none" /\ cond[s] = "off"
        /\ SendSig(s, "CONT")
        /\ ToStopping(s)
        /\ UNCHANGED <<pid, block, counter, dirty>>
     \/ /\ Enabled(s) /\ pid[s] # "none" /\ cond[s] = "flux"
        /\ UNCHANGED <<state, pid, block, counter, timer, dirty, proc, badkill>>

\* Variant with a fault: the `if (!svc->pid)` test of WAITING is missing,
\* so a collected service is signalled through pid 0.
WaitingPass_NoPidCheck(s) ==
  /\ state[s] = "waiting"
  /\ \/ /\ ~Enabled(s)
        /\ SendSig(s, "CONT")
        /\ ToStopping(s)
        /\ UNCHANGED <<pid, block, counter, dirty>>
     \/ /\ Enabled(s) /\ cond[s] = "on"
        /\ SendSig(s, "CONT")
        /\ SetState(s, "running")
        /\ UNCHANGED <<pid, block, counter, timer, dirty>>
     \/ /\ Enabled(s) /\ cond[s] = "off"
        /\ SendSig(s, "CONT")
        /\ ToStopping(s)
        /\ UNCHANGED <<pid, block, counter, dirty>>
     \/ /\ Enabled(s) /\ cond[s] = "flux"
        /\ UNCHANGED <<state, pid, block, counter, timer, dirty, proc, badkill>>

WaitingPass(s) ==
  /\ state[s] = "waiting"
  /\ \/ /\ ~Enabled(s)                   \* SIGCONT, then service_stop()
        /\ SendSig(s, "CONT")
        /\ ToStopping(s)
        /\ UNCHANGED <<pid, block, counter, dirty>>
     \/ /\ Enabled(s) /\ pid[s] = "none"
        /\ Bump(s)
        /\ SetState(s, "ready")
        /\ UNCHANGED <<pid, block, timer, dirty, proc, badkill>>
     \/ /\ Enabled(s) /\ pid[s] # "none" /\ cond[s] = "on"
        /\ SendSig(s, "CONT")
        /\ SetState(s, "running")
        /\ UNCHANGED <<pid, block, counter, timer, dirty>>
     \/ /\ Enabled(s) /\ pid[s] # "none" /\ cond[s] = "off"
        /\ SendSig(s, "CONT")
        /\ ToStopping(s)
        /\ UNCHANGED <<pid, block, counter, dirty>>
     \/ /\ Enabled(s) /\ pid[s] # "none" /\ cond[s] = "flux"
        /\ UNCHANGED <<state, pid, block, counter, timer, dirty, proc, badkill>>

\* One pass for the service being stepped; `goto restart` while the state
\* changes, else the step of this service is over.
SvcStep(s) ==
  /\ s \in (IF cur = {} THEN work ELSE cur)
  /\ \E o \in Outcomes(s) :
       \/ HaltedPass(s) \/ DonePass(s) \/ StoppingPass(s)
       \/ ReadyPass(s, o) \/ RunningPass(s, o) \/ WaitingPass(s)
  /\ cur' = IF state'[s] # state[s] THEN {s} ELSE {}
  /\ work' = work \ {s}
  /\ UNCHANGED <<gsmVars, reg, cond, smPending, cont, bootArmed, bootLeft>>

-----------------------------------------------------------------------------
(* The global state machine: one case of the switch in sm_step() runs     *)
(* once the services it stepped are done.  A case that calls             *)
(* service_step_all() fills `work`; the assignments it makes after that   *)
(* call (sm->state, in_teardown in RUNLEVEL_WAIT) are not read by         *)
(* service_step, so they are made in the same step.  `goto restart` while *)
(* sm->state changes.                                                      *)

StepAll == work' = reg

\* svc_stop_completed(): some service is STOPPING with a live pid.
StopPending == \E s \in reg : state[s] = "stopping" /\ pid[s] = "proc"

\* conf_reload(): the .conf files that changed on disk mark their services.
ConfReload == \E D \in SUBSET reg : dirty' = [s \in Svc |-> dirty[s] \/ s \in D]

\* cond_reload(): every asserted condition goes into flux.
CondReload ==
  cond' = [s \in Svc |-> IF s \in HasCond /\ cond[s] = "on" THEN "flux"
                                                           ELSE cond[s]]

\* One operator per case of sm_step()'s switch.
GsmBootstrap ==
  /\ gsm = "bootstrap"
  /\ StepAll /\ gsm' = "bootstrap_wait"
  /\ UNCHANGED <<runlevel, prevlevel, newlevel, reload, teardown, dirty, cond>>

GsmBootstrapWait ==
  /\ gsm = "bootstrap_wait"
  /\ StepAll
  /\ gsm' = IF newlevel = -1 THEN gsm ELSE "running"
  /\ UNCHANGED <<runlevel, prevlevel, newlevel, reload, teardown, dirty, cond>>

\* Variant with a fault: a request for the current runlevel is not
\* recognised and starts a runlevel change.
GsmRunning_NoLevelTest ==
  /\ gsm = "running"
  /\ StepAll
  /\ IF newlevel \in 0..9
       THEN gsm' = "runlevel_change" /\ UNCHANGED <<newlevel, reload>>
       ELSE IF reload
              THEN reload' = FALSE /\ gsm' = "reload_change"
                   /\ UNCHANGED newlevel
              ELSE UNCHANGED <<gsm, newlevel, reload>>
  /\ UNCHANGED <<runlevel, prevlevel, teardown, dirty, cond>>

GsmRunning ==
  /\ gsm = "running"
  /\ StepAll
  /\ IF newlevel \in 0..9
       THEN IF runlevel = newlevel
              THEN newlevel' = -1 /\ UNCHANGED <<gsm, reload>>
              ELSE gsm' = "runlevel_change" /\ UNCHANGED <<newlevel, reload>>
       ELSE IF reload
              THEN reload' = FALSE /\ gsm' = "reload_change"
                   /\ UNCHANGED newlevel
              ELSE UNCHANGED <<gsm, newlevel, reload>>
  /\ UNCHANGED <<runlevel, prevlevel, teardown, dirty, cond>>

GsmRunlevelChange ==
  /\ gsm = "runlevel_change"
  /\ prevlevel' = runlevel /\ runlevel' = newlevel /\ newlevel' = -1
  /\ ConfReload                 \* newlevel is never 0 or 6 here
  /\ teardown' = TRUE /\ StepAll /\ gsm' = "runlevel_wait"
  /\ UNCHANGED <<reload, cond>>

\* The RUNLEVEL_WAIT and RELOAD_WAIT cases: stay while svc_stop_completed()
\* finds a service still to be collected, else end the teardown and step
\* every service again.
StopWait(next) ==
  /\ IF StopPending
       THEN UNCHANGED <<gsm, teardown, work>>
       ELSE teardown' = FALSE /\ StepAll /\ gsm' = next
  /\ UNCHANGED <<runlevel, prevlevel, newlevel, reload, dirty, cond>>

\* Bug model: leave RUNLEVEL_WAIT without asking svc_stop_completed().
GsmRunlevelWait_NoCheck ==
  /\ gsm = "runlevel_wait"
  /\ teardown' = FALSE /\ StepAll /\ gsm' = "runlevel_clean"
  /\ UNCHANGED <<runlevel, prevlevel, newlevel, reload, dirty, cond>>

GsmRunlevelWait == gsm = "runlevel_wait" /\ StopWait("runlevel_clean")

GsmReloadWait == gsm = "reload_wait" /\ StopWait("reload_clean")

\* The CLEAN cases: no post:/cleanup: scripts and no REMOVED records are
\* modelled, so svc_clean_completed() finds nothing and the case ends in
\* RUNNING (runlevels 0 and 6 are not among Levels).
GsmRunlevelClean ==
  /\ gsm = "runlevel_clean"
  /\ gsm' = "running"
  /\ UNCHANGED <<runlevel, prevlevel, newlevel, reload, teardown, dirty,
                 cond, work>>

GsmReloadClean ==
  /\ gsm = "reload_clean"
  /\ gsm' = "running"
  /\ UNCHANGED <<runlevel, prevlevel, newlevel, reload, teardown, dirty,
                 cond, work>>

GsmReloadChange ==
  /\ gsm = "reload_change"
  /\ ConfReload /\ teardown' = TRUE /\ CondReload /\ StepAll
  /\ gsm' = "reload_wait"
  /\ UNCHANGED <<runlevel, prevlevel, newlevel, reload>>

GsmCase ==
  \/ GsmBootstrap \/ GsmBootstrapWait \/ GsmRunning \/ GsmRunlevelChange
  \/ GsmRunlevelWait \/ GsmRunlevelClean \/ GsmReloadChange \/ GsmReloadWait
  \/ GsmReloadClean

GsmStep ==
  /\ work = {} /\ cur = {} /\ smPending
  /\ GsmCase
  /\ smPending' = (gsm' # gsm)
  /\ UNCHANGED <<state, pid, block, counter, timer, reg, proc, badkill,
                 cur, cont, bootArmed, bootLeft>>

-----------------------------------------------------------------------------
(* What the running callback does after sm_step has returned.              *)

AfterSm == work = {} /\ cur = {} /\ ~smPending

\* main(): service_runlevel(cfglevel) once its first sm_step has returned.
MainRunlevel ==
  /\ AfterSm /\ cont = "mainrl"
  /\ newlevel' = CfgLevel /\ smPending' = TRUE /\ cont' = "none"
  /\ UNCHANGED <<gsm, runlevel, prevlevel, reload, teardown, svcVars, reg,
                 cond, proc, badkill, work, cur, bootArmed, bootLeft>>

\* service_completed(): every bootstrap run/task has been collected.
BootstrapDone ==
  \A s \in reg : Type[s] \in {"task", "run"} /\ 0 \in RL[s]
                   => pid[s] = "none" /\ state[s] # "ready"

\* Variant with a fault: cmdlevel is used without the `if (cmdlevel)` test.
BootCheck_NoCmdTest ==
  /\ AfterSm /\ cont = "bootcheck"
  /\ bootLeft' = bootLeft - 1
  /\ IF bootLeft > 0 /\ ~BootstrapDone
       THEN bootArmed' = TRUE /\ cont' = "none"
            /\ UNCHANGED <<newlevel, smPending>>
       ELSE /\ newlevel' = CmdLevel
            /\ smPending' = TRUE /\ cont' = "prune" /\ UNCHANGED bootArmed
  /\ UNCHANGED <<gsm, runlevel, prevlevel, reload, teardown, svcVars, reg,
                 cond, proc, badkill, work, cur>>

\* The rest of sm_check_bootstrap() after its service_step_all().
BootCheck ==
  /\ AfterSm /\ cont = "bootcheck"
  /\ bootLeft' = bootLeft - 1
  /\ IF bootLeft > 0 /\ ~BootstrapDone
       THEN bootArmed' = TRUE /\ cont' = "none"      \* schedule_work()
            /\ UNCHANGED <<newlevel, smPending>>
       ELSE /\ newlevel' = IF CmdLevel # 0 THEN CmdLevel ELSE CfgLevel
            /\ smPending' = TRUE /\ cont' = "prune" /\ UNCHANGED bootArmed
  /\ UNCHANGED <<gsm, runlevel, prevlevel, reload, teardown, svcVars, reg,
                 cond, proc, badkill, work, cur>>

\* svc_prune_bootstrap(): drop the bootstrap-only services never started.
Prune ==
  /\ AfterSm /\ cont = "prune"
  /\ reg' = reg \ {s \in reg : RL[s] = {0} /\ state[s] = "halted"}
  /\ cont' = "none"
  /\ UNCHANGED <<gsmVars, svcVars, cond, proc, badkill, work, cur,
                 smPending, bootArmed, bootLeft>>

-----------------------------------------------------------------------------
(* Events of the loop: they start a callback when none is running.        *)

Idle == AfterSm /\ cont = "none"

\* svc_clean_bootstrap(): a collected bootstrap-only run/task is dropped.
CleanBootstrap(s) == Type[s] \in {"task", "run"} /\ RL[s] = {0}

\* Variant with a fault: the collected service is stepped, but sm_step()
\* is not called after it.
Reap_NoSmStep(s) ==
  /\ Idle /\ proc[s] = "zombie" /\ s \in reg /\ pid[s] = "proc"
  /\ proc' = [proc EXCEPT ![s] = "none"]
  /\ IF prevlevel = 0 /\ CleanBootstrap(s)
       THEN /\ reg' = reg \ {s}
            /\ timer' = [timer EXCEPT ![s] = "none"]
            /\ UNCHANGED <<pid, work>>
       ELSE /\ pid' = [pid EXCEPT ![s] = "none"]
            /\ work' = {s}
            /\ UNCHANGED <<reg, timer>>
  /\ UNCHANGED <<gsmVars, state, block, counter, dirty, cond, badkill,
                 cur, cont, bootArmed, bootLeft, smPending>>

\* SIGCHLD: service_monitor(lost) for a collected child.  Every child is
\* found by svc_find_by_pid() (TrackedProcess), so the unknown-PID return
\* is not reached.
Reap(s) ==
  /\ Idle /\ proc[s] = "zombie" /\ s \in reg /\ pid[s] = "proc"
  /\ proc' = [proc EXCEPT ![s] = "none"]
  /\ IF prevlevel = 0 /\ CleanBootstrap(s)
       THEN /\ reg' = reg \ {s}
            /\ timer' = [timer EXCEPT ![s] = "none"]
            /\ UNCHANGED <<pid, work, smPending>>
       ELSE /\ pid' = [pid EXCEPT ![s] = "none"]
            /\ work' = {s} /\ smPending' = TRUE
            /\ UNCHANGED <<reg, timer>>
  /\ UNCHANGED <<gsmVars, state, block, counter, dirty, cond, badkill,
                 cur, cont, bootArmed, bootLeft>>

\* service_kill(): the 3 s kill timer expired.
KillTimer(s) ==
  /\ Idle /\ s \in reg /\ timer[s] = "kill"
  /\ timer' = [timer EXCEPT ![s] = "none"]
  /\ SendSig(s, "KILL")
  /\ UNCHANGED <<gsmVars, state, pid, block, counter, dirty, reg, cond,
                 loopVars>>

\* Variant with a fault: at RESPAWN_MAX the service is not marked crashing.
RetryTimer_NoCrash(s) ==
  /\ Idle /\ s \in reg /\ timer[s] = "retry"
  /\ \/ /\ state[s] # "halted" \/ block[s] # "restarting"
        /\ counter' = [counter EXCEPT ![s] = 0]
        /\ timer' = [timer EXCEPT ![s] = "none"]
        /\ UNCHANGED <<block, work>>
     \/ /\ state[s] = "halted" /\ block[s] = "restarting"
        /\ counter[s] >= RESPAWN_MAX
        /\ counter' = [counter EXCEPT ![s] = 0]
        /\ timer' = [timer EXCEPT ![s] = "none"]
        /\ work' = {s} /\ UNCHANGED block
     \/ /\ state[s] = "halted" /\ block[s] = "restarting"
        /\ counter[s] < RESPAWN_MAX
        /\ Bump(s)
        /\ block' = [block EXCEPT ![s] = "none"]
        /\ timer' = [timer EXCEPT ![s] = "retry"]
        /\ work' = {s}
  /\ UNCHANGED <<gsmVars, state, pid, dirty, reg, cond, proc, badkill,
                 cur, smPending, cont, bootArmed, bootLeft>>

\* service_retry().  The timer it re-arms at its end is armed here: the
\* service_step it calls on a HALTED, unblocked daemon never touches the
\* timer (it never reaches STOPPING nor the crash branch).
RetryTimer(s) ==
  /\ Idle /\ s \in reg /\ timer[s] = "retry"
  /\ \/ /\ state[s] # "halted" \/ block[s] # "restarting"
        /\ counter' = [counter EXCEPT ![s] = 0]
        /\ timer' = [timer EXCEPT ![s] = "none"]
        /\ UNCHANGED <<block, work>>
     \/ /\ state[s] = "halted" /\ block[s] = "restarting"
        /\ counter[s] >= RESPAWN_MAX
        /\ block' = [block EXCEPT ![s] = "crashing"]
        /\ counter' = [counter EXCEPT ![s] = 0]
        /\ timer' = [timer EXCEPT ![s] = "none"]
        /\ work' = {s}
     \/ /\ state[s] = "halted" /\ block[s] = "restarting"
        /\ counter[s] < RESPAWN_MAX
        /\ Bump(s)
        /\ block' = [block EXCEPT ![s] = "none"]
        /\ timer' = [timer EXCEPT ![s] = "retry"]
        /\ work' = {s}
  /\ UNCHANGED <<gsmVars, state, pid, dirty, reg, cond, proc, badkill,
                 cur, smPending, cont, bootArmed, bootLeft>>

\* sm_check_bootstrap() fires: it first steps every service.
BootTimer ==
  /\ Idle /\ bootArmed
  /\ bootArmed' = FALSE /\ StepAll /\ cont' = "bootcheck"
  /\ UNCHANGED <<gsmVars, svcVars, reg, cond, proc, badkill, cur,
                 smPending, bootLeft>>

\* A condition producer changes a service's aggregate: step all services.
CondChange(s, v) ==
  /\ Idle /\ s \in HasCond /\ cond[s] # v /\ counter[s] < CounterCap
  /\ cond' = [cond EXCEPT ![s] = v]
  /\ StepAll
  /\ UNCHANGED <<gsmVars, svcVars, reg, proc, badkill, cur, smPending, cont,
                 bootArmed, bootLeft>>

\* service_runlevel(): initctl, /dev/initctl or a signal asks for a level.
RequestRunlevel(l) ==
  /\ Idle
  /\ newlevel' = l /\ smPending' = TRUE
  /\ UNCHANGED <<gsm, runlevel, prevlevel, reload, teardown, svcVars, reg,
                 cond, proc, badkill, work, cur, cont, bootArmed, bootLeft>>

\* service_reload_dynamic(): SIGHUP or initctl reload.
RequestReload ==
  /\ Idle
  /\ reload' = TRUE /\ smPending' = TRUE
  /\ UNCHANGED <<gsm, runlevel, prevlevel, newlevel, teardown, svcVars, reg,
                 cond, proc, badkill, work, cur, cont, bootArmed, bootLeft>>

\* A running child exits (crash, normal end, or after SIGTERM/SIGHUP).
\* Bounded so that restart_counter stays below CounterCap.
ProcExit(s) ==
  /\ proc[s] = "run" /\ counter[s] < CounterCap
  /\ proc' = [proc EXCEPT ![s] = "zombie"]
  /\ UNCHANGED <<gsmVars, svcVars, reg, cond, badkill, loopVars>>

-----------------------------------------------------------------------------

\* State after sm_init(); main() then calls sm_step() and service_runlevel().
Init ==
  /\ gsm = "bootstrap" /\ runlevel = 0 /\ prevlevel = -1 /\ newlevel = -1
  /\ reload = FALSE /\ teardown = FALSE
  /\ state = [s \in Svc |-> "halted"] /\ pid = [s \in Svc |-> "none"]
  /\ block = [s \in Svc |-> "none"] /\ counter = [s \in Svc |-> 0]
  /\ timer = [s \in Svc |-> "none"] /\ dirty = [s \in Svc |-> FALSE]
  /\ reg = Svc
  /\ cond = [s \in Svc |-> IF s \in HasCond THEN "off" ELSE "on"]
  /\ proc = [s \in Svc |-> "none"] /\ badkill = FALSE
  /\ work = {} /\ cur = {} /\ smPending = TRUE /\ cont = "mainrl"
  /\ bootArmed = TRUE /\ bootLeft = BootTimeout

Next ==
  \/ \E s \in Svc : SvcStep(s)
  \/ GsmStep \/ MainRunlevel \/ BootCheck \/ Prune
  \/ \E s \in Svc : Reap(s) \/ KillTimer(s) \/ RetryTimer(s) \/ ProcExit(s)
  \/ BootTimer
  \/ \E s \in Svc, v \in CondVals : CondChange(s, v)
  \/ \E l \in Levels : RequestRunlevel(l)
  \/ RequestReload

Spec == Init /\ [][Next]_vars

\* The steps of the running callback: at most one of them is enabled at a
\* time (SvcStep needs work, GsmStep an empty work and smPending, the rest
\* neither and a `cont`), and one stays enabled until the callback ends.
Callback ==
  \/ \E s \in Svc : SvcStep(s)
  \/ GsmStep \/ MainRunlevel \/ BootCheck \/ Prune

\* The scheduling the code justifies.  A callback runs to completion, so
\* its steps are weakly fair.  A child to reap, an expired timer and the
\* scheduled bootstrap check are events libuev dispatches whenever the loop
\* is idle; the loop is idle again after every callback, so each of them is
\* strongly fair.  Processes, condition producers and operators owe
\* nothing: ProcExit, CondChange and the requests have no fairness.
Fairness ==
  /\ WF_vars(Callback)
  /\ \A s \in Svc : SF_vars(Reap(s)) /\ SF_vars(KillTimer(s))
                   /\ SF_vars(RetryTimer(s))
  /\ SF_vars(BootTimer)

FairSpec == Spec /\ Fairness

-----------------------------------------------------------------------------
(* Properties.                                                             *)

TypeOK ==
  /\ gsm \in GsmStates /\ runlevel \in 0..9 /\ prevlevel \in -1..9
  /\ newlevel \in {-1} \cup Levels /\ reload \in BOOLEAN
  /\ teardown \in BOOLEAN
  /\ state \in [Svc -> SvcStates] /\ pid \in [Svc -> PidVals]
  /\ block \in [Svc -> Blocks] /\ counter \in [Svc -> Nat]
  /\ timer \in [Svc -> Timers] /\ dirty \in [Svc -> BOOLEAN]
  /\ reg \subseteq Svc /\ cond \in [Svc -> CondVals]
  /\ proc \in [Svc -> ProcVals] /\ badkill \in BOOLEAN
  /\ work \subseteq Svc /\ cur \in {{}} \cup {{s} : s \in Svc}
  /\ smPending \in BOOLEAN /\ cont \in Conts
  /\ bootArmed \in BOOLEAN /\ bootLeft \in Int

\* Every child of a service, alive, SIGSTOPped or exited and not yet
\* collected, is known to finit: its service is still registered, holds
\* its pid and is in a state whose handler watches it (RUNNING, WAITING
\* or STOPPING).  Otherwise service_monitor() could not find it on
\* SIGCHLD and no timer would ever stop it.
TrackedProcess ==
  \A s \in Svc : proc[s] # "none" =>
     /\ s \in reg /\ pid[s] = "proc"
     /\ state[s] \in {"running", "waiting", "stopping"}

\* The SIGKILL escalation of svc_set_state(): a kill timer is only armed
\* for a STOPPING service, and a STOPPING service whose child is still
\* alive always has one, so a child that ignores SIGTERM is killed.
StopEscalation ==
  \A s \in reg :
     /\ timer[s] = "kill" => state[s] = "stopping"
     /\ state[s] = "stopping" /\ proc[s] \in {"run", "stop"}
          => timer[s] = "kill"

\* Only a WAITING service's child is ever left SIGSTOPped: every way out
\* of WAITING in service_step() sends SIGCONT first.
StoppedOnlyWaiting ==
  \A s \in Svc : proc[s] = "stop" => state[s] = "waiting"

\* Outside RUNLEVEL_WAIT, whose job is to wait for them, no child of a
\* service that is not allowed in the current runlevel is alive: sm_step()
\* does not leave the WAIT state before svc_stop_completed() finds none.
RunlevelRespected ==
  gsm # "runlevel_wait" =>
     \A s \in Svc : proc[s] \in {"run", "stop"} => runlevel \in RL[s]

\* A service that service_step() marked as restarting after a crash is
\* HALTED with a retry timer pending, so service_retry() will either
\* restart it or declare it crashing; it is never left blocked for good.
RestartingHasRetry ==
  \A s \in reg : block[s] = "restarting" =>
     state[s] = "halted" /\ timer[s] = "retry"

\* kill() is never called with a pid <= 0 (finit's process group or every
\* process), from service_kill(), the SIGSTOP/SIGCONT of conditions or the
\* restart path.
NoGroupKill == ~badkill

\* The pid finit holds for a registered service names a child that has not
\* been collected behind service_monitor()'s back: the waitpid() of a run
\* command collects only that command's child.
ChildNotStolen ==
  \A s \in reg : pid[s] = "proc" => proc[s] # "none"

\* spec.md 8 (respawn budget): restart_counter counts consecutive failed
\* starts and never goes past RESPAWN_MAX; service_retry() marks the
\* service CRASHING and resets it there.  A failed service_start() in READY
\* (a run command that fails, norespawn, a missing binary) counts as well.
RespawnBudget == \A s \in reg : counter[s] <= RESPAWN_MAX

\* spec.md 7: a runlevel change terminates.  Once sm_step() enters
\* RUNLEVEL_CHANGE, the GSM is back in RUNNING after the stopped children
\* have been reaped: service_monitor() calls sm_step() on every collection,
\* and RUNLEVEL_WAIT leaves once svc_stop_completed() finds nothing.
RunlevelChangeTerminates == gsm = "runlevel_change" ~> gsm = "running"

\* A service that svc_set_state() moved to STOPPING is eventually collected
\* and leaves STOPPING (or is dropped from the registry): the SIGKILL of
\* the kill timer ends a child that ignores SIGTERM.
StopCompletes ==
  \A s \in Svc : (s \in reg /\ state[s] = "stopping")
                  ~> (s \notin reg \/ state[s] # "stopping")

-----------------------------------------------------------------------------
(* Refinement of the abstract global state machine of GsmAbstract.       *)

\* The phase of spec.md 4.2 that each state of sm_step() belongs to.
Phase ==
  CASE gsm \in {"bootstrap", "bootstrap_wait"} -> "boot"
    [] gsm = "running" -> "running"
    [] gsm = "runlevel_change" -> "change"
    [] gsm \in {"runlevel_wait", "runlevel_clean"} -> "teardown"
    [] gsm \in {"reload_change", "reload_wait", "reload_clean"} -> "reload"

GsmAbs == INSTANCE GsmAbstract WITH phase <- Phase, level <- runlevel

\* sm_step() implements the abstract global state machine: the runlevel
\* only changes in RUNLEVEL_CHANGE, to a level other than the current one
\* (sm_step()'s `runlevel == sm->newlevel` test in RUNNING), a reload
\* keeps it, and every cycle passes through RUNNING.
ImplementsGsmAbstract == GsmAbs!ASpec

=============================================================================

---------------------------- MODULE GroupKillProofs ----------------------------
(* Proofs that service_step() and service_kill() signal only a service's   *)
(* own child, so that kill() never receives a pid <= 0 and only a WAITING  *)
(* service's child is ever left SIGSTOPped.                                 *)
(*                                                                         *)
(* Neither holds for every configuration, and TLC shows both ways it       *)
(* fails: a failed fork() leaves svc->pid = -1, which the kill timer hands *)
(* to kill() (service.c:302), and a task with a condition is still         *)
(* RUNNING with pid 0 after it is collected, so a condition in flux sends  *)
(* it kill(0, SIGSTOP) (service.c:899).  The theorems are stated for the   *)
(* configurations without these two: fork() does not fail, and only       *)
(* daemons declare conditions.                                              *)
EXTENDS TrackedProofs

\* Only daemons (type service) are declared with a <condition> list.
DaemonConds == \A s \in HasCond : Daemon(s)

\* What each service satisfies under these two hypotheses:
\*  - svc->pid is never -1;
\*  - only a service with a condition list has a condition not "on";
\*  - a STOPPING service whose child was collected is still being stepped
\*    (service_monitor() stepped it: it leaves STOPPING in that step);
\*  - a WAITING service whose child was collected is being stepped and
\*    enabled, so service_step() moves it to READY without a SIGCONT;
\*  - a WAITING service that is not enabled is being stepped (by the
\*    service_step_all() that follows a runlevel change).
Safe(t) ==
  /\ pid[t] # "bad"
  /\ cond[t] # "on" => t \in HasCond
  /\ t \in reg /\ state[t] = "stopping" /\ pid[t] = "none" => t \in work \cup cur
  /\ t \in reg /\ state[t] = "waiting" /\ pid[t] = "none"
       => t \in work \cup cur /\ Enabled(t)
  /\ t \in reg /\ state[t] = "waiting" /\ ~Enabled(t) => t \in work \cup cur

\* StoppedOnlyWaiting for one service.
StopAt(t) == proc[t] = "stop" => state[t] = "waiting"

\* Only registered services are stepped.
WorkReg == work \subseteq reg /\ cur \subseteq reg

GKInv ==
  /\ RetryInv /\ TrackedProcess /\ WorkReg
  /\ \A t \in Svc : Safe(t) /\ StopAt(t)
  /\ NoGroupKill

\* Without fork failures, service_start() ends in one of three outcomes.
LEMMA OutcomesNoFork ==
  ASSUME ~ForkCanFail, NEW s \in Svc, NEW o \in Outcomes(s)
  PROVE  o \in {"ok", "norespawn", "exitfail"}
BY DEF Outcomes

\* A pass of service_step() changes no other service's pid.
LEMMA PassPidFrame ==
  ASSUME DataOK, NEW s \in Svc, NEW o, NEW t \in Svc, t # s,
         \/ HaltedPass(s) \/ DonePass(s) \/ StoppingPass(s)
         \/ ReadyPass(s, o) \/ RunningPass(s, o) \/ WaitingPass(s)
  PROVE  pid'[t] = pid[t]
BY DEF HaltedPass, DonePass, StoppingPass, ReadyPass, RunningPass,
       WaitingPass, Start, StartRun, StartFailed, Started, Restart, DataOK

\* Under the hypotheses, a pass of service_step() signals only the child
\* of the service it steps: the SIGSTOP of a condition in flux and the
\* SIGCONTs of WAITING all see a positive svc->pid.
LEMMA PassOwn ==
  ASSUME DataOK, badkill \in BOOLEAN, ~ForkCanFail, DaemonConds, NEW s \in Svc, s \in reg,
         NEW o \in Outcomes(s), Safe(s),
         \/ HaltedPass(s) \/ DonePass(s) \/ StoppingPass(s)
         \/ ReadyPass(s, o) \/ RunningPass(s, o) \/ WaitingPass(s)
  PROVE  badkill' = badkill /\ \A t \in Svc \ {s} : proc'[t] = proc[t]
<1>0. o \in {"ok", "norespawn", "exitfail"}  BY OutcomesNoFork
<1>1. CASE HaltedPass(s) \/ DonePass(s) \/ StoppingPass(s)
  BY <1>1 DEF HaltedPass, DonePass, StoppingPass
<1>2. CASE ReadyPass(s, o)
  BY <1>0, <1>2 DEF ReadyPass, Start, StartRun, StartFailed, Started, DataOK
<1>3. CASE RunningPass(s, o)
  \* A condition in flux belongs to a daemon, which is in the crash
  \* branch when its pid is 0: the SIGSTOP goes to a positive pid.
  <2>1. cond[s] = "flux" /\ Enabled(s) /\ ~(pid[s] = "none" /\ Daemon(s))
        => pid[s] = "proc"
    BY DEF Safe, DaemonConds, PidVals, DataOK
  <2>2. CASE SendSig(s, "STOP")
    BY <1>3, <2>1, <2>2 DEF RunningPass, SendSig, DataOK
  <2>3. CASE ~SendSig(s, "STOP")
    BY <1>3, <2>3 DEF RunningPass, Restart, ToStopping
  <2>. QED  BY <2>2, <2>3
<1>4. CASE WaitingPass(s)
  \* A disabled WAITING service has not been collected.
  <2>1. ~Enabled(s) => pid[s] # "none"  BY <1>4 DEF Safe, WaitingPass
  <2>2. pid[s] # "none" => pid[s] = "proc"  BY DEF Safe, PidVals, DataOK
  <2>3. CASE pid[s] = "none"
    BY <1>4, <2>1, <2>3 DEF WaitingPass
  <2>4. CASE pid[s] # "none"
    BY <1>4, <2>2, <2>4 DEF WaitingPass, SendSig, ToStopping, SetState, DataOK
  <2>. QED  BY <2>3, <2>4
<1>. QED  BY <1>1, <1>2, <1>3, <1>4

\* Under the hypotheses, a pass of service_step() of s keeps the
\* per-service facts of s, given that it runs inside a step that changes
\* no registration, runlevel or condition.
LEMMA PassSafe ==
  ASSUME DataOK, ~ForkCanFail, DaemonConds, NEW s \in Svc, s \in reg,
         NEW o \in Outcomes(s), Safe(s), StopAt(s), Tracked(s),
         reg' = reg, runlevel' = runlevel,
         \/ HaltedPass(s) \/ DonePass(s) \/ StoppingPass(s)
         \/ ReadyPass(s, o) \/ RunningPass(s, o) \/ WaitingPass(s)
  PROVE  /\ pid'[s] # "bad"
         /\ state'[s] = "waiting" => pid'[s] # "none" /\ Enabled(s)'
         /\ state'[s] = "stopping" /\ pid'[s] = "none" => state[s] # "stopping"
         /\ StopAt(s)'
<1>0. o \in {"ok", "norespawn", "exitfail"}  BY OutcomesNoFork
<1>1. CASE HaltedPass(s) \/ DonePass(s)
  BY <1>1 DEF HaltedPass, DonePass, SetState, Safe, StopAt, DataOK
<1>2. CASE StoppingPass(s)
  BY <1>2 DEF StoppingPass, SetState, Safe, StopAt, DataOK
<1>3. CASE ReadyPass(s, o)
  <2>1. proc[s] = "none"  BY <1>3 DEF ReadyPass, Tracked, Live
  <2>. QED
    BY <1>0, <1>3, <2>1 DEF ReadyPass, Start, StartRun, StartFailed,
                            Started, SetState, Bump, Safe, StopAt, DataOK
<1>4. CASE RunningPass(s, o)
  <2>1. proc[s] # "stop"  BY <1>4 DEF RunningPass, StopAt
  <2>2. cond[s] = "flux" /\ Enabled(s) /\ ~(pid[s] = "none" /\ Daemon(s))
        => pid[s] = "proc"
    BY DEF Safe, DaemonConds, PidVals, DataOK
  <2>. QED
    BY <1>4, <2>1, <2>2 DEF RunningPass, Restart, ToStopping, SetState,
                            SendSig, Deliver, Enabled, Safe, StopAt, DataOK
<1>5. CASE WaitingPass(s)
  <2>1. pid[s] = "none" => proc[s] = "none"  BY DEF Tracked
  <2>2. ~Enabled(s) => pid[s] # "none"  BY <1>5 DEF Safe, WaitingPass
  <2>3. pid[s] # "none" => pid[s] = "proc"  BY DEF Safe, PidVals, DataOK
  <2>. QED
    BY <1>5, <2>1, <2>2, <2>3 DEF WaitingPass, ToStopping, SetState, Bump,
                                  SendSig, Deliver, Enabled, Safe, StopAt,
                                  DataOK
<1>. QED  BY <1>1, <1>2, <1>3, <1>4, <1>5

\* The hypotheses of the step lemmas: the invariant, split as the provers
\* need it.
GKHyp ==
  /\ DataOK /\ badkill \in BOOLEAN /\ ~ForkCanFail /\ DaemonConds
  /\ KillOnlyStopping /\ TrackedProcess /\ WorkReg
  /\ \A t \in Svc : Safe(t) /\ StopAt(t)
  /\ ~badkill

\* What GKInv asks of a step, besides the types and the earlier invariants.
GKStep ==
  WorkReg' /\ ~badkill' /\ \A t \in Svc : Safe(t)' /\ StopAt(t)'

\* A step of service_step() keeps the invariant.
LEMMA GKSvcStep ==
  ASSUME GKHyp, NEW s \in Svc, SvcStep(s)
  PROVE  GKStep
<1>0. s \in reg  BY DEF SvcStep, WorkReg, GKHyp
<1>. PICK o \in Outcomes(s) :
       \/ HaltedPass(s) \/ DonePass(s) \/ StoppingPass(s)
       \/ ReadyPass(s, o) \/ RunningPass(s, o) \/ WaitingPass(s)
  BY DEF SvcStep
<1>1. /\ reg' = reg /\ runlevel' = runlevel /\ cond' = cond
      /\ work' = work \ {s} /\ cur' = IF state'[s] # state[s] THEN {s} ELSE {}
  BY DEF SvcStep, gsmVars
<1>2. badkill' = badkill /\ \A t \in Svc \ {s} : proc'[t] = proc[t]
  BY <1>0, PassOwn DEF GKHyp
<1>3. /\ pid'[s] # "bad"
      /\ state'[s] = "waiting" => pid'[s] # "none" /\ Enabled(s)'
      /\ state'[s] = "stopping" /\ pid'[s] = "none" => state[s] # "stopping"
      /\ StopAt(s)'
  BY <1>0, <1>1, PassSafe, TrackedAll DEF GKHyp
<1>4. WorkReg'  BY <1>0, <1>1 DEF WorkReg, GKHyp
<1>5. ~badkill'  BY <1>2 DEF GKHyp
<1>6. ASSUME NEW t \in Svc PROVE Safe(t)' /\ StopAt(t)'
  <2>1. CASE t = s
    <3>1. state'[s] = "stopping" /\ pid'[s] = "none" => s \in cur'
      BY <1>1, <1>3
    <3>2. cond'[s] # "on" => s \in HasCond  BY <1>1 DEF GKHyp, Safe
    <3>. QED  BY <2>1, <1>3, <3>1, <3>2 DEF Safe
  <2>2. CASE t # s
    <3>1. state'[t] = state[t] /\ block'[t] = block[t] /\ pid'[t] = pid[t]
          /\ proc'[t] = proc[t]
      BY <1>2, <2>2, PassFrame, PassPidFrame DEF GKHyp
    <3>2. Enabled(t)' = Enabled(t)  BY <1>1, <3>1 DEF Enabled
    <3>3. t \in work \cup cur => t \in work' \cup cur'
      BY <1>1, <2>2 DEF SvcStep, GKHyp, DataOK
    <3>4. Safe(t) /\ StopAt(t)  BY DEF GKHyp
    <3>. QED  BY <1>1, <3>1, <3>2, <3>3, <3>4 DEF Safe, StopAt
  <2>. QED  BY <2>1, <2>2
<1>. QED  BY <1>4, <1>5, <1>6 DEF GKStep

\* A case of sm_step() keeps the invariant: it changes no service record
\* nor child, and a runlevel change puts every service into work.
LEMMA GKGsmStep ==
  ASSUME GKHyp, GsmStep
  PROVE  GKStep
<1>0. /\ work = {} /\ cur = {} /\ cur' = {}
      /\ state' = state /\ pid' = pid /\ block' = block /\ reg' = reg
      /\ proc' = proc /\ badkill' = badkill
  BY DEF GsmStep
<1>1. work' = reg \/ work' = work
  BY DEF GsmStep, GsmCase, GsmBootstrap, GsmBootstrapWait, GsmRunning,
         GsmRunlevelChange, GsmRunlevelWait, GsmReloadWait, StopWait,
         GsmRunlevelClean, GsmReloadClean, GsmReloadChange, StepAll
<1>2. runlevel' = runlevel \/ work' = reg
  BY DEF GsmStep, GsmCase, GsmBootstrap, GsmBootstrapWait, GsmRunning,
         GsmRunlevelChange, GsmRunlevelWait, GsmReloadWait, StopWait,
         GsmRunlevelClean, GsmReloadClean, GsmReloadChange, StepAll
<1>3. \A t \in Svc : cond'[t] # "on" => cond[t] # "on" \/ t \in HasCond
  BY DEF GsmStep, GsmCase, GsmBootstrap, GsmBootstrapWait, GsmRunning,
         GsmRunlevelChange, GsmRunlevelWait, GsmReloadWait, StopWait,
         GsmRunlevelClean, GsmReloadClean, GsmReloadChange, CondReload
<1>4. WorkReg'  BY <1>0, <1>1 DEF WorkReg, GKHyp
<1>5. ASSUME NEW t \in Svc PROVE Safe(t)' /\ StopAt(t)'
  <2>1. Safe(t) /\ StopAt(t)  BY DEF GKHyp
  <2>2. t \in reg /\ state[t] = "waiting" => Enabled(t) /\ pid[t] # "none"
    BY <1>0, <2>1 DEF Safe
  <2>3. t \in reg /\ state[t] = "waiting" => Enabled(t)' \/ t \in work'
    BY <1>0, <1>2, <2>2 DEF Enabled
  <2>. QED  BY <1>0, <1>3, <2>1, <2>2, <2>3 DEF Safe, StopAt
<1>. QED  BY <1>0, <1>4, <1>5 DEF GKStep, GKHyp

\* service_kill() sees a STOPPING service, which still holds its child
\* when no callback runs: the SIGKILL goes to that child.
LEMMA GKKillTimer ==
  ASSUME GKHyp, NEW s \in Svc, KillTimer(s)
  PROVE  GKStep
<1>1. state[s] = "stopping"  BY DEF KillTimer, KillOnlyStopping, GKHyp
<1>2. pid[s] = "proc"
  BY <1>1 DEF KillTimer, Idle, AfterSm, GKHyp, Safe, PidVals, DataOK
<1>3. badkill' = badkill /\ proc' = [proc EXCEPT ![s] = Deliver("KILL", @)]
  BY <1>2 DEF KillTimer, SendSig, GKHyp
<1>4. proc'[s] # "stop"  BY <1>3 DEF Deliver, GKHyp, DataOK
<1>5. \A t \in Svc \ {s} : proc'[t] = proc[t]  BY <1>3
<1>. QED
  BY <1>3, <1>4, <1>5 DEF KillTimer, GKHyp, GKStep, WorkReg, Safe, StopAt,
                         Enabled, gsmVars, loopVars

\* service_monitor(): the collected service is put into work, or dropped.
LEMMA GKReap ==
  ASSUME GKHyp, NEW s \in Svc, Reap(s)
  PROVE  GKStep
<1>0. work = {} /\ cur = {}  BY DEF Reap, Idle, AfterSm
<1>1. state[s] = "waiting" => Enabled(s)  BY <1>0 DEF Reap, GKHyp, Safe
<1>2. WorkReg'  BY <1>0 DEF Reap, WorkReg, GKHyp
<1>3. ASSUME NEW t \in Svc PROVE Safe(t)' /\ StopAt(t)'
  <2>1. Safe(t) /\ StopAt(t)  BY DEF GKHyp
  <2>2. CASE t = s
    BY <1>0, <1>1, <2>1, <2>2 DEF Reap, Safe, StopAt, Enabled, gsmVars,
                                  GKHyp, DataOK
  <2>3. CASE t # s
    BY <1>0, <2>1, <2>3 DEF Reap, Safe, StopAt, Enabled, gsmVars, GKHyp,
                           DataOK
  <2>. QED  BY <2>2, <2>3
<1>. QED  BY <1>2, <1>3 DEF Reap, GKStep, GKHyp

\* service_retry() changes the block of a HALTED service only.
LEMMA GKRetryTimer ==
  ASSUME GKHyp, NEW s \in Svc, RetryTimer(s)
  PROVE  GKStep
<1>1. \A t \in Svc : block'[t] # block[t] => t = s /\ state[t] = "halted"
  BY DEF RetryTimer, GKHyp, DataOK
<1>2. WorkReg'  BY DEF RetryTimer, Idle, AfterSm, WorkReg, GKHyp
<1>3. ASSUME NEW t \in Svc PROVE Safe(t)' /\ StopAt(t)'
  <2>1. Safe(t) /\ StopAt(t)  BY DEF GKHyp
  <2>2. CASE block'[t] = block[t]
    BY <2>1, <2>2 DEF RetryTimer, Idle, AfterSm, Safe, StopAt, Enabled,
                      gsmVars
  <2>3. CASE block'[t] # block[t]
    BY <1>1, <2>1, <2>3 DEF RetryTimer, Safe, StopAt
  <2>. QED  BY <2>2, <2>3
<1>. QED  BY <1>2, <1>3 DEF RetryTimer, GKStep, GKHyp

\* The other events leave the records alone; the condition producers and
\* the bootstrap check step every service.
LEMMA GKOther ==
  ASSUME GKHyp, [Next]_vars,
         ~\E s \in Svc : SvcStep(s) \/ KillTimer(s) \/ Reap(s) \/ RetryTimer(s),
         ~GsmStep
  PROVE  GKStep
<1>1. CASE \E s \in Svc : ProcExit(s)
  <2>. PICK s \in Svc : ProcExit(s)  BY <1>1
  <2>1. \A t \in Svc : proc'[t] = proc[t] \/ proc'[t] = "zombie"
    BY DEF ProcExit, GKHyp, DataOK
  <2>. QED  BY <2>1 DEF ProcExit, GKStep, GKHyp, WorkReg, Safe, StopAt,
                        Enabled, svcVars, gsmVars, loopVars
<1>2. CASE Prune
  BY <1>2 DEF Prune, AfterSm, GKStep, GKHyp, WorkReg, Safe, StopAt, Enabled,
              svcVars, gsmVars
<1>3. CASE \E s \in Svc, v \in CondVals : CondChange(s, v)
  <2>. PICK s \in Svc, v \in CondVals : CondChange(s, v)  BY <1>3
  <2>1. \A t \in Svc : cond'[t] # "on" => cond[t] # "on" \/ t \in HasCond
    BY DEF CondChange, GKHyp, DataOK
  <2>. QED  BY <2>1 DEF CondChange, StepAll, GKStep, GKHyp, WorkReg, Safe,
                        StopAt, Enabled, svcVars, gsmVars
<1>4. CASE BootTimer
  BY <1>4 DEF BootTimer, StepAll, GKStep, GKHyp, WorkReg, Safe, StopAt,
              Enabled, svcVars, gsmVars
<1>5. CASE ~(\E s \in Svc : ProcExit(s)) /\ ~Prune /\ ~BootTimer
           /\ ~(\E s \in Svc, v \in CondVals : CondChange(s, v))
  <2>. /\ work' = work /\ cur' = cur /\ reg' = reg /\ runlevel' = runlevel
       /\ state' = state /\ pid' = pid /\ block' = block /\ cond' = cond
       /\ proc' = proc /\ badkill' = badkill
    BY <1>5 DEF Next, vars, gsmVars, svcVars, loopVars, MainRunlevel,
                BootCheck, RequestRunlevel, RequestReload
  <2>. QED  BY DEF GKStep, GKHyp, WorkReg, Safe, StopAt, Enabled
<1>. QED  BY <1>1, <1>2, <1>3, <1>4, <1>5

\* GKInv is inductive, under the two hypotheses.
LEMMA GKNext ==
  ASSUME ~ForkCanFail, DaemonConds
  PROVE  GKInv /\ [Next]_vars => GKInv'
<1>. SUFFICES ASSUME GKInv, [Next]_vars PROVE GKInv'  OBVIOUS
<1>1. FlagsOK /\ DataOK  BY TypeSplit DEF GKInv, RetryInv, TypeInv
<1>2. GKHyp  BY <1>1 DEF GKHyp, GKInv, RetryInv, NoGroupKill, FlagsOK
<1>3. RetryInv'  BY <1>1, TypeInvNext, RetryNext DEF GKInv, RetryInv
<1>4. TrackedProcess'  BY <1>1, TrackedNext DEF GKInv
<1>5. GKStep
  <2>1. CASE \E s \in Svc : SvcStep(s)  BY <1>2, <2>1, GKSvcStep
  <2>2. CASE GsmStep  BY <1>2, <2>2, GKGsmStep
  <2>3. CASE \E s \in Svc : KillTimer(s)  BY <1>2, <2>3, GKKillTimer
  <2>4. CASE \E s \in Svc : Reap(s)  BY <1>2, <2>4, GKReap
  <2>5. CASE \E s \in Svc : RetryTimer(s)  BY <1>2, <2>5, GKRetryTimer
  <2>6. CASE /\ ~\E s \in Svc : SvcStep(s) \/ KillTimer(s) \/ Reap(s)
                                 \/ RetryTimer(s)
             /\ ~GsmStep
    BY <1>2, <2>6, GKOther
  <2>. QED  BY <2>1, <2>2, <2>3, <2>4, <2>5, <2>6
<1>. QED  BY <1>3, <1>4, <1>5 DEF GKStep, GKInv, NoGroupKill

\* sm_init() and the zeroed records start in GKInv.
LEMMA GKInit == Init => GKInv
BY InitType DEF Init, GKInv, RetryInv, TypeInv, ChangeLevel, KillOnlyStopping,
                RestartingHasRetry, TrackedProcess, WorkReg, Safe, StopAt,
                NoGroupKill

\* When fork() cannot fail and only daemons declare conditions, no kill()
\* of service_stop(), service_step() or service_kill() ever goes to pid 0
\* or -1 (finit's own process group, or every process): each signal reaches
\* the service's own child only.
THEOREM GroupKillFree ==
  ~ForkCanFail /\ DaemonConds => (Spec => []NoGroupKill)
<1>. SUFFICES ASSUME ~ForkCanFail, DaemonConds PROVE Spec => []NoGroupKill
  OBVIOUS
<1>1. GKInv => NoGroupKill  BY DEF GKInv
<1>. QED  BY <1>1, GKInit, GKNext, PTL DEF Spec

\* Under the same hypotheses, a child stopped by the SIGSTOP of
\* service_step() belongs to a service that is WAITING, where a condition
\* coming back sends the SIGCONT that resumes it.
THEOREM StopOnlyInWaiting ==
  ~ForkCanFail /\ DaemonConds => (Spec => []StoppedOnlyWaiting)
<1>. SUFFICES ASSUME ~ForkCanFail, DaemonConds
              PROVE  Spec => []StoppedOnlyWaiting
  OBVIOUS
<1>1. GKInv => StoppedOnlyWaiting  BY DEF GKInv, StopAt, StoppedOnlyWaiting
<1>. QED  BY <1>1, GKInit, GKNext, PTL DEF Spec

=============================================================================

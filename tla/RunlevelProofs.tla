---------------------------- MODULE RunlevelProofs ----------------------------
(* Proof that the runlevel is respected: outside RUNLEVEL_WAIT no child of *)
(* a service that the current runlevel excludes is alive.                   *)
(*                                                                         *)
(* RunlevelRespected is not inductive: it says nothing of RUNLEVEL_WAIT,   *)
(* and what lets sm_step() leave that state is that every such child's    *)
(* service has been stepped by the service_step_all() of RUNLEVEL_CHANGE  *)
(* and is STOPPING, so that svc_stop_completed() sees it.  StaleStopping  *)
(* states that, with TrackedProcess to tie the child to its record.      *)
EXTENDS TrackedProofs

Alive == {"run", "stop"}

\* A child alive in a runlevel its service does not belong to.
Stale(t) == proc[t] \in Alive /\ runlevel \notin RL[t]

\* Such a child exists only during RUNLEVEL_WAIT, and its service is still
\* to be stepped by the current service_step_all() (in work, or being
\* stepped in cur), or it is already STOPPING.
Swept(t) ==
  Stale(t) => /\ gsm = "runlevel_wait"
              /\ t \in work \/ t \in cur \/ state[t] = "stopping"

StaleStopping == \A t \in Svc : Swept(t)

LevelInv == TypeInv /\ TrackedProcess /\ StaleStopping

\* A pass of service_step() for a service whose child is stale leaves it
\* STOPPING: it is not enabled, so RUNNING and WAITING call service_stop(),
\* and a STOPPING service that still holds its pid stays.
LEMMA PassSweeps ==
  ASSUME DataOK, NEW s \in Svc, NEW o, Tracked(s), Stale(s),
         \/ HaltedPass(s) \/ DonePass(s) \/ StoppingPass(s)
         \/ ReadyPass(s, o) \/ RunningPass(s, o) \/ WaitingPass(s)
  PROVE  state'[s] = "stopping"
<1>1. ~Enabled(s)  BY DEF Stale, Enabled
<1>2. state[s] \in Live /\ pid[s] = "proc"  BY DEF Stale, Alive, Tracked
<1>3. ~HaltedPass(s) /\ ~DonePass(s) /\ ~ReadyPass(s, o)
  BY <1>2 DEF HaltedPass, DonePass, ReadyPass, Live
<1>4. CASE StoppingPass(s)  BY <1>2, <1>4 DEF StoppingPass
<1>5. CASE RunningPass(s, o)
  BY <1>1, <1>5 DEF RunningPass, ToStopping, DataOK
<1>6. CASE WaitingPass(s)
  BY <1>1, <1>6 DEF WaitingPass, ToStopping, DataOK
<1>. QED  BY <1>3, <1>4, <1>5, <1>6

\* A pass of service_step() starts a child only for an enabled service,
\* so it makes no child stale that was not.
LEMMA PassNoStale ==
  ASSUME DataOK, NEW s \in Svc, NEW o, Stale(s)', runlevel' = runlevel,
         \/ HaltedPass(s) \/ DonePass(s) \/ StoppingPass(s)
         \/ ReadyPass(s, o) \/ RunningPass(s, o) \/ WaitingPass(s)
  PROVE  Stale(s)
<1>1. CASE \E sig \in {"STOP", "CONT"} : SendSig(s, sig)
  <2>. PICK sig \in {"STOP", "CONT"} : SendSig(s, sig)  BY <1>1
  <2>1. proc[s] \in Alive  BY SendSigNoWake DEF Stale, Alive, DataOK
  <2>. QED  BY <2>1 DEF Stale
<1>2. CASE ~\E sig \in {"STOP", "CONT"} : SendSig(s, sig)
  <2>1. CASE ReadyPass(s, o) /\ Enabled(s)
    BY <2>1 DEF Enabled, Stale
  <2>2. CASE ~(ReadyPass(s, o) /\ Enabled(s))
    <3>1. proc'[s] = proc[s] \/ proc'[s] = "none"
      BY <1>2, <2>2 DEF HaltedPass, DonePass, StoppingPass, ReadyPass,
                        RunningPass, WaitingPass, DataOK
    <3>. QED  BY <3>1 DEF Stale, Alive
  <2>. QED  BY <2>1, <2>2
<1>. QED  BY <1>1, <1>2

\* A step that leaves the GSM, the runlevel, the service states and cur
\* alone, drops no service from work and revives no child keeps Swept.
LEMMA SweptFrame ==
  ASSUME NEW t \in Svc, Swept(t),
         gsm' = gsm, runlevel' = runlevel, state' = state, cur' = cur,
         work \subseteq work', proc'[t] \in Alive => proc[t] \in Alive
  PROVE  Swept(t)'
BY DEF Swept, Stale

\* Every step keeps StaleStopping.
LEMMA SweptNext ==
  ASSUME DataOK, TrackedProcess, StaleStopping, [Next]_vars
  PROVE  StaleStopping'
<1>. SUFFICES ASSUME NEW t \in Svc PROVE Swept(t)'
  BY DEF StaleStopping
<1>0. Swept(t) /\ Tracked(t)  BY TrackedAll DEF StaleStopping
<1>1. CASE \E s \in Svc : SvcStep(s)
  <2>. PICK s \in Svc : SvcStep(s)  BY <1>1
  <2>. PICK o \in Outcomes(s) :
         \/ HaltedPass(s) \/ DonePass(s) \/ StoppingPass(s)
         \/ ReadyPass(s, o) \/ RunningPass(s, o) \/ WaitingPass(s)
    BY DEF SvcStep
  <2>1. gsm' = gsm /\ runlevel' = runlevel  BY DEF SvcStep, gsmVars
  <2>2. CASE t = s
    <3>. SUFFICES ASSUME Stale(t)'
                  PROVE  gsm' = "runlevel_wait" /\ state'[t] = "stopping"
      BY DEF Swept
    <3>1. Stale(s)  BY <2>1, <2>2, PassNoStale
    <3>2. gsm = "runlevel_wait"  BY <1>0, <2>2, <3>1 DEF Swept
    <3>3. state'[s] = "stopping"  BY <1>0, <2>2, <3>1, PassSweeps
    <3>. QED  BY <2>1, <2>2, <3>2, <3>3
  <2>3. CASE t # s
    <3>1. state'[t] = state[t]  BY <2>3, PassFrame
    <3>2. proc'[t] \in Alive => proc[t] \in Alive
      BY <2>3, PassNoWake DEF Alive
    <3>3. t \in work => t \in work'  BY <2>3 DEF SvcStep
    <3>4. t \notin cur
      BY <2>3 DEF SvcStep, DataOK
    <3>. QED  BY <1>0, <2>1, <3>1, <3>2, <3>3, <3>4 DEF Swept, Stale
  <2>. QED  BY <2>2, <2>3
<1>2. CASE GsmStep
  <2>0. work = {} /\ cur = {} /\ proc' = proc /\ state' = state
    BY <1>2 DEF GsmStep
  <2>1. CASE GsmRunlevelChange
    \* The new runlevel: every live child's service is stepped again.
    <3>1. gsm' = "runlevel_wait" /\ work' = reg
      BY <2>1 DEF GsmRunlevelChange, StepAll
    <3>2. proc[t] \in Alive => t \in reg  BY <1>0 DEF Tracked, Alive
    <3>. QED  BY <2>0, <3>1, <3>2 DEF Swept, Stale
  <2>2. CASE GsmRunlevelWait
    \* No stale child is left when svc_stop_completed() finds nothing.
    <3>1. CASE StopPending
      BY <2>0, <2>2, <3>1, <1>0 DEF GsmRunlevelWait, StopWait, Swept, Stale
    <3>2. CASE ~StopPending
      <4>1. ~Stale(t)
        BY <1>0, <2>0, <3>2 DEF Swept, Tracked, Stale, Alive, StopPending
      <4>. QED  BY <2>0, <2>2, <4>1 DEF GsmRunlevelWait, StopWait, Swept, Stale
    <3>. QED  BY <3>1, <3>2
  <2>3. CASE ~GsmRunlevelChange /\ ~GsmRunlevelWait
    <3>1. runlevel' = runlevel
      BY <1>2, <2>3 DEF GsmStep, GsmCase, GsmBootstrap, GsmBootstrapWait,
                        GsmRunning, GsmRunlevelClean, GsmReloadChange,
                        GsmReloadWait, StopWait, GsmReloadClean
    <3>2. gsm # "runlevel_wait"
      BY <1>2, <2>3 DEF GsmStep, GsmCase, GsmRunlevelWait, GsmBootstrap,
                        GsmBootstrapWait, GsmRunning, GsmRunlevelChange,
                        GsmRunlevelClean, GsmReloadChange, GsmReloadWait,
                        GsmReloadClean
    <3>. QED  BY <1>0, <2>0, <3>1, <3>2 DEF Swept, Stale
  <2>. QED  BY <2>1, <2>2, <2>3
<1>3. CASE \E s \in Svc : KillTimer(s)
  <2>. PICK s \in Svc : KillTimer(s)  BY <1>3
  <2>1. proc'[t] \in Alive => proc[t] \in Alive
    BY SendSigNoWake DEF KillTimer, DataOK, Alive
  <2>. QED  BY <1>0, <2>1, SweptFrame DEF KillTimer, gsmVars, loopVars
<1>4. CASE \E s \in Svc : Reap(s)
  <2>. PICK s \in Svc : Reap(s)  BY <1>4
  <2>1. proc'[t] \in Alive => proc[t] \in Alive  BY DEF Reap, DataOK, Alive
  <2>. QED  BY <1>0, <2>1, SweptFrame DEF Reap, Idle, AfterSm, gsmVars
<1>5. CASE \E s \in Svc : RetryTimer(s)
  <2>. PICK s \in Svc : RetryTimer(s)  BY <1>5
  <2>. QED  BY <1>0, SweptFrame DEF RetryTimer, Idle, AfterSm, gsmVars
<1>6. CASE \E s \in Svc : ProcExit(s)
  <2>. PICK s \in Svc : ProcExit(s)  BY <1>6
  <2>1. proc'[t] \in Alive => proc[t] \in Alive
    BY DEF ProcExit, DataOK, Alive
  <2>. QED  BY <1>0, <2>1, SweptFrame DEF ProcExit, gsmVars, svcVars, loopVars
<1>7. CASE BootTimer \/ \E s \in Svc, v \in CondVals : CondChange(s, v)
  BY <1>0, <1>7, SweptFrame DEF BootTimer, CondChange, Idle, AfterSm,
                                gsmVars, svcVars
<1>8. CASE ~(\E s \in Svc : SvcStep(s)) /\ ~GsmStep
           /\ ~(\E s \in Svc : KillTimer(s)) /\ ~(\E s \in Svc : Reap(s))
           /\ ~(\E s \in Svc : RetryTimer(s)) /\ ~(\E s \in Svc : ProcExit(s))
           /\ ~BootTimer /\ ~(\E s \in Svc, v \in CondVals : CondChange(s, v))
  <2>. gsm' = gsm /\ runlevel' = runlevel /\ state' = state /\ cur' = cur
       /\ work' = work /\ proc' = proc
    BY <1>8 DEF Next, vars, gsmVars, svcVars, loopVars, MainRunlevel,
                BootCheck, Prune, RequestRunlevel, RequestReload
  <2>. QED  BY <1>0, SweptFrame
<1>. QED  BY <1>1, <1>2, <1>3, <1>4, <1>5, <1>6, <1>7, <1>8

\* The runlevel is respected: whatever the services, their runlevels, the
\* requests and the failing forks, outside RUNLEVEL_WAIT no service the
\* current runlevel excludes has a live or SIGSTOPped child, because
\* sm_step() stops every such service in RUNLEVEL_CHANGE and leaves
\* RUNLEVEL_WAIT only when svc_stop_completed() finds none left.
THEOREM LevelRespected == Spec => []RunlevelRespected
<1>1. Init => LevelInv
  BY InitType DEF Init, LevelInv, TypeInv, ChangeLevel, TrackedProcess,
                  StaleStopping, Swept, Stale, Alive
<1>2. LevelInv /\ [Next]_vars => LevelInv'
  <2>. SUFFICES ASSUME LevelInv, [Next]_vars PROVE LevelInv'  OBVIOUS
  <2>1. DataOK  BY TypeSplit DEF LevelInv, TypeInv
  <2>2. TypeInv'  BY TypeInvNext DEF LevelInv
  <2>3. TrackedProcess'  BY <2>1, TrackedNext DEF LevelInv
  <2>4. StaleStopping'  BY <2>1, SweptNext DEF LevelInv
  <2>. QED  BY <2>2, <2>3, <2>4 DEF LevelInv
<1>3. LevelInv => RunlevelRespected
  BY DEF LevelInv, StaleStopping, Swept, Stale, Alive, RunlevelRespected
<1>. QED  BY <1>1, <1>2, <1>3, PTL DEF Spec

=============================================================================

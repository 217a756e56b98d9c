-------------------------- MODULE SupervisorProofs --------------------------
(* Proofs about the supervision core of Supervisor.tla, for every set of   *)
(* services, runlevels and bounds the assumptions allow.                   *)
EXTENDS Supervisor, TLAPS

USE TypeAssumption, RLAssumption, SetsAssumption, LevelAssumption,
    BoundAssumption

\* A signal sent by kill() leaves a child in one of its kernel states.
LEMMA DeliverType ==
  ASSUME NEW sig \in {"STOP", "CONT", "KILL"}, NEW x \in ProcVals
  PROVE  Deliver(sig, x) \in ProcVals
BY DEF Deliver, ProcVals

\* SendSig(), the model of kill(svc->pid, sig), keeps proc a map to kernel
\* states, whether it hits one child or (pid <= 0) all of them.
LEMMA SendSigType ==
  ASSUME NEW s \in Svc, NEW sig \in {"STOP", "CONT", "KILL"},
         proc \in [Svc -> ProcVals], badkill \in BOOLEAN,
         SendSig(s, sig)
  PROVE  proc' \in [Svc -> ProcVals] /\ badkill' \in BOOLEAN
<1>1. \A t \in Svc : Deliver(sig, proc[t]) \in ProcVals
  BY DeliverType
<1>. QED
  BY <1>1 DEF SendSig

\* TypeOK split in two: the Boolean-valued variables, which Zenon handles
\* best, and the others.
FlagsOK ==
  /\ dirty \in [Svc -> BOOLEAN] /\ reload \in BOOLEAN /\ teardown \in BOOLEAN
  /\ badkill \in BOOLEAN /\ smPending \in BOOLEAN /\ bootArmed \in BOOLEAN

DataOK ==
  /\ gsm \in GsmStates /\ runlevel \in 0..9 /\ prevlevel \in -1..9
  /\ newlevel \in {-1} \cup Levels
  /\ state \in [Svc -> SvcStates] /\ pid \in [Svc -> PidVals]
  /\ block \in [Svc -> Blocks] /\ counter \in [Svc -> Nat]
  /\ timer \in [Svc -> Timers] /\ reg \subseteq Svc
  /\ cond \in [Svc -> CondVals] /\ proc \in [Svc -> ProcVals]
  /\ work \subseteq Svc /\ cur \in {{}} \cup {{s} : s \in Svc}
  /\ cont \in Conts /\ bootLeft \in Int

LEMMA TypeSplit == TypeOK <=> FlagsOK /\ DataOK
BY DEF TypeOK, FlagsOK, DataOK


\* sm_init() and the zeroed svc_t records start in their types.
LEMMA InitType == Init => TypeOK
<1>. SUFFICES ASSUME Init PROVE FlagsOK /\ DataOK  BY TypeSplit
<1>1. FlagsOK  BY Zenon DEF Init, FlagsOK
<1>2. DataOK
  BY DEF Init, DataOK, GsmStates, SvcStates, PidVals, Blocks, Timers,
         CondVals, ProcVals, Conts
<1>. QED  BY <1>1, <1>2

\* The events that only touch the global and loop variables.
LEMMA LoopEventType ==
  ASSUME FlagsOK, DataOK,
         MainRunlevel \/ BootCheck \/ Prune \/ BootTimer \/ RequestReload
         \/ \E l \in Levels : RequestRunlevel(l)
  PROVE  FlagsOK' /\ DataOK'
<1>1. FlagsOK'
  BY Zenon DEF MainRunlevel, BootCheck, Prune, BootTimer, RequestReload,
               RequestRunlevel, FlagsOK, svcVars, gsmVars
<1>2. DataOK'
  BY DEF MainRunlevel, BootCheck, Prune, BootTimer, RequestReload,
         RequestRunlevel, StepAll, DataOK, svcVars, gsmVars, Conts
<1>. QED  BY <1>1, <1>2

\* service_monitor(), service_retry(), a condition change and a child's
\* exit keep the types.
LEMMA SvcEventType ==
  ASSUME FlagsOK, DataOK, NEW s \in Svc,
         \/ Reap(s) \/ RetryTimer(s) \/ ProcExit(s)
         \/ \E v \in CondVals : CondChange(s, v)
  PROVE  FlagsOK' /\ DataOK'
<1>1. FlagsOK'
  BY Zenon DEF Reap, RetryTimer, ProcExit, CondChange, StepAll, FlagsOK,
               gsmVars, svcVars, loopVars
<1>2. DataOK'
  <2>1. CASE Reap(s)
    BY <2>1 DEF Reap, DataOK, gsmVars, ProcVals, Timers, PidVals
  <2>2. CASE RetryTimer(s)
    BY <2>2 DEF RetryTimer, Bump, DataOK, gsmVars, Timers, Blocks
  <2>3. CASE ProcExit(s)
    BY <2>3 DEF ProcExit, DataOK, gsmVars, svcVars, loopVars, ProcVals
  <2>4. CASE \E v \in CondVals : CondChange(s, v)
    BY <2>4 DEF CondChange, StepAll, DataOK, gsmVars, svcVars
  <2>. QED  BY <2>1, <2>2, <2>3, <2>4
<1>. QED  BY <1>1, <1>2

\* service_kill(): SIGKILL through SendSig keeps the types.
LEMMA KillTimerType ==
  ASSUME FlagsOK, DataOK, NEW s \in Svc, KillTimer(s)
  PROVE  FlagsOK' /\ DataOK'
<1>1. proc' \in [Svc -> ProcVals] /\ badkill' \in BOOLEAN
  BY SendSigType DEF KillTimer, FlagsOK, DataOK
<1>2. FlagsOK'
  BY <1>1, Zenon DEF KillTimer, FlagsOK, gsmVars, loopVars
<1>3. DataOK'
  BY <1>1 DEF KillTimer, DataOK, Timers, gsmVars, loopVars
<1>. QED  BY <1>2, <1>3


\* conf_reload() marks services dirty and nothing else.
LEMMA ConfReloadType ==
  ASSUME dirty \in [Svc -> BOOLEAN], reg \subseteq Svc, ConfReload
  PROVE  dirty' \in [Svc -> BOOLEAN]
BY DEF ConfReload

\* RUNLEVEL_CHANGE is only entered with a requested level in newlevel:
\* sm_step() reads runlevel = sm->newlevel there.
ChangeLevel == gsm = "runlevel_change" => newlevel \in Levels

\* The gsm and level variables that a case of sm_step() assigns.
LEMMA GsmCaseType ==
  ASSUME DataOK, ChangeLevel, GsmCase
  PROVE  /\ gsm' \in GsmStates /\ runlevel' \in 0..9 /\ prevlevel' \in -1..9
         /\ newlevel' \in {-1} \cup Levels /\ work' \subseteq Svc
         /\ cond' \in [Svc -> CondVals]
<1>1. cond' \in [Svc -> CondVals]
  BY DEF GsmCase, GsmBootstrap, GsmBootstrapWait, GsmRunning, GsmRunlevelChange, GsmRunlevelWait, GsmReloadWait, StopWait, GsmRunlevelClean, GsmReloadClean, GsmReloadChange, CondReload, DataOK, CondVals
<1>2. work' \subseteq Svc
  BY DEF GsmCase, GsmBootstrap, GsmBootstrapWait, GsmRunning, GsmRunlevelChange, GsmRunlevelWait, GsmReloadWait, StopWait, GsmRunlevelClean, GsmReloadClean, GsmReloadChange, StepAll, DataOK
<1>3. gsm' \in GsmStates
  BY DEF GsmCase, GsmBootstrap, GsmBootstrapWait, GsmRunning, GsmRunlevelChange, GsmRunlevelWait, GsmReloadWait, StopWait, GsmRunlevelClean, GsmReloadClean, GsmReloadChange, DataOK, GsmStates
<1>4. runlevel' \in 0..9 /\ prevlevel' \in -1..9 /\ newlevel' \in {-1} \cup Levels
  BY DEF GsmCase, GsmBootstrap, GsmBootstrapWait, GsmRunning, GsmRunlevelChange, GsmRunlevelWait, GsmReloadWait, StopWait, GsmRunlevelClean, GsmReloadClean, GsmReloadChange, DataOK, ChangeLevel
<1>. QED  BY <1>1, <1>2, <1>3, <1>4

\* One case of sm_step() keeps the types.
LEMMA GsmStepType ==
  ASSUME FlagsOK, DataOK, ChangeLevel, GsmStep
  PROVE  FlagsOK' /\ DataOK'
<1>1. GsmCase  BY DEF GsmStep
<1>2. dirty' \in [Svc -> BOOLEAN]
  BY <1>1, ConfReloadType DEF GsmCase, GsmBootstrap, GsmBootstrapWait, GsmRunning, GsmRunlevelChange, GsmRunlevelWait, GsmReloadWait, StopWait, GsmRunlevelClean, GsmReloadClean, GsmReloadChange, FlagsOK, DataOK
<1>3. reload' \in BOOLEAN /\ teardown' \in BOOLEAN
  BY <1>1, Zenon DEF GsmCase, GsmBootstrap, GsmBootstrapWait, GsmRunning, GsmRunlevelChange, GsmRunlevelWait, GsmReloadWait, StopWait, GsmRunlevelClean, GsmReloadClean, GsmReloadChange, FlagsOK
<1>4. FlagsOK'
  BY <1>2, <1>3, Zenon DEF GsmStep, FlagsOK
<1>5. DataOK'
  BY <1>1, GsmCaseType DEF GsmStep, DataOK
<1>. QED  BY <1>4, <1>5


\* The svc_t fields after one pass of service_step().
SvcOK ==
  /\ state \in [Svc -> SvcStates] /\ pid \in [Svc -> PidVals]
  /\ block \in [Svc -> Blocks] /\ counter \in [Svc -> Nat]
  /\ timer \in [Svc -> Timers] /\ proc \in [Svc -> ProcVals]

\* service_start() keeps the svc_t fields in their types.
LEMMA StartType ==
  ASSUME FlagsOK, DataOK, NEW s \in Svc, NEW o, Start(s, o)
  PROVE  SvcOK' /\ dirty' \in [Svc -> BOOLEAN] /\ badkill' \in BOOLEAN
<1>1. SvcOK'
  BY DEF Start, StartRun, StartFailed, Started, SetState, Bump, SvcOK,
         DataOK, SvcStates, PidVals, Blocks, ProcVals
<1>2. dirty' \in [Svc -> BOOLEAN] /\ badkill' \in BOOLEAN
  BY Zenon DEF Start, StartRun, StartFailed, Started, FlagsOK
<1>. QED  BY <1>1, <1>2

\* One pass of the switch of service_step() keeps the svc_t fields in
\* their types.
LEMMA PassType ==
  ASSUME FlagsOK, DataOK, NEW s \in Svc, NEW o,
         \/ HaltedPass(s) \/ DonePass(s) \/ StoppingPass(s)
         \/ ReadyPass(s, o) \/ RunningPass(s, o) \/ WaitingPass(s)
  PROVE  SvcOK' /\ dirty' \in [Svc -> BOOLEAN] /\ badkill' \in BOOLEAN
<1>1. CASE HaltedPass(s) \/ DonePass(s) \/ StoppingPass(s)
  <2>1. SvcOK'
    BY <1>1 DEF HaltedPass, DonePass, StoppingPass, SetState, SvcOK,
                DataOK, SvcStates, Timers
  <2>2. dirty' \in [Svc -> BOOLEAN] /\ badkill' \in BOOLEAN
    BY <1>1, Zenon DEF HaltedPass, DonePass, StoppingPass, FlagsOK
  <2>. QED  BY <2>1, <2>2
<1>2. CASE ReadyPass(s, o)
  <2>1. CASE Start(s, o)  BY <2>1, StartType
  <2>2. CASE ~Start(s, o)
    <3>1. SvcOK'
      BY <1>2, <2>2 DEF ReadyPass, SetState, SvcOK, DataOK, SvcStates
    <3>2. dirty' \in [Svc -> BOOLEAN] /\ badkill' \in BOOLEAN
      BY <1>2, <2>2, Zenon DEF ReadyPass, FlagsOK
    <3>. QED  BY <3>1, <3>2
  <2>. QED  BY <2>1, <2>2
<1>3. CASE RunningPass(s, o) \/ WaitingPass(s)
  <2>1. proc' \in [Svc -> ProcVals] /\ badkill' \in BOOLEAN
    <3>1. CASE \E sig \in {"STOP", "CONT"} : SendSig(s, sig)
      BY <3>1, SendSigType DEF FlagsOK, DataOK
    <3>2. CASE ~\E sig \in {"STOP", "CONT"} : SendSig(s, sig)
      BY <1>3, <3>2 DEF RunningPass, WaitingPass, FlagsOK, DataOK
    <3>. QED  BY <3>1, <3>2
  <2>2. SvcOK'
    BY <1>3, <2>1 DEF RunningPass, WaitingPass, Restart, ToStopping,
                      SetState, Bump, SvcOK, DataOK, SvcStates, PidVals,
                      Blocks, Timers
  <2>3. dirty' \in [Svc -> BOOLEAN]
    BY <1>3, Zenon DEF RunningPass, WaitingPass, FlagsOK
  <2>. QED  BY <2>1, <2>2, <2>3
<1>. QED  BY <1>1, <1>2, <1>3

\* service_step() of one service keeps the types.
LEMMA SvcStepType ==
  ASSUME FlagsOK, DataOK, NEW s \in Svc, SvcStep(s)
  PROVE  FlagsOK' /\ DataOK'
<1>1. PICK o \in Outcomes(s) :
        \/ HaltedPass(s) \/ DonePass(s) \/ StoppingPass(s)
        \/ ReadyPass(s, o) \/ RunningPass(s, o) \/ WaitingPass(s)
  BY DEF SvcStep
<1>2. SvcOK' /\ dirty' \in [Svc -> BOOLEAN] /\ badkill' \in BOOLEAN
  BY <1>1, PassType
<1>3. FlagsOK'
  BY <1>2, Zenon DEF SvcStep, FlagsOK, gsmVars
<1>4. DataOK'
  BY <1>2 DEF SvcStep, SvcOK, DataOK, gsmVars
<1>. QED  BY <1>3, <1>4


\* The strengthened type invariant.
TypeInv == TypeOK /\ ChangeLevel

\* Every step keeps a requested level in newlevel while sm_step() is in
\* RUNLEVEL_CHANGE: only the RUNNING case enters it, after testing
\* newlevel, and every writer of newlevel writes a level of Levels.
LEMMA ChangeLevelNext ==
  ASSUME DataOK, ChangeLevel, [Next]_vars
  PROVE  ChangeLevel'
<1>1. CASE GsmStep
  BY <1>1 DEF GsmStep, GsmCase, GsmBootstrap, GsmBootstrapWait, GsmRunning,
              GsmRunlevelChange, GsmRunlevelWait, GsmReloadWait, StopWait, GsmRunlevelClean, GsmReloadClean, GsmReloadChange, ChangeLevel, DataOK
<1>2. CASE MainRunlevel \/ BootCheck \/ (\E l \in Levels : RequestRunlevel(l))
  BY <1>2 DEF MainRunlevel, BootCheck, RequestRunlevel, ChangeLevel
<1>3. CASE ~GsmStep /\ ~MainRunlevel /\ ~BootCheck
           /\ ~(\E l \in Levels : RequestRunlevel(l))
  <2>. gsm' = gsm /\ newlevel' = newlevel
    BY <1>3 DEF Next, vars, gsmVars, SvcStep, Prune, Reap, KillTimer,
                RetryTimer, ProcExit, BootTimer, CondChange, RequestReload
  <2>. QED  BY DEF ChangeLevel
<1>. QED  BY <1>1, <1>2, <1>3

\* Every step of the model keeps the strengthened type invariant.
LEMMA TypeInvNext == TypeInv /\ [Next]_vars => TypeInv'
<1>. SUFFICES ASSUME TypeOK, ChangeLevel, [Next]_vars PROVE TypeInv'
  BY DEF TypeInv
<1>. FlagsOK /\ DataOK  BY TypeSplit
<1>1. ChangeLevel'  BY ChangeLevelNext
<1>2. FlagsOK' /\ DataOK'
  <2>1. CASE \E s \in Svc : SvcStep(s)  BY <2>1, SvcStepType
  <2>2. CASE GsmStep  BY <2>2, GsmStepType
  <2>3. CASE \E s \in Svc : KillTimer(s)  BY <2>3, KillTimerType
  <2>4. CASE \/ MainRunlevel \/ BootCheck \/ Prune \/ BootTimer
             \/ RequestReload \/ \E l \in Levels : RequestRunlevel(l)
    BY <2>4, LoopEventType
  <2>5. CASE \E s \in Svc : \/ Reap(s) \/ RetryTimer(s) \/ ProcExit(s)
                            \/ \E v \in CondVals : CondChange(s, v)
    BY <2>5, SvcEventType
  <2>6. CASE UNCHANGED vars
    BY <2>6 DEF vars, gsmVars, svcVars, loopVars, FlagsOK, DataOK
  <2>. QED  BY <2>1, <2>2, <2>3, <2>4, <2>5, <2>6 DEF Next
<1>3. TypeOK'  BY <1>2, Zenon DEF TypeOK, FlagsOK, DataOK
<1>. QED  BY <1>1, <1>3 DEF TypeInv

\* Type correctness: in every reachable state each variable of the model
\* of sm_step(), service_step() and the callbacks of the event loop holds
\* a value of its type, for every configuration the assumptions allow.
THEOREM TypeCorrect == Spec => []TypeOK
<1>1. Init => TypeInv
  BY InitType DEF Init, TypeInv, ChangeLevel
<1>2. TypeInv => TypeOK  BY DEF TypeInv
<1>. QED  BY <1>1, <1>2, TypeInvNext, PTL DEF Spec


-----------------------------------------------------------------------------
(* The restart invariant.  RestartingHasRetry alone is not inductive: the *)
(* crash branch of service_step() only arms the retry timer when no timer *)
(* is armed (service_timeout_after() returns -EBUSY otherwise), so it      *)
(* needs that a RUNNING service never holds the kill timer, which is the   *)
(* first half of StopEscalation.                                           *)

KillOnlyStopping == \A s \in reg : timer[s] = "kill" => state[s] = "stopping"

RetryInv == TypeInv /\ KillOnlyStopping /\ RestartingHasRetry

\* One pass of service_step() of s keeps both halves for s.
LEMMA PassRetry ==
  ASSUME DataOK, KillOnlyStopping, RestartingHasRetry, NEW s \in reg, NEW o,
         \/ HaltedPass(s) \/ DonePass(s) \/ StoppingPass(s)
         \/ ReadyPass(s, o) \/ RunningPass(s, o) \/ WaitingPass(s),
         reg' = reg
  PROVE  /\ timer'[s] = "kill" => state'[s] = "stopping"
         /\ block'[s] = "restarting" => state'[s] = "halted" /\ timer'[s] = "retry"
<1>1. CASE HaltedPass(s) \/ DonePass(s) \/ StoppingPass(s)
  BY <1>1 DEF HaltedPass, DonePass, StoppingPass, SetState, Enabled,
              KillOnlyStopping, RestartingHasRetry, DataOK
<1>2. CASE ReadyPass(s, o)
  <2>1. block[s] # "restarting" /\ timer[s] # "kill"
    BY <1>2 DEF ReadyPass, KillOnlyStopping, RestartingHasRetry
  <2>2. state'[s] \in {"ready", "halted", "running"} /\ block'[s] # "restarting"
        /\ timer'[s] = timer[s]
    BY <1>2, <2>1 DEF ReadyPass, Start, StartRun, StartFailed, Started,
                      SetState, Bump, DataOK
  <2>. QED  BY <2>1, <2>2
<1>3. CASE RunningPass(s, o)
  <2>1. block[s] # "restarting" /\ timer[s] \in {"none", "retry"}
    BY <1>3 DEF RunningPass, KillOnlyStopping, RestartingHasRetry, DataOK,
                Timers
  <2>2. CASE ~Enabled(s) \/ ~(pid[s] = "none" /\ Daemon(s))
    <3>1. block'[s] = block[s]
      BY <1>3, <2>2 DEF RunningPass, Restart
    <3>2. timer'[s] = "kill" => state'[s] = "stopping"
      BY <1>3, <2>1, <2>2 DEF RunningPass, Restart, ToStopping, SetState,
                              DataOK
    <3>. QED  BY <2>1, <3>1, <3>2
  <2>3. CASE Enabled(s) /\ pid[s] = "none" /\ Daemon(s)
    <3>1. block'[s] = "restarting" /\ state'[s] = "halted"
      BY <1>3, <2>3 DEF RunningPass, SetState, DataOK
    <3>2. timer'[s] = "retry"
      BY <1>3, <2>1, <2>3 DEF RunningPass, DataOK
    <3>. QED  BY <3>1, <3>2
  <2>. QED  BY <2>2, <2>3
<1>4. CASE WaitingPass(s)
  BY <1>4 DEF WaitingPass, ToStopping, SetState, Bump, SendSig,
              KillOnlyStopping, RestartingHasRetry, DataOK
<1>. QED  BY <1>1, <1>2, <1>3, <1>4


\* Both halves, for one service.
RetryAt(t) ==
  /\ timer[t] = "kill" => state[t] = "stopping"
  /\ block[t] = "restarting" => state[t] = "halted" /\ timer[t] = "retry"

LEMMA RetryAtAll ==
  KillOnlyStopping /\ RestartingHasRetry <=> \A t \in reg : RetryAt(t)
BY DEF KillOnlyStopping, RestartingHasRetry, RetryAt

\* A pass of service_step() of s changes no other service's record.
LEMMA PassFrame ==
  ASSUME DataOK, NEW s \in Svc, NEW o, NEW t \in Svc, t # s,
         \/ HaltedPass(s) \/ DonePass(s) \/ StoppingPass(s)
         \/ ReadyPass(s, o) \/ RunningPass(s, o) \/ WaitingPass(s)
  PROVE  state'[t] = state[t] /\ block'[t] = block[t] /\ timer'[t] = timer[t]
BY DEF HaltedPass, DonePass, StoppingPass, ReadyPass, RunningPass,
       WaitingPass, Start, StartRun, StartFailed, Started, SetState, Bump,
       Restart, ToStopping, DataOK

\* Every step keeps the restart invariant.
LEMMA RetryNext ==
  ASSUME DataOK, KillOnlyStopping, RestartingHasRetry, [Next]_vars
  PROVE  KillOnlyStopping' /\ RestartingHasRetry'
<1>. SUFFICES ASSUME NEW t \in reg' PROVE RetryAt(t)'
  BY DEF KillOnlyStopping, RestartingHasRetry, RetryAt
<1>0. \A u \in reg : RetryAt(u)  BY RetryAtAll
<1>1. CASE \E s \in Svc : SvcStep(s)
  <2>. PICK s \in Svc : SvcStep(s)  BY <1>1
  <2>. PICK o \in Outcomes(s) :
         \/ HaltedPass(s) \/ DonePass(s) \/ StoppingPass(s)
         \/ ReadyPass(s, o) \/ RunningPass(s, o) \/ WaitingPass(s)
    BY DEF SvcStep
  <2>1. reg' = reg  BY DEF SvcStep
  <2>2. CASE t = s
    BY <2>1, <2>2, PassRetry DEF RetryAt
  <2>3. CASE t # s
    BY <1>0, <2>1, <2>3, PassFrame DEF RetryAt, DataOK
  <2>. QED  BY <2>2, <2>3
<1>2. CASE \E s \in Svc : RetryTimer(s)
  <2>. PICK s \in Svc : RetryTimer(s)  BY <1>2
  <2>1. reg' = reg /\ state' = state  BY DEF RetryTimer
  <2>2. CASE t = s
    BY <1>0, <2>1, <2>2 DEF RetryTimer, RetryAt, DataOK
  <2>3. CASE t # s
    BY <1>0, <2>1, <2>3 DEF RetryTimer, Bump, RetryAt, DataOK
  <2>. QED  BY <2>2, <2>3
<1>3. CASE \E s \in Svc : Reap(s)
  <2>. PICK s \in Svc : Reap(s)  BY <1>3
  <2>1. reg' \subseteq reg /\ state' = state /\ block' = block
    BY DEF Reap
  <2>2. t \in reg /\ t \in Svc  BY <2>1 DEF DataOK
  <2>3. timer'[t] = timer[t]
    <3>1. CASE prevlevel = 0 /\ CleanBootstrap(s)
      <4>1. t # s  BY <3>1 DEF Reap
      <4>. QED  BY <3>1, <4>1, <2>2 DEF Reap, DataOK
    <3>2. CASE ~(prevlevel = 0 /\ CleanBootstrap(s))
      BY <3>2 DEF Reap
    <3>. QED  BY <3>1, <3>2
  <2>. QED  BY <1>0, <2>1, <2>2, <2>3 DEF RetryAt
<1>6. CASE \E s \in Svc : KillTimer(s)
  <2>. PICK s \in Svc : KillTimer(s)  BY <1>6
  <2>1. reg' = reg /\ state' = state /\ block' = block
    BY DEF KillTimer
  <2>2. CASE t = s
    <3>1. state[s] = "stopping"  BY <1>0, <2>2 DEF KillTimer, RetryAt
    <3>. QED  BY <1>0, <2>1, <2>2, <3>1 DEF KillTimer, RetryAt, DataOK
  <2>3. CASE t # s
    BY <1>0, <2>1, <2>3 DEF KillTimer, RetryAt, DataOK
  <2>. QED  BY <2>2, <2>3
<1>4. CASE Prune
  BY <1>0, <1>4 DEF Prune, svcVars, RetryAt
<1>5. CASE ~(\E s \in Svc : SvcStep(s)) /\ ~(\E s \in Svc : RetryTimer(s))
           /\ ~(\E s \in Svc : Reap(s)) /\ ~(\E s \in Svc : KillTimer(s))
           /\ ~Prune
  <2>. reg' = reg /\ state' = state /\ block' = block /\ timer' = timer
    BY <1>5 DEF Next, vars, svcVars, GsmStep, MainRunlevel, BootCheck,
                ProcExit, BootTimer, CondChange, RequestRunlevel,
                RequestReload
  <2>. QED  BY <1>0 DEF RetryAt
<1>. QED  BY <1>1, <1>2, <1>3, <1>4, <1>5, <1>6

\* The crash/retry cycle of service_step() and service_retry() never
\* strands a service: every service marked restarting after a crash is
\* HALTED with its retry timer armed, whatever the services, runlevels and
\* RESPAWN_MAX.
THEOREM RestartAlwaysRetried == Spec => []RestartingHasRetry
<1>1. Init => RetryInv
  BY InitType DEF Init, RetryInv, TypeInv, ChangeLevel, KillOnlyStopping,
                  RestartingHasRetry
<1>2. RetryInv /\ [Next]_vars => RetryInv'
  <2>. SUFFICES ASSUME RetryInv, [Next]_vars PROVE RetryInv'  OBVIOUS
  <2>1. TypeInv'  BY TypeInvNext DEF RetryInv
  <2>2. DataOK  BY TypeSplit DEF RetryInv, TypeInv
  <2>3. KillOnlyStopping' /\ RestartingHasRetry'
    BY <2>2, RetryNext DEF RetryInv
  <2>. QED  BY <2>1, <2>3 DEF RetryInv
<1>3. RetryInv => RestartingHasRetry  BY DEF RetryInv
<1>. QED  BY <1>1, <1>2, <1>3, PTL DEF Spec

=============================================================================

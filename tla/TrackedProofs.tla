---------------------------- MODULE TrackedProofs ----------------------------
(* Proofs that finit never loses track of a child and never leaves a      *)
(* stopping child without its SIGKILL escalation, for every set of        *)
(* services, runlevels and bounds the assumptions allow.                   *)
EXTENDS SupervisorProofs

\* The states whose handler in service_step() watches svc->pid.
Live == {"running", "waiting", "stopping"}

\* TrackedProcess for one service.
Tracked(t) ==
  proc[t] # "none" => t \in reg /\ pid[t] = "proc" /\ state[t] \in Live

LEMMA TrackedAll == TrackedProcess <=> \A t \in Svc : Tracked(t)
BY DEF TrackedProcess, Tracked, Live

\* kill() never creates a process: a child that is gone stays gone.
LEMMA SendSigNoBirth ==
  ASSUME NEW s \in Svc, NEW sig \in {"STOP", "CONT", "KILL"},
         proc \in [Svc -> ProcVals], SendSig(s, sig), NEW t \in Svc,
         proc'[t] # "none"
  PROVE  proc[t] # "none"
<1>1. \A x \in ProcVals : Deliver(sig, x) # "none" => x # "none"
  BY DEF Deliver, ProcVals
<1>. QED  BY <1>1 DEF SendSig

\* A pass of service_step() of s leaves the pid and state of every other
\* service alone and creates no child of it.
LEMMA PassOther ==
  ASSUME DataOK, NEW s \in Svc, NEW o, NEW t \in Svc, t # s,
         \/ HaltedPass(s) \/ DonePass(s) \/ StoppingPass(s)
         \/ ReadyPass(s, o) \/ RunningPass(s, o) \/ WaitingPass(s),
         proc'[t] # "none"
  PROVE  pid'[t] = pid[t] /\ state'[t] = state[t] /\ proc[t] # "none"
<1>1. pid'[t] = pid[t] /\ state'[t] = state[t]
  BY DEF HaltedPass, DonePass, StoppingPass, ReadyPass, RunningPass,
         WaitingPass, Start, StartRun, StartFailed, Started, SetState, Bump,
         Restart, ToStopping, DataOK
<1>2. proc[t] # "none"
  <2>1. CASE \E sig \in {"STOP", "CONT"} : SendSig(s, sig)
    <3>. PICK sig \in {"STOP", "CONT"} : SendSig(s, sig)  BY <2>1
    <3>. QED  BY SendSigNoBirth DEF DataOK
  <2>2. CASE ~\E sig \in {"STOP", "CONT"} : SendSig(s, sig)
    <3>1. proc'[t] = proc[t] \/ proc'[t] = "none"
      BY <2>2 DEF HaltedPass, DonePass, StoppingPass, ReadyPass, RunningPass,
                  WaitingPass, Start, StartRun, StartFailed, Started, DataOK
    <3>. QED  BY <3>1
  <2>. QED  BY <2>1, <2>2
<1>. QED  BY <1>1, <1>2

\* service_start() from READY, where s has no child: the only child it
\* leaves is the one it forked, recorded in svc->pid of a RUNNING service.
LEMMA StartTracked ==
  ASSUME DataOK, NEW s \in reg, NEW o, Start(s, o), proc[s] = "none"
  PROVE  proc'[s] # "none" => pid'[s] = "proc" /\ state'[s] = "running"
BY DEF Start, StartRun, StartFailed, Started, SetState, Bump, DataOK

\* A pass of service_step() of s keeps TrackedProcess for s.
LEMMA PassTracked ==
  ASSUME DataOK, NEW s \in reg, NEW o, Tracked(s), reg' = reg,
         \/ HaltedPass(s) \/ DonePass(s) \/ StoppingPass(s)
         \/ ReadyPass(s, o) \/ RunningPass(s, o) \/ WaitingPass(s)
  PROVE  Tracked(s)'
<1>. SUFFICES ASSUME proc'[s] # "none"
              PROVE  pid'[s] = "proc" /\ state'[s] \in Live
  BY DEF Tracked
<1>1. CASE HaltedPass(s) \/ DonePass(s)
  BY <1>1 DEF HaltedPass, DonePass, Tracked, Live
<1>2. CASE StoppingPass(s)
  BY <1>2 DEF StoppingPass, SetState, Tracked, Live, DataOK
<1>3. CASE ReadyPass(s, o)
  <2>1. proc[s] = "none"  BY <1>3 DEF ReadyPass, Tracked, Live
  <2>2. CASE Start(s, o)
    BY <2>1, <2>2, StartTracked DEF Live
  <2>3. CASE ~Start(s, o)
    BY <1>3, <2>1, <2>3 DEF ReadyPass
  <2>. QED  BY <2>2, <2>3
<1>4. CASE RunningPass(s, o)
  <2>1. proc[s] # "none"
    <3>1. CASE SendSig(s, "STOP")
      BY <3>1, SendSigNoBirth DEF DataOK
    <3>2. CASE ~SendSig(s, "STOP")
      BY <1>4, <3>2 DEF RunningPass, Restart
    <3>. QED  BY <3>1, <3>2
  <2>2. pid[s] = "proc"  BY <2>1 DEF Tracked
  <2>. QED
    BY <1>4, <2>2 DEF RunningPass, Restart, ToStopping, SetState, Live,
                      DataOK
<1>5. CASE WaitingPass(s)
  <2>1. proc[s] # "none"
    <3>1. CASE SendSig(s, "CONT")
      BY <3>1, SendSigNoBirth DEF DataOK
    <3>2. CASE ~SendSig(s, "CONT")
      BY <1>5, <3>2 DEF WaitingPass
    <3>. QED  BY <3>1, <3>2
  <2>2. pid[s] = "proc"  BY <2>1 DEF Tracked
  <2>. QED
    BY <1>5, <2>2 DEF WaitingPass, ToStopping, SetState, Bump, Live, DataOK
<1>. QED  BY <1>1, <1>2, <1>3, <1>4, <1>5

\* Every step keeps TrackedProcess.
LEMMA TrackedNext ==
  ASSUME DataOK, TrackedProcess, [Next]_vars
  PROVE  TrackedProcess'
<1>. SUFFICES ASSUME NEW t \in Svc PROVE Tracked(t)'
  BY TrackedAll DEF Tracked, TrackedProcess, Live
<1>0. \A u \in Svc : Tracked(u)  BY TrackedAll
<1>1. CASE \E s \in Svc : SvcStep(s)
  <2>. PICK s \in Svc : SvcStep(s)  BY <1>1
  <2>. PICK o \in Outcomes(s) :
         \/ HaltedPass(s) \/ DonePass(s) \/ StoppingPass(s)
         \/ ReadyPass(s, o) \/ RunningPass(s, o) \/ WaitingPass(s)
    BY DEF SvcStep
  <2>1. reg' = reg  BY DEF SvcStep
  <2>2. CASE t = s
    <3>1. CASE s \in reg  BY <1>0, <2>1, <2>2, <3>1, PassTracked
    <3>2. CASE s \notin reg
      \* A pass never runs for an unregistered service: only registered
      \* services are put in work.  Without that fact the pass keeps
      \* s without a child (it starts none while not Enabled).
      <4>1. proc[s] = "none"  BY <1>0, <3>2 DEF Tracked
      <4>2. ~Enabled(s)  BY <3>2 DEF Enabled
      <4>3. proc'[s] = "none"
        <5>1. CASE SendSig(s, "STOP") \/ SendSig(s, "CONT")
          BY <4>1, <5>1, SendSigNoBirth DEF DataOK
        <5>2. CASE ~(SendSig(s, "STOP") \/ SendSig(s, "CONT"))
          BY <4>1, <4>2, <5>2 DEF HaltedPass, DonePass, StoppingPass,
                                  ReadyPass, RunningPass, WaitingPass
        <5>. QED  BY <5>1, <5>2
      <4>. QED  BY <2>2, <4>3 DEF Tracked
    <3>. QED  BY <3>1, <3>2
  <2>3. CASE t # s
    BY <1>0, <2>1, <2>3, PassOther DEF Tracked
  <2>. QED  BY <2>2, <2>3
<1>2. CASE \E s \in Svc : KillTimer(s)
  <2>. PICK s \in Svc : KillTimer(s)  BY <1>2
  <2>1. proc'[t] # "none" => proc[t] # "none"
    BY SendSigNoBirth DEF KillTimer, DataOK
  <2>. QED  BY <1>0, <2>1 DEF KillTimer, Tracked
<1>3. CASE \E s \in Svc : Reap(s)
  <2>. PICK s \in Svc : Reap(s)  BY <1>3
  <2>1. CASE t = s  BY <2>1 DEF Reap, Tracked, DataOK
  <2>2. CASE t # s
    <3>1. proc'[t] = proc[t] /\ pid'[t] = pid[t] /\ state' = state
      BY <2>2 DEF Reap, DataOK
    <3>2. t \in reg => t \in reg'  BY <2>2 DEF Reap
    <3>. QED  BY <1>0, <3>1, <3>2 DEF Tracked
  <2>. QED  BY <2>1, <2>2
<1>4. CASE \E s \in Svc : ProcExit(s)
  <2>. PICK s \in Svc : ProcExit(s)  BY <1>4
  <2>1. proc'[t] # "none" => proc[t] # "none"  BY DEF ProcExit, DataOK
  <2>. QED  BY <1>0, <2>1 DEF ProcExit, svcVars, Tracked
<1>5. CASE Prune
  <2>1. t \in reg /\ t \notin reg' => state[t] = "halted"  BY <1>5 DEF Prune
  <2>. QED  BY <1>0, <1>5, <2>1 DEF Prune, svcVars, Tracked, Live
<1>6. CASE ~(\E s \in Svc : SvcStep(s)) /\ ~(\E s \in Svc : KillTimer(s))
           /\ ~(\E s \in Svc : Reap(s)) /\ ~(\E s \in Svc : ProcExit(s))
           /\ ~Prune
  <2>. reg' = reg /\ state' = state /\ pid' = pid /\ proc' = proc
    BY <1>6 DEF Next, vars, svcVars, GsmStep, MainRunlevel, BootCheck,
                RetryTimer, BootTimer, CondChange, RequestRunlevel,
                RequestReload
  <2>. QED  BY <1>0 DEF Tracked
<1>. QED  BY <1>1, <1>2, <1>3, <1>4, <1>5, <1>6

\* finit never loses a child: every child of a service that has not been
\* collected by service_monitor() belongs to a registered service that
\* holds its pid in a state whose handler watches it (RUNNING, WAITING or
\* STOPPING), whatever the services, runlevels, failing forks and missing
\* binaries.
THEOREM ChildrenTracked == Spec => []TrackedProcess
<1>1. Init => TypeInv /\ TrackedProcess
  BY InitType DEF Init, TypeInv, ChangeLevel, TrackedProcess
<1>2. TypeInv /\ TrackedProcess /\ [Next]_vars => TypeInv' /\ TrackedProcess'
  BY TypeInvNext, TrackedNext, TypeSplit DEF TypeInv
<1>. QED  BY <1>1, <1>2, PTL DEF Spec

-----------------------------------------------------------------------------
(* The SIGKILL escalation.  StopEscalation is KillOnlyStopping, proved    *)
(* with RestartAlwaysRetried, and its second half, which is inductive by  *)
(* itself over the types.                                                   *)

\* The second half of StopEscalation for one service.
Esc(t) == state[t] = "stopping" /\ proc[t] \in {"run", "stop"} => timer[t] = "kill"

LiveStopKill == \A t \in reg : Esc(t)

\* kill() never revives a child: one alive or SIGSTOPped after it was so
\* before it.
LEMMA SendSigNoWake ==
  ASSUME NEW s \in Svc, NEW sig \in {"STOP", "CONT", "KILL"},
         proc \in [Svc -> ProcVals], SendSig(s, sig), NEW t \in Svc,
         proc'[t] \in {"run", "stop"}
  PROVE  proc[t] \in {"run", "stop"}
<1>1. \A x \in ProcVals : Deliver(sig, x) \in {"run", "stop"} => x \in {"run", "stop"}
  BY DEF Deliver, ProcVals
<1>. QED  BY <1>1 DEF SendSig

\* SIGKILL to the service's pid, or to every process, ends its child.
LEMMA SendKillEnds ==
  ASSUME NEW s \in Svc, proc \in [Svc -> ProcVals], SendSig(s, "KILL")
  PROVE  proc'[s] \notin {"run", "stop"}
BY DEF SendSig, Deliver, ProcVals

\* A pass of service_step() of s enters STOPPING only through
\* svc_set_state(), which arms the kill timer, and otherwise leaves a
\* STOPPING service's timer and child alone.
LEMMA PassEsc ==
  ASSUME DataOK, NEW s \in Svc, NEW o, Esc(s),
         \/ HaltedPass(s) \/ DonePass(s) \/ StoppingPass(s)
         \/ ReadyPass(s, o) \/ RunningPass(s, o) \/ WaitingPass(s)
  PROVE  Esc(s)'
<1>. SUFFICES ASSUME state'[s] = "stopping", proc'[s] \in {"run", "stop"}
              PROVE  timer'[s] = "kill"
  BY DEF Esc
<1>1. CASE HaltedPass(s) \/ DonePass(s)
  BY <1>1 DEF HaltedPass, DonePass, SetState, DataOK
<1>2. CASE StoppingPass(s)
  BY <1>2 DEF StoppingPass, SetState, Esc, DataOK
<1>3. CASE ReadyPass(s, o)
  BY <1>3 DEF ReadyPass, Start, StartRun, StartFailed, Started, SetState,
              Bump, DataOK
<1>4. CASE RunningPass(s, o)
  BY <1>4 DEF RunningPass, Restart, ToStopping, SetState, DataOK
<1>5. CASE WaitingPass(s)
  BY <1>5 DEF WaitingPass, ToStopping, SetState, Bump, DataOK
<1>. QED  BY <1>1, <1>2, <1>3, <1>4, <1>5

\* A pass of service_step() of s revives no other service's child.
LEMMA PassNoWake ==
  ASSUME DataOK, NEW s \in Svc, NEW o, NEW t \in Svc, t # s,
         \/ HaltedPass(s) \/ DonePass(s) \/ StoppingPass(s)
         \/ ReadyPass(s, o) \/ RunningPass(s, o) \/ WaitingPass(s),
         proc'[t] \in {"run", "stop"}
  PROVE  proc[t] \in {"run", "stop"}
<1>1. CASE \E sig \in {"STOP", "CONT"} : SendSig(s, sig)
  <2>. PICK sig \in {"STOP", "CONT"} : SendSig(s, sig)  BY <1>1
  <2>. QED  BY SendSigNoWake DEF DataOK
<1>2. CASE ~\E sig \in {"STOP", "CONT"} : SendSig(s, sig)
  <2>1. proc'[t] = proc[t] \/ proc'[t] = "none"
    BY <1>2 DEF HaltedPass, DonePass, StoppingPass, ReadyPass, RunningPass,
                WaitingPass, Start, StartRun, StartFailed, Started, DataOK
  <2>. QED  BY <2>1
<1>. QED  BY <1>1, <1>2

\* Every step keeps LiveStopKill.
LEMMA EscNext ==
  ASSUME DataOK, LiveStopKill, [Next]_vars
  PROVE  LiveStopKill'
<1>. SUFFICES ASSUME NEW t \in reg' PROVE Esc(t)'
  BY DEF LiveStopKill
<1>0. \A u \in reg : Esc(u)  BY DEF LiveStopKill
<1>1. CASE \E s \in Svc : SvcStep(s)
  <2>. PICK s \in Svc : SvcStep(s)  BY <1>1
  <2>. PICK o \in Outcomes(s) :
         \/ HaltedPass(s) \/ DonePass(s) \/ StoppingPass(s)
         \/ ReadyPass(s, o) \/ RunningPass(s, o) \/ WaitingPass(s)
    BY DEF SvcStep
  <2>1. reg' = reg  BY DEF SvcStep
  <2>2. CASE t = s  BY <1>0, <2>1, <2>2, PassEsc
  <2>3. CASE t # s
    <3>1. state'[t] = state[t] /\ timer'[t] = timer[t]
      BY <2>1, <2>3, PassFrame DEF DataOK
    <3>2. proc'[t] \in {"run", "stop"} => proc[t] \in {"run", "stop"}
      BY <2>1, <2>3, PassNoWake DEF DataOK
    <3>. QED  BY <1>0, <2>1, <3>1, <3>2 DEF Esc
  <2>. QED  BY <2>2, <2>3
<1>2. CASE \E s \in Svc : KillTimer(s)
  <2>. PICK s \in Svc : KillTimer(s)  BY <1>2
  <2>1. reg' = reg /\ state' = state  BY DEF KillTimer
  <2>2. CASE t = s  BY <2>2, SendKillEnds DEF KillTimer, Esc, DataOK
  <2>3. CASE t # s
    <3>1. proc'[t] \in {"run", "stop"} => proc[t] \in {"run", "stop"}
      BY <2>1, SendSigNoWake DEF KillTimer, DataOK
    <3>. QED  BY <1>0, <2>1, <2>3, <3>1 DEF KillTimer, Esc, DataOK
  <2>. QED  BY <2>2, <2>3
<1>3. CASE \E s \in Svc : Reap(s)
  <2>. PICK s \in Svc : Reap(s)  BY <1>3
  <2>1. reg' \subseteq reg /\ state' = state  BY DEF Reap
  <2>2. CASE t = s  BY <2>2 DEF Reap, Esc, DataOK
  <2>3. CASE t # s
    BY <1>0, <2>1, <2>3 DEF Reap, Esc, DataOK
  <2>. QED  BY <2>2, <2>3
<1>4. CASE \E s \in Svc : RetryTimer(s)
  <2>. PICK s \in Svc : RetryTimer(s)  BY <1>4
  <2>1. reg' = reg /\ state' = state /\ proc' = proc  BY DEF RetryTimer
  <2>2. CASE t = s
    \* The retry timer is armed, so a STOPPING s has no live child.
    <3>1. ~(state[s] = "stopping" /\ proc[s] \in {"run", "stop"})
      BY <1>0, <2>1, <2>2 DEF RetryTimer, Esc
    <3>. QED  BY <2>1, <2>2, <3>1 DEF Esc
  <2>3. CASE t # s
    BY <1>0, <2>1, <2>3 DEF RetryTimer, Bump, Esc, DataOK
  <2>. QED  BY <2>2, <2>3
<1>5. CASE \E s \in Svc : ProcExit(s)
  <2>. PICK s \in Svc : ProcExit(s)  BY <1>5
  <2>1. proc'[t] \in {"run", "stop"} => proc[t] \in {"run", "stop"}
    BY DEF ProcExit, DataOK
  <2>. QED  BY <1>0, <2>1 DEF ProcExit, svcVars, Esc
<1>6. CASE Prune
  BY <1>0, <1>6 DEF Prune, svcVars, Esc
<1>7. CASE ~(\E s \in Svc : SvcStep(s)) /\ ~(\E s \in Svc : KillTimer(s))
           /\ ~(\E s \in Svc : Reap(s)) /\ ~(\E s \in Svc : RetryTimer(s))
           /\ ~(\E s \in Svc : ProcExit(s)) /\ ~Prune
  <2>. reg' = reg /\ state' = state /\ timer' = timer /\ proc' = proc
    BY <1>7 DEF Next, vars, svcVars, GsmStep, MainRunlevel, BootCheck,
                BootTimer, CondChange, RequestRunlevel, RequestReload
  <2>. QED  BY <1>0 DEF Esc
<1>. QED  BY <1>1, <1>2, <1>3, <1>4, <1>5, <1>6, <1>7

\* The inductive invariant: the restart invariant and LiveStopKill.
EscInv == RetryInv /\ LiveStopKill

\* The SIGKILL escalation of svc_set_state() and service_kill(): a kill
\* timer is armed only for a STOPPING service, and a STOPPING service whose
\* child is alive or SIGSTOPped always has it, for every configuration
\* (failing forks and pid <= 0 included).
THEOREM KillEscalates == Spec => []StopEscalation
<1>1. Init => EscInv
  BY InitType DEF Init, EscInv, RetryInv, TypeInv, ChangeLevel,
                  KillOnlyStopping, RestartingHasRetry, LiveStopKill, Esc
<1>2. EscInv /\ [Next]_vars => EscInv'
  <2>. SUFFICES ASSUME EscInv, [Next]_vars PROVE EscInv'  OBVIOUS
  <2>1. DataOK  BY TypeSplit DEF EscInv, RetryInv, TypeInv
  <2>2. TypeInv'  BY TypeInvNext DEF EscInv, RetryInv
  <2>3. KillOnlyStopping' /\ RestartingHasRetry'
    BY <2>1, RetryNext DEF EscInv, RetryInv
  <2>4. LiveStopKill'  BY <2>1, EscNext DEF EscInv
  <2>. QED  BY <2>2, <2>3, <2>4 DEF EscInv, RetryInv
<1>3. EscInv => StopEscalation
  BY DEF EscInv, RetryInv, KillOnlyStopping, LiveStopKill, Esc, StopEscalation
<1>. QED  BY <1>1, <1>2, <1>3, PTL DEF Spec

=============================================================================

--------------------------- MODULE RefinementProofs ---------------------------
(* Proof that sm_step(), with the whole event loop around it, implements  *)
(* the abstract global state machine GsmAbstract under the mapping Phase. *)
EXTENDS SupervisorProofs

(***************************************************************************)
(* The one fact the mapping needs beyond the types: while sm_step() is in *)
(* RUNLEVEL_CHANGE the requested level differs from the current one.  It  *)
(* holds because RUNNING tests `runlevel == sm->newlevel` before entering *)
(* it, and because nothing else writes newlevel or runlevel meanwhile:    *)
(* entering a new state makes sm_step() go round again (smPending), and   *)
(* every other writer of newlevel waits for sm_step() to be done.         *)
(***************************************************************************)
ChangeInv == gsm = "runlevel_change" => smPending /\ newlevel # runlevel

RefInv == TypeInv /\ ChangeInv

LEMMA ChangeInvNext ==
  ASSUME DataOK, FlagsOK, ChangeInv, [Next]_vars
  PROVE  ChangeInv'
<1>1. CASE GsmStep
  <2>1. CASE gsm = "running"
    BY <1>1, <2>1 DEF GsmStep, GsmCase, GsmBootstrap, GsmBootstrapWait,
                     GsmRunning, GsmRunlevelChange, GsmRunlevelWait,
                     GsmReloadWait, StopWait, GsmRunlevelClean,
                     GsmReloadClean, GsmReloadChange, ChangeInv
  <2>2. CASE gsm # "running"
    <3>1. gsm' # "runlevel_change"
      BY <1>1, <2>2 DEF GsmStep, GsmCase, GsmBootstrap, GsmBootstrapWait,
                       GsmRunning, GsmRunlevelChange, GsmRunlevelWait,
                       GsmReloadWait, StopWait, GsmRunlevelClean,
                       GsmReloadClean, GsmReloadChange, DataOK, GsmStates
    <3>. QED  BY <3>1 DEF ChangeInv
  <2>. QED  BY <2>1, <2>2
<1>2. CASE MainRunlevel \/ BootCheck \/ (\E l \in Levels : RequestRunlevel(l))
  \* They run once sm_step() is done, hence never in RUNLEVEL_CHANGE.
  <2>1. ~smPending
    BY <1>2 DEF MainRunlevel, BootCheck, RequestRunlevel, AfterSm, Idle
  <2>2. gsm' = gsm /\ gsm # "runlevel_change"
    BY <1>2, <2>1 DEF MainRunlevel, BootCheck, RequestRunlevel, ChangeInv
  <2>. QED  BY <2>2 DEF ChangeInv
<1>3. CASE ~GsmStep /\ ~MainRunlevel /\ ~BootCheck
           /\ ~(\E l \in Levels : RequestRunlevel(l))
  <2>1. gsm' = gsm /\ newlevel' = newlevel /\ runlevel' = runlevel
    BY <1>3 DEF Next, vars, gsmVars, SvcStep, Prune, Reap, KillTimer,
                RetryTimer, ProcExit, BootTimer, CondChange, RequestReload
  <2>2. smPending => smPending'
    BY <1>3 DEF Next, vars, loopVars, SvcStep, Prune, Reap, KillTimer,
                RetryTimer, ProcExit, BootTimer, CondChange, RequestReload
  <2>. QED  BY <2>1, <2>2 DEF ChangeInv
<1>. QED  BY <1>1, <1>2, <1>3

\* The abstract variables under the mapping.
absVars == <<Phase, runlevel>>

\* One case of sm_step() is one step of GsmAbstract, or leaves the phase
\* and the level as they are.
LEMMA GsmCaseRefines ==
  ASSUME DataOK, ChangeLevel, ChangeInv, GsmCase
  PROVE  [GsmAbs!ANext]_absVars
<1>. USE DEF DataOK, GsmStates
<1>1. CASE GsmBootstrap \/ GsmRunlevelWait \/ GsmReloadWait \/ GsmReloadChange
  <2>1. runlevel' = runlevel
    BY <1>1 DEF GsmBootstrap, GsmRunlevelWait, GsmReloadWait, StopWait,
                GsmReloadChange
  <2>2. Phase' = Phase
    BY <1>1 DEF GsmBootstrap, GsmRunlevelWait, GsmReloadWait, StopWait,
                GsmReloadChange, Phase
  <2>. QED  BY <2>1, <2>2 DEF absVars
<1>2. CASE GsmBootstrapWait
  <2>1. CASE newlevel = -1
    BY <1>2, <2>1 DEF GsmBootstrapWait, Phase, absVars
  <2>2. CASE newlevel # -1
    <3>1. GsmAbs!Bootstrapped
      BY <1>2, <2>2 DEF GsmBootstrapWait, Phase, GsmAbs!Bootstrapped
    <3>. QED  BY <3>1 DEF GsmAbs!ANext
  <2>. QED  BY <2>1, <2>2
<1>3. CASE GsmRunning
  <2>1. CASE newlevel \in 0..9 /\ runlevel # newlevel
    <3>1. GsmAbs!BeginChange
      BY <1>3, <2>1 DEF GsmRunning, Phase, GsmAbs!BeginChange
    <3>. QED  BY <3>1 DEF GsmAbs!ANext
  <2>2. CASE newlevel \notin 0..9 /\ reload
    <3>1. GsmAbs!BeginReload
      BY <1>3, <2>2 DEF GsmRunning, Phase, GsmAbs!BeginReload
    <3>. QED  BY <3>1 DEF GsmAbs!ANext
  <2>3. CASE (newlevel \in 0..9 /\ runlevel = newlevel)
             \/ (newlevel \notin 0..9 /\ ~reload)
    BY <1>3, <2>3 DEF GsmRunning, Phase, absVars
  <2>. QED  BY <2>1, <2>2, <2>3
<1>4. CASE GsmRunlevelChange
  <2>1. newlevel \in Levels /\ newlevel # runlevel
    BY <1>4 DEF GsmRunlevelChange, ChangeLevel, ChangeInv
  <2>2. GsmAbs!Enter(newlevel)
    BY <1>4, <2>1 DEF GsmRunlevelChange, Phase, GsmAbs!Enter
  <2>. QED  BY <2>1, <2>2 DEF GsmAbs!ANext
<1>5. CASE GsmRunlevelClean
  <2>1. GsmAbs!Settle
    BY <1>5 DEF GsmRunlevelClean, Phase, GsmAbs!Settle
  <2>. QED  BY <2>1 DEF GsmAbs!ANext
<1>6. CASE GsmReloadClean
  <2>1. GsmAbs!EndReload
    BY <1>6 DEF GsmReloadClean, Phase, GsmAbs!EndReload
  <2>. QED  BY <2>1 DEF GsmAbs!ANext
<1>. QED  BY <1>1, <1>2, <1>3, <1>4, <1>5, <1>6 DEF GsmCase

\* Every step of the model is a step of GsmAbstract or a stutter of it.
LEMMA StepRefines ==
  ASSUME DataOK, ChangeLevel, ChangeInv, [Next]_vars
  PROVE  [GsmAbs!ANext]_absVars
<1>1. CASE GsmStep  BY <1>1, GsmCaseRefines DEF GsmStep
<1>2. CASE ~GsmStep
  <2>1. gsm' = gsm /\ runlevel' = runlevel
    BY <1>2 DEF Next, vars, gsmVars, SvcStep, MainRunlevel, BootCheck,
                Prune, Reap, KillTimer, RetryTimer, ProcExit, BootTimer,
                CondChange, RequestRunlevel, RequestReload
  <2>. QED  BY <2>1 DEF Phase, absVars
<1>. QED  BY <1>1, <1>2

\* The model of finit's global state machine, driven by the whole event
\* loop, implements the abstract machine of spec.md 4.2 (GsmAbstract): it
\* boots in S, changes runlevel only through RUNLEVEL_CHANGE to a level
\* other than the current one, keeps the level across a reload, and comes
\* back to RUNNING between two changes, for every configuration.
THEOREM GsmRefinement == Spec => ImplementsGsmAbstract
<1>1. Init => RefInv
  BY InitType DEF Init, RefInv, TypeInv, ChangeLevel, ChangeInv
<1>2. RefInv /\ [Next]_vars => RefInv'
  <2>. SUFFICES ASSUME RefInv, [Next]_vars PROVE RefInv'  OBVIOUS
  <2>1. DataOK /\ FlagsOK  BY TypeSplit DEF RefInv, TypeInv
  <2>2. TypeInv'  BY TypeInvNext DEF RefInv
  <2>3. ChangeInv'  BY <2>1, ChangeInvNext DEF RefInv
  <2>. QED  BY <2>2, <2>3 DEF RefInv
<1>3. Init => GsmAbs!AInit
  BY DEF Init, Phase, GsmAbs!AInit
<1>4. RefInv /\ [Next]_vars => [GsmAbs!ANext]_absVars
  BY StepRefines, TypeSplit DEF RefInv, TypeInv
<1>. QED
  BY <1>1, <1>2, <1>3, <1>4, PTL
  DEF Spec, ImplementsGsmAbstract, GsmAbs!ASpec, absVars, GsmAbs!avars

=============================================================================

------------------------------ MODULE MCLevel ------------------------------
(* The Supervisor with a history variable: `asked` is the runlevel of the  *)
(* last operator request (service_runlevel() from initctl, /dev/initctl or *)
(* a signal), -1 before any.  It is only recorded, never read by an action. *)
EXTENDS MCSupervisor

VARIABLE asked

LevelInit == Init /\ asked = -1

LevelNext ==
  /\ Next
  /\ asked' = IF \E l \in Levels : RequestRunlevel(l) THEN newlevel' ELSE asked

LevelSpec == LevelInit /\ [][LevelNext]_<<vars, asked>>

\* Once finit has settled in RUNNING with no request pending and no
\* callback running, the runlevel is the one the operator asked for last:
\* no step of finit itself (sm_check_bootstrap()'s service_runlevel() at
\* the end of bootstrap, sm.c:93) replaces an operator's choice.
OperatorLevelHonoured ==
  asked # -1 /\ Idle /\ gsm = "running" /\ newlevel = -1 => runlevel = asked
====

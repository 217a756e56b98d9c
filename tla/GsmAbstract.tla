----------------------------- MODULE GsmAbstract -----------------------------
(***************************************************************************)
(* What the global state machine promises (spec.md 4.2), without the      *)
(* services: finit boots in runlevel S, then alternates between RUNNING    *)
(* and either a runlevel change or a reload.  A change enters a level     *)
(* other than the current one and is followed by the teardown of the old  *)
(* level's services; a reload keeps the level; nothing goes back to boot. *)
(***************************************************************************)
CONSTANT Levels   \* the runlevels that may be requested

VARIABLES
  phase,   \* "boot", "running", "change", "teardown" or "reload"
  level    \* the current runlevel, 0 for S

avars == <<phase, level>>

AInit == phase = "boot" /\ level = 0

\* BOOTSTRAP_WAIT -> RUNNING once bootstrap is over.
Bootstrapped == phase = "boot" /\ phase' = "running" /\ UNCHANGED level

\* RUNNING -> RUNLEVEL_CHANGE on a request for another level.
BeginChange == phase = "running" /\ phase' = "change" /\ UNCHANGED level

\* RUNLEVEL_CHANGE: the new level, different from the current one, is set.
Enter(l) == phase = "change" /\ l # level /\ level' = l /\ phase' = "teardown"

\* RUNLEVEL_WAIT/CLEAN -> RUNNING.
Settle == phase = "teardown" /\ phase' = "running" /\ UNCHANGED level

\* RUNNING -> RELOAD_CHANGE -> ... -> RUNNING, at the same level.
BeginReload == phase = "running" /\ phase' = "reload" /\ UNCHANGED level
EndReload == phase = "reload" /\ phase' = "running" /\ UNCHANGED level

ANext ==
  \/ Bootstrapped \/ BeginChange \/ \E l \in Levels : Enter(l)
  \/ Settle \/ BeginReload \/ EndReload

ASpec == AInit /\ [][ANext]_avars

=============================================================================

---------------------------- MODULE MCSupervisor ----------------------------
(* A small finit configuration for TLC:                                     *)
(*   a  a daemon in runlevel 2 with a <condition> and SIGHUP support,      *)
(*   b  a task [S] that runs during bootstrap,                              *)
(*   c  a run [S3] command, waited for in place, also run in runlevel 3.   *)
EXTENDS Supervisor

CONSTANTS a, b, c

MCSvc == {a, b, c}
MCType == [s \in MCSvc |-> CASE s = a -> "service" [] s = b -> "task"
                                [] s = c -> "run"]
MCRL == [s \in MCSvc |-> CASE s = a -> {2} [] s = b -> {0} [] s = c -> {0, 3}]
MCHasCond == {a}
MCSigHup == {a}
MCLevels == {2, 3}
\* the task b also waits for a condition, and runs in runlevel 2
MCHasCondTask == {a, b}
MCRLTask == [s \in MCSvc |-> CASE s = a -> {2} [] s = b -> {2} [] s = c -> {0, 3}]
\* Two services for the liveness runs: the daemon a and the task b, which
\* runs in S and in runlevel 2, so a change to 3 stops both.
MCSvcLive == {a, b}
MCTypeLive == [s \in MCSvcLive |-> MCType[s]]
MCRLLive == [s \in MCSvcLive |-> CASE s = a -> {2} [] s = b -> {0, 2}]
\* the same with b a bootstrap-only task [S]
MCRLBoot == [s \in MCSvcLive |-> MCRL[s]]
====

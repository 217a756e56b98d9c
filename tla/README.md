# Formal model of finit's service supervision

This directory holds TLA+ models of finit, the process-1 init and service supervisor in `src/`. It also holds the TLC configurations that check them and TLAPS proofs about them.

## 1. The system and its parts

finit runs a single-threaded event loop (libuev). Each callback runs to completion. The supervision core is made of these parts:

| Part | Source | State it keeps | Operations |
|---|---|---|---|
| Per-service state machine (PSM) | `src/src/service.c` `service_step` 781-957 | `svc->state`, `pid`, `block`, `restart_counter`, `timer_cb`, dirty marker | `service_step`, `service_start`, `service_stop`, `service_restart`, `svc_set_state` |
| Global state machine (GSM) | `src/src/sm.c` `sm_step` 198-431 | `sm.state`, `newlevel`, `reload`, `in_teardown`; globals `runlevel`, `prevlevel` | `sm_step`, `sm_set_runlevel`, `sm_set_reload`, `sm_init` |
| Reaper | `service_monitor` 697-733 | none of its own | SIGCHLD for a collected pid: clear `svc->pid`, step that service, then `sm_step` |
| Timers | `service_kill` 327-340, `service_retry` 735-766, `sm_check_bootstrap` sm.c 53-102 | one timer slot per service; the bootstrap work item and its `static timeout` | 3 s kill escalation; respawn retry (1 ms, then 2 s or 5 s); the 1 s bootstrap check |
| Start-up | `src/finit.c` `main` 331-349 | none of its own | `sm_init`, a first `sm_step`, then `service_runlevel(cfglevel)` |
| Process helpers | `src/src/exec.c` `run` 63-150, `complete` 45-61 | the `strdup`'d command and `argv[]` | split a command line, fork, wait, decode the wait status |
| Numeric conversions | `src/src/util.c` `strtobytes` 128-155, `memsz` 218-242 | none | "2k"/"3M"/"1G" to bytes; bytes to "n.dG" |
| Registry, condition store, parser | not in `src/` | service records, condition states | modelled from `spec.md` (sections 4.4 and 4.5) |

How the parts interact:
- A PSM step reads `in_teardown`, `runlevel` and the service's aggregate condition. It signals the service's child with `kill(svc->pid, ...)` and arms and cancels that service's timer.
- The GSM steps every service (`service_step_all`) in each case of its switch. It leaves `RUNLEVEL_WAIT` and `RELOAD_WAIT` only when no STOPPING service still has a pid (`svc_stop_completed`).
- The reaper and the timers are loop events. They call `service_step` and `sm_step`.

Not modelled, as I/O with no state shared with the core:
- TTY handling (`tty.c`): parsing of tty lines, device checks and getty respawn;
- logging (`log.c`);
- the other helpers of `util.c` (`uptime`, `sanitize`, path, string and terminal helpers), and `run_interactive`, `run_parts` and `getty` of `exec.c`, which wrap the same fork/wait calls as `run` around terminal output;
- cgroups (`cgroup.h`);
- the bootmisc plugin (file removal at boot).

What makes this core hard:
- Callbacks nest synchronously (a reap steps a service, then the GSM, which steps every service).
- Processes exit at any time, relative to the kill and retry timers.
- A child can be SIGSTOPped, and must be resumed before it can be stopped.
- `svc->pid` holds special values (0 after collection, -1 after a failed `fork()`), and these reach `kill()`.
- A single timer slot per service is shared by the kill timer and the retry timer.
- Bootstrap hands over to the configured runlevel through two paths: `main` and the 1 s bootstrap timer.

## 2. Modules

### `Supervisor.tla`: the whole supervision core in one module

Constants (all model values or small sets in the MC module):
- `Svc`, with `Type` (service, task or run) and `RL` (the runlevels of each service, where 0 is bootstrap S);
- `HasCond`, `SigHup`, `Missing`;
- `Levels` (the levels an operator may request), `CfgLevel`, `CmdLevel`;
- `RESPAWN_MAX`, `BootTimeout`, `ForkCanFail`;
- the model bound `CounterCap`.

Variables and their correspondence to the code:

| Variable | Code |
|---|---|
| `gsm`, `newlevel`, `reload`, `teardown` | `sm.state`, `sm.newlevel`, `sm.reload`, `sm.in_teardown` |
| `runlevel`, `prevlevel` | globals of `finit.c` |
| `state`, `block`, `counter`, `dirty` | `svc->state`, `svc->block`, `svc->restart_counter`, the dirty marker |
| `pid` | `svc->pid`: `"none"` = 0, `"proc"` = the child, `"bad"` = -1 from a failed `fork()` |
| `timer` | `svc->timer_cb`: none, `service_retry` or `service_kill` |
| `reg` | the records still registered |
| `cond` | `cond_get_agg(svc->cond)` |
| `proc` | the kernel's view of each service's child: none, running, SIGSTOPped, or exited and not yet collected |
| `badkill` | history: `kill()` was called with a pid <= 0 |
| `work`, `cur`, `smPending`, `cont` | the callback in progress (below) |
| `bootArmed`, `bootLeft` | the bootstrap work item and its `static int timeout` |

Run to completion is modelled by micro-steps:
- `work` is the set of services that `service_step_all` still has to step.
- `SvcStep(s)` is one pass of the switch of `service_step`. `cur` keeps `s` while its state changes, which is the `goto restart` loop.
- `smPending` says that `sm_step` runs next. `GsmStep` is one case of its switch (`GsmBootstrap`, `GsmBootstrapWait`, `GsmRunning`, `GsmRunlevelChange`, `GsmRunlevelWait`, `GsmRunlevelClean`, `GsmReloadChange`, `GsmReloadWait`, `GsmReloadClean`, joined in `GsmCase`), and it re-runs while `sm.state` changes.
- `cont` is what the callback does after `sm_step` returns:
  - `MainRunlevel`: `service_runlevel(cfglevel)` in `main`;
  - `BootCheck`: the rest of `sm_check_bootstrap`;
  - `Prune`: `svc_prune_bootstrap`.

Loop events are only enabled when nothing of the current callback is left (`Idle`). These events are:
- `Reap`;
- `KillTimer`;
- `RetryTimer`;
- `BootTimer`;
- `CondChange`;
- `RequestRunlevel`;
- `RequestReload`.

`ProcExit` (a child exits) can happen at any moment, because the kernel does not wait for the loop.

Order of `service_step_all`: it walks the registry in list order. The model steps the services of `work` in any order. This over-approximates the code. The services' steps share only the broadcast effect of `kill(0/-1, ...)`.

What a case of `sm_step` assigns after its `service_step_all` (the new `sm.state`, and `in_teardown` in the WAIT states) is assigned in the same step. `service_step` never reads `sm.state`.

`service_retry` re-arms its timer after its own `service_step`. That step cannot touch the timer, because the service is HALTED and unblocked, so the model re-arms the timer in the same step.

Each action models the whole handler and its early returns:
- `Reap` includes the `!prevlevel && svc_clean_bootstrap()` return, which skips `sm_step`.
- `Start` covers the missing command, `is_norespawn`, an unchecked `fork()` that stores -1, and the `complete()` of run commands.
- For a run command whose fork failed, `complete()` is `waitpid(-1)`, which collects another child.

Modelled from `spec.md`, because that code is not in `src/` (marked `spec_modelled` in PROJECT.json):
- `svc_stop_completed`, `service_completed`, `svc_prune_bootstrap`, `svc_clean_bootstrap`, `svc_is_daemon`;
- `conf_reload`, which marks any subset of the services dirty;
- `cond_reload`, which puts the asserted conditions into flux;
- condition producers (`CondChange`).

`svc_del` is assumed to cancel the record's timer.

### `GsmAbstract.tla`: what the global state machine promises

The abstract machine of spec.md 4.2, without services. Variables `phase` (boot, running, change, teardown, reload) and `level`. Actions: `Bootstrapped`, `BeginChange`, `Enter(l)` (a level other than the current one), `Settle`, `BeginReload`, `EndReload`.

`Supervisor.tla` maps onto it with `Phase` (the two BOOTSTRAP states are boot, RUNLEVEL_WAIT and RUNLEVEL_CLEAN are teardown, the three RELOAD states are reload) and `level <- runlevel`. `ImplementsGsmAbstract == GsmAbs!ASpec` is checked as a PROPERTY and proved (section 5).

### `Exec.tla`: `run()` of exec.c

State: `cmd` (the argument), `mem` (the `strdup`'d copy with its terminating NUL, cut up in place), the cursor `arg`, the count `i`, `args[0..NUM_ARGS]`, `pc`, the wait `status`, the `result`, an `eoverflow` flag and `fault`. Pointers are indices into `mem`, with 0 for NULL. An access outside the buffer, or through NULL, sets `fault` and ends the behaviour (it is undefined in C).

Actions follow `run()` line by line:
- `NoMemory`: `strdup` fails;
- `SplitFirst`: the first `strsep`;
- the loop `while (arg && i < NUM_ARGS)`, as `LoopPlain`, `LoopQuoted` (the quote handling of lines 79-87) and `LoopOutOfBounds` (the test `*arg` reading past the buffer);
- `SplitDone`: `args[i] = NULL` and the EOVERFLOW refusal;
- `Fork` (fork may fail);
- `Complete`: `complete()` fails, or the status is decoded with `WEXITSTATUS`/`WIFSIGNALED`.

The child's status is any exit code of `ExitCodes` or any signal of `Signals`, with or without core dump. Reference definitions: `Fields(c)` (the command split at every blank) and `Argv` (the C strings `args[]` point to).

`MCExec.tla` enumerates every command up to 4 characters over `a`, blank, tab and `"`, with `NUM_ARGS = 3` so that the bound is reached.

### `Util.tla`: `strtobytes()` and `memsz()`

Both are pure functions. The module's single variable is the input, chosen from a bounded set, and the properties compare the code's result with a reference.
- `StrToBytes` follows `strspn`, the suffix test, `atoi` and `while (mod--) bytes *= 1000`. A number is held as a pair of 16-bit halves, so that both a 32-bit int (wrapped as the build does on signed overflow) and the exact value are representable in TLC.
- `MemSz` follows the divisions of `memsz` and returns the printed fields. Its `if (gb) ... else if (mb) ... else` chain is an IF/ELSE chain, not a CASE. The arms of a CASE are unordered in TLA+, so a CASE would leave the value unspecified when both counts are non-zero.
- The constants are bounded by two assumptions. `ArgsAssumption` limits the strings to 3 characters. `SizesAssumption` keeps the sizes naturals that fit in an int.

`MCUtil.tla` enumerates every string up to 3 characters over `0 2 3 G M k x`, and sizes below 2 GiB at the edges of the tenths (101/102, 1019/1020 MiB and KiB).

### `MCSupervisor.tla`

This module instantiates the model with three services:
- `a`: a daemon in runlevel 2, with a condition and SIGHUP support;
- `b`: a task `[S]`;
- `c`: a run command `[S3]`.

The other constants are:
- `Levels = {2, 3}`, `CfgLevel = 2`, `CmdLevel = 0`;
- `RESPAWN_MAX = 1`, `CounterCap = 2` (the code has 10; one retry is enough to reach both branches of the `restart_counter >= RESPAWN_MAX` test at service.c:749);
- `BootTimeout = 1`: one rescheduling tick and then the timeout path.

These bounds are enough for the cases that matter to happen:
- bootstrap with a running `[S]` task;
- a change from runlevel 2 to 3 that stops `a` and starts `c`;
- changes back;
- reloads with SIGHUP and non-SIGHUP restarts;
- crash, retry and crash again up to CRASHING: with `RESPAWN_MAX = 1` the second crash is marked CRASHING;
- condition flux with SIGSTOP and SIGCONT;
- kill escalation for a task that is not sent SIGTERM.

The main run reaches about 3.0 M distinct states in about 40 s on two workers; the fork run reaches about 1.2 M. The two passing runs together fire every action and every disjunct.

`MCTaskCond` gives the task a condition and runlevel 2 (`MCHasCondTask`, `MCRLTask`).

The liveness runs use two services (`MCSvcLive`): the daemon `a` and the task `b`, with `RESPAWN_MAX = 0` and `CounterCap = 1`. Liveness checking builds a tableau over the state graph, and this keeps it to about 90 K states (2.5 min). A runlevel change from 2 to 3 still stops both services, and the kill timer still races their exits.

### `MCLevel.tla`

This module extends `MCSupervisor` with a history variable `asked`: the level of the last operator request. It is written by `LevelNext` and read by no action.

### Proof modules

`SupervisorProofs.tla`, `TrackedProofs.tla`, `RunlevelProofs.tla`, `GroupKillProofs.tla`, `RefinementProofs.tla`, `ExecProofs.tla` and `UtilProofs.tla` hold the TLAPS proofs (section 5).

## 3. Runs

| Run | cfg | Expect | What it shows |
|---|---|---|---|
| core | `MCSupervisor.cfg` | pass | Under bootstrap, runlevel changes, reloads, crashes, retries, condition flux and kill escalation, the properties below hold, and the model implements `GsmAbstract`. |
| fork_missing | `MCSupervisorFork.cfg` | pass | With failing `fork()` and a missing command, children are still tracked and stopped, and the runlevel is respected. |
| task_cond_group_kill | `MCTaskCond.cfg` | violation | A collected task whose condition goes into flux gets `kill(0, SIGSTOP)`: finit stops its own process group. |
| fork_fail_steal | `MCForkSteal.cfg` | violation | A run command whose fork failed waits with `waitpid(-1)` and steals another service's child. |
| liveness | `MCLive.cfg` | pass | Under the fairness of section 4, a runlevel change reaches RUNNING and every STOPPING service leaves STOPPING. |
| bootstrap_reap_stall | `MCLiveBoot.cfg` | violation | A bootstrap-only task that is stopped by the first runlevel change is reaped through `svc_clean_bootstrap`. That path returns without calling `sm_step` (service.c:716), so the GSM stays in RUNLEVEL_WAIT for good. |
| respawn_budget | `MCBudget.cfg` | violation | A failed start in READY raises `restart_counter` past `RESPAWN_MAX` and never leads to CRASHING (service.c:852, against spec.md 8). |
| operator_level_lost | `MCLevel.cfg` | violation | An operator asks for runlevel 3 while a change to 2 is in RUNLEVEL_WAIT. The bootstrap timer's `service_runlevel(cfglevel)` (sm.c:93) then overwrites the request, and the system stays in 2. |
| exec | `MCExec.cfg` | pass | `run()` is memory safe for commands without quotes, execs exactly their fields, refuses exactly the commands with more than `NUM_ARGS` fields, and returns 0 only for a clean exit. |
| exec_quote | `MCExecQuote.cfg` | violation | A command with an unclosed quote makes `run()` write through `NULL - 1` (exec.c:85). A command ending in a closing quote makes it read past the buffer. |
| util | `MCUtil.cfg` | pass | `strtobytes` is exact for every well-formed size whose value fits in an int. `memsz` prints the whole count of the largest unit a size reaches. |
| util_bytes_overflow | `MCUtilBytes.cfg` | violation | `strtobytes("3G")` overflows the int (util.c:152): the build returns -1294967296. |

Divergences found with TLC while the model was built. They are kept out of the runs and recorded here:
- A completed run command stays RUNNING with pid 0 (service.c:870). spec.md 3 ties pid 0 to HALTED, READY or DONE.
- `main` asks for the configured runlevel at once (finit.c:349). As a result, the `[S]` tasks are stopped before they complete and before the bootstrap timeout, whereas spec.md 4.2 waits for one or the other.
- After a failed `fork()`, the kill timer calls `kill(-1, SIGKILL)` (service.c:302). The model reaches this with `ForkCanFail`, and it breaks `NoGroupKill`. The run `task_cond_group_kill` shows the other path to a group kill.
- `memsz` prints `mb / 102` as the tenths digit (util.c:235). That digit is 10 for 1020-1023, so about 1.996 GiB prints as "1.10G".

Properties of the passing runs:
- `TrackedProcess`: every child that is not yet collected belongs to a registered service that holds its pid and is RUNNING, WAITING or STOPPING.
- `StopEscalation`: a kill timer is armed only for STOPPING services, and always for a STOPPING service whose child is alive.
- `StoppedOnlyWaiting`: a child is SIGSTOPped only while its service is WAITING.
- `RunlevelRespected`: outside RUNLEVEL_WAIT, no child of a service outside the current runlevel is alive.
- `RestartingHasRetry`: a service restarting after a crash is HALTED with its retry timer armed.
- `NoGroupKill`: `kill()` is never called with a pid <= 0.
- `ImplementsGsmAbstract`: the refinement of `GsmAbstract`.
- `RunlevelChangeTerminates`: `gsm = "runlevel_change" ~> gsm = "running"` (spec.md 8).
- `StopCompletes`: a registered STOPPING service eventually leaves STOPPING, or is unregistered.
- `RunMemorySafeUnquoted`, `RunSplitsFields`, `RunZeroMeansSuccess`: for `run()`, as in the table.
- `StrToBytesInRange`: `strtobytes` returns the denoted count whenever that count fits in an int.
- `MemSzUnit`: `memsz` prints a non-zero size in the largest unit it reaches, with the whole count of that unit.

Each property has a mutant: a variant operator, defined in the module of the operator it replaces, that introduces a plausible bug. TLC must catch each mutant:

| Property | Mutant |
|---|---|
| `TypeOK` | `BootCheck_NoCmdTest` (the `if (cmdlevel)` test is dropped) |
| `TrackedProcess` | `StoppingPass_NoPidCheck` |
| `StopEscalation` | `ToStopping_NoKillTimer` |
| `StoppedOnlyWaiting` | `WaitingPass_NoCont` |
| `RunlevelRespected` | `GsmRunlevelWait_NoCheck` (the RUNLEVEL_WAIT case leaves without asking `svc_stop_completed()`) |
| `RestartingHasRetry` | `RetryTimer_NoCrash` |
| `NoGroupKill` | `WaitingPass_NoPidCheck` |
| `ImplementsGsmAbstract` | `GsmRunning_NoLevelTest` (a request for the current level starts a change) |
| `RunlevelChangeTerminates` | `Reap_NoSmStep` (the reaper does not call `sm_step`) |
| `StopCompletes` | `ToStopping_NoKillTimer` |
| `RunMemorySafeUnquoted` | `LoopCond_OffByOne` (`i <= NUM_ARGS`) |
| `RunSplitsFields` | `SplitDone_NoArgTest` (refuses every command with `NUM_ARGS` fields) |
| `RunZeroMeansSuccess` | `Complete_NoSignalFix` (no `result = 1` for a signalled child) |
| `TypeOK` of `Exec` | `Complete_RawStatus` (the raw status is returned) |
| `StrToBytesInRange` | `StrToBytes_PreDec` (`while (--mod)`) |
| `MemSzUnit` | `MemSz_SwappedOrder` (the MiB count is tested before the GiB count) |

## 4. Fairness and liveness

`FairSpec == Spec /\ Fairness` in `Supervisor.tla`:
- `WF_vars(Callback)`, where `Callback` is every micro-step of a running callback: `SvcStep`, `GsmStep`, `MainRunlevel`, `BootCheck`, `Prune`. A libuev callback runs to completion once it has started. At most one of these steps is enabled at a time, so one weak-fairness condition on their disjunction is the same as one per step.
- `SF_vars` on `Reap(s)`, `KillTimer(s)` and `RetryTimer(s)` for each service, and on `BootTimer`. These events wait for the loop to be idle, and a new request can make it busy again, so they are enabled only intermittently. libuev dispatches every pending watcher each time it polls, so an event that stays pending is served. Strong fairness states exactly that.
- No fairness on `ProcExit` (a daemon may run for ever), `CondChange`, `RequestRunlevel` or `RequestReload` (an operator need not act). A child that ignores SIGTERM is still ended by the kill timer's SIGKILL.

`RunlevelChangeTerminates` holds on the two-service instance when `b` also runs in runlevel 2. With `b` a bootstrap-only task `[S]`, it fails (the bootstrap_reap_stall run): a stopped `[S]` task is collected through `svc_clean_bootstrap`, and no `sm_step` follows.

## 5. Proofs (checked by tlapm)

The constants' ASSUMEs are the only hypotheses: those of `Supervisor.tla`, `ExecAssumption` in `Exec.tla` and `SizesAssumption` in `Util.tla`.

`SupervisorProofs.tla`:
- `TypeCorrect == Spec => []TypeOK`.
  - `TypeOK` is not inductive. In RUNLEVEL_CHANGE, `sm_step` sets `runlevel = sm->newlevel`, and that is a level only because the RUNNING case tested it.
  - The inductive invariant is `TypeInv == TypeOK /\ ChangeLevel`, where `ChangeLevel == gsm = "runlevel_change" => newlevel \in Levels`.
  - The proof has one lemma per group of actions: `SvcStepType` (through `PassType` and `StartType`), `GsmStepType`, `KillTimerType`, `LoopEventType` and `SvcEventType`. `SendSigType` covers the broadcast of `kill()`.
  - `TypeOK` is split into `FlagsOK` (the Boolean variables, proved with Zenon) and `DataOK` (proved with SMT).
- `RestartAlwaysRetried == Spec => []RestartingHasRetry`.
  - The invariant alone is not inductive. `service_timeout_after` leaves an armed timer alone (`-EBUSY`), so the crash branch arms the retry only when the slot is free or already holds a retry.
  - The strengthening is `KillOnlyStopping`: only STOPPING services hold the kill timer.
  - `RetryNext` proves, for each action, that every registered service keeps both facts. `PassRetry` covers the service being stepped and `PassFrame` covers the others.

`TrackedProofs.tla`:
- `ChildrenTracked == Spec => []TrackedProcess`, for every configuration, including failing forks and missing commands.
  - `TrackedProcess` is inductive over `DataOK`. A child appears only in `Start`, for a READY service, which has none (`StartTracked`). A service leaves RUNNING, WAITING or STOPPING only when its pid is 0, so it has no child then. `kill()` never creates a child (`SendSigNoBirth`).
  - `PassTracked` covers the service being stepped and `PassOther` the others. `TrackedNext` has one step per action.
- `KillEscalates == Spec => []StopEscalation`.
  - The first half of `StopEscalation` is `KillOnlyStopping`, from the restart invariant.
  - The second half, `LiveStopKill`, is inductive by itself. STOPPING is entered only through `svc_set_state`, which arms the kill timer (`PassEsc`). The kill timer's SIGKILL ends the child whether the pid is the child's or <= 0 (`SendKillEnds`). No signal revives a child (`SendSigNoWake`). The retry timer cannot fire for a STOPPING service that has a child, because that service holds the kill timer.

`RefinementProofs.tla`:
- `GsmRefinement == Spec => ImplementsGsmAbstract`.
  - The initial state maps to `AInit`. Every step maps to an abstract step or a stutter (`GsmCaseRefines` has one case per case of `sm_step`, and `StepRefines` adds the other actions).
  - The one fact needed beyond the types is `ChangeInv`: in RUNLEVEL_CHANGE, `smPending` holds and `newlevel # runlevel`. RUNNING tests `runlevel == sm->newlevel` before it enters RUNLEVEL_CHANGE. Every other writer of `newlevel` waits for `sm_step` to finish, and entering a new state makes `sm_step` run again.

`RunlevelProofs.tla`:
- `LevelRespected == Spec => []RunlevelRespected`, for every configuration.
  - The property alone is not inductive. RUNLEVEL_CHANGE makes the children of services that are no longer allowed stale, and they disappear only after `service_step_all` has stepped those services.
  - The strengthening is `StaleStopping`. A stale child (running or stopped, of a service not in the current runlevel) exists only while `gsm = "runlevel_wait"`. Its service is then in `work` or `cur`, or is already STOPPING.
  - `PassSweeps` shows that stepping a stale service leaves it STOPPING. `PassNoStale` shows that a step creates no new stale child. RUNLEVEL_WAIT leaves only once `StopPending` is empty, and a STOPPING service with a live child holds the kill timer.

`GroupKillProofs.tla`:
- `GroupKillFree == ~ForkCanFail /\ DaemonConds => (Spec => []NoGroupKill)`.
- `StopOnlyInWaiting == ~ForkCanFail /\ DaemonConds => (Spec => []StoppedOnlyWaiting)`.
- Why the hypotheses are there. Both properties fail in two configurations, and TLC shows both failures:
  - A failed `fork()` leaves pid -1 (service.c:302). Checked against `NoGroupKill`, the `fork_missing` configuration is violated: a later `kill(-1, ...)` reaches every process. No run keeps that check; the `fork_missing` run asks about tracking, stopping and runlevels.
  - A task with a condition is left WAITING with pid 0 (service.c:899; the `task_cond_group_kill` run).
  - `DaemonConds` says that only services declare conditions. The core configuration meets both hypotheses.
- The inductive invariant is `GKInv`. It is `RetryInv`, `TrackedProcess` and `WorkReg` (`work` and `cur` are registered), plus the following per-service facts, `Safe` and `StopAt`:
  - `pid` is never `"bad"`.
  - A condition that is not on was declared.
  - A STOPPING service without a child is in `work \cup cur`. So the next `kill()` for it, SIGKILL from `service_kill`, finds its child.
  - A WAITING service without a child is in `work \cup cur` and enabled, or it is about to be stepped. So the SIGSTOP and SIGCONT of `service_step` always find a child.
  - A stopped child belongs to a WAITING service.
- `PassOwn` proves that the pass of `service_step` sends signals only to its own child. `PassSafe` proves that it re-establishes `Safe` and `StopAt`. `GKSvcStep`, `GKGsmStep`, `GKKillTimer`, `GKReap`, `GKRetryTimer` and `GKOther` cover the actions.

`ExecProofs.tla`:
- It proves three theorems for every command length, alphabet without NUL, `NUM_ARGS`, set of exit codes and set of signals:
  - `ExecTypeCorrect == Spec => []TypeOK`;
  - `UnquotedMemorySafe == Spec => []RunMemorySafeUnquoted`;
  - `ZeroMeansSuccess == Spec => []RunZeroMeansSuccess`.
- None of the three is inductive. Whether the cursor stays in the copy depends on what the copy holds.
- The inductive invariant is `ExecInv`. It is the three properties plus:
  - `MemShape`: the copy is one cell longer than the command and ends in NUL, and every other cell holds the command's character or a NUL. `strsep()` and the quote handling only write NULs.
  - `Cursor`: `arg` is in `0..Len(mem)+1` (`0..Len(mem)` for an unquoted command) and `i` is in `0..NUM_ARGS`. Before the split, `arg` is 1 and `i` is 0.
- `LeastElement` proves that `Min` of a non-empty set of naturals is its least element. It uses `WFMin` of WellFoundedInduction on the well-founded `<`.
- From `LeastElement`, `StopInside` proves that `strsep()` stops inside the copy, at a delimiter or at the terminating NUL.
- `QuoteInCmd` proves that a quote in the copy comes from the command, so a quoted token exists only in a quoted command.
- `StatusDecode` proves two facts about every status of `Statuses`. Its low seven bits are never 127, the value `WIFSIGNALED()` excludes, and its exit code is in 0..255. With it, `ExecComplete` shows that a 0 result means `WIFEXITED` with exit code 0.
- One lemma covers each group of actions: `ExecSplit`, `ExecQuoted`, `ExecComplete` and `ExecOther`, with the frame lemma `ExecFrame`.

`UtilProofs.tla`:
- `MemSzUnitCorrect == Spec => []MemSzUnit`.
- Its core is `MemSzUnitNat`, which holds for every natural size, not only those `MCUtil` enumerates. The proof takes one case per branch of memsz()'s `if` chain and uses the arithmetic of `\div` and `%` by GiB, MiB and KiB.

The strengthened invariants were also checked with TLC before they were proved. `ExecInv` was checked as an invariant of the `exec` run.

Out of the prover's reach, and left to TLC:
- liveness (`RunlevelChangeTerminates`, `StopCompletes`) and `ENABLED`;
- `NoGroupKill` and `StoppedOnlyWaiting` outside the two hypotheses. Their violations there are the point of the `task_cond_group_kill` run and of the failed-fork path at service.c:302;
- `RunSplitsFields` and `StrToBytesInRange`. Both compare the code with a reference defined by recursion over the string: `Fields`, the digit value `Decimal` and the scaling `Scale`. Proving them for every string needs induction over data, which the installed provers cannot instantiate, so TLC checks them exhaustively over bounded inputs;
- `RunMemorySafe` for quoted commands. It is false (the `exec_quote` run), so only the unquoted half is proved.

## 6. Open work

1. Shutdown (runlevels 0 and 6), INETD types, SYSV services (service.c:835) and REMOVED records through `svc_clean_dynamic`.
2. The counter left over after a STOP cancels a pending retry (service.c:776). spec.md 9 leaves the reset policy open, so this is not stated as a property.
3. `svc_del` is not in `src/`. The model assumes that it cancels the record's timer.

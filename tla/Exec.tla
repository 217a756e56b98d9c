-------------------------------- MODULE Exec --------------------------------
(***************************************************************************)
(* run() of src/src/exec.c: the command line is copied (strdup), split in  *)
(* place into argv[] with strsep(), the command is forked and waited for   *)
(* with complete(), and its wait status is turned into a return value.    *)
(* finit calls it at boot for fixed commands and, via run_interactive(),  *)
(* for the `network` command of finit.conf and for every `auto` line of   *)
(* /etc/network/interfaces, so the command text is configuration text.   *)
(*                                                                         *)
(* The copy is modelled as memory: `mem` holds the characters and the     *)
(* terminating NUL of the strdup'd buffer, pointers are indices into it   *)
(* (0 is NULL), and an access outside 1..Len(mem) is recorded in `fault`  *)
(* and ends the behaviour: what follows it is undefined.                  *)
(***************************************************************************)
EXTENDS Integers, Sequences, SequencesExt

CONSTANTS
  Chars,      \* the characters a command may contain
  MaxLen,     \* longest command enumerated
  NUM_ARGS,   \* exec.c:39 (16)
  ExitCodes,  \* exit codes a command may end with
  Signals     \* signals that may end a command

NUL == "NUL"
Blanks == {" ", "\t"}     \* the delimiters of strsep(&arg, "\t ")
Quotes == {"'", "\""}

ASSUME ExecAssumption ==
  /\ NUL \notin Chars /\ MaxLen \in Nat /\ NUM_ARGS \in Nat \ {0}
  /\ ExitCodes \subseteq 0..255 /\ Signals \subseteq 1..64

\* The commands enumerated: every string over Chars up to MaxLen.
Cmds == UNION {[1..n -> Chars] : n \in 0..MaxLen}

\* The wait status waitpid() stores: exit code in bits 8..15, or the
\* terminating signal in bits 0..6 with the core-dump flag in bit 7.
Statuses == {c * 256 : c \in ExitCodes} \cup Signals
              \cup {sig + 128 : sig \in Signals}
WEXITSTATUS(st) == (st \div 256) % 256
WTERMSIG(st) == st % 128
WIFEXITED(st) == WTERMSIG(st) = 0
WIFSIGNALED(st) == WTERMSIG(st) \notin {0, 127}

VARIABLES
  cmd,     \* the argument of run()
  mem,     \* the strdup'd copy that strsep() cuts up
  arg,     \* the cursor `arg`, 0 for NULL
  i,       \* the number of argv entries filled
  args,    \* args[0..NUM_ARGS]: start of each entry, 0 for NULL
  pc,      \* where run() is
  status,  \* the wait status complete() returned
  result,  \* run()'s return value once pc = "done"
  eoverflow, \* errno was set to EOVERFLOW (command too long)
  fault    \* the first out-of-bounds or NULL access, "none" if none

vars == <<cmd, mem, arg, i, args, pc, status, result, eoverflow, fault>>

-----------------------------------------------------------------------------

\* The position where strsep() stops when scanning from p for one of the
\* delimiters D: the first delimiter, else the terminating NUL.
Stop(p, D) == Min({q \in p..Len(mem) : mem[q] \in D \cup {NUL}})

\* arg = strsep(&arg, D) after the token at arg has been taken: cut the
\* token at the delimiter and step over it, or set arg to NULL at the NUL.
Strsep(D) ==
  LET q == Stop(arg, D) IN
  IF mem[q] = NUL THEN arg' = 0 /\ UNCHANGED mem
                  ELSE arg' = q + 1 /\ mem' = [mem EXCEPT ![q] = NUL]

\* args[i++] = the token at arg.
Take == args' = [args EXCEPT ![i] = arg] /\ i' = i + 1

\* An access out of the buffer: the behaviour stops here.
Crash(kind) == fault' = kind /\ pc' = "crashed"
               /\ UNCHANGED <<cmd, mem, arg, i, args, status, result, eoverflow>>

\* backup = arg = strdup(cmd); the copy may fail to be allocated.
Init ==
  /\ cmd \in Cmds
  /\ mem = cmd \o <<NUL>>
  /\ arg = 1 /\ i = 0 /\ args = [k \in 0..NUM_ARGS |-> 0]
  /\ pc \in {"split", "nomem"}
  /\ status = 0 /\ result = 0 /\ eoverflow = FALSE /\ fault = "none"

\* if (!arg) return 1;
NoMemory ==
  /\ pc = "nomem" /\ result' = 1 /\ pc' = "done"
  /\ UNCHANGED <<cmd, mem, arg, i, args, status, eoverflow, fault>>

\* args[i++] = strsep(&arg, "\t ");
SplitFirst ==
  /\ pc = "split"
  /\ Take /\ Strsep(Blanks) /\ pc' = "loop"
  /\ UNCHANGED <<cmd, status, result, eoverflow, fault>>

\* The condition of the splitting loop, while (arg && i < NUM_ARGS).
LoopCond_OffByOne == arg # 0 /\ i <= NUM_ARGS

LoopCond == arg # 0 /\ i < NUM_ARGS

\* The loop body reads *arg.
LoopOutOfBounds ==
  /\ pc = "loop" /\ LoopCond /\ arg \notin 1..Len(mem)
  /\ Crash("read")

\* A token that starts with a quote: it runs to the next copy of that
\* quote, the quote is put back (*p = *delim) and the character after it
\* is cut (*arg++ = 0).  Without a closing quote strsep() leaves arg NULL
\* and p = arg - 1 is written through.
LoopQuoted ==
  /\ pc = "loop" /\ LoopCond /\ arg \in 1..Len(mem)
  /\ mem[arg] \in Quotes
  /\ LET q == Stop(arg + 1, {mem[arg]}) IN
       IF mem[q] = NUL
         THEN Crash("null")
         ELSE /\ Take
              /\ mem' = [mem EXCEPT ![q + 1] = NUL]
              /\ arg' = q + 2
              /\ UNCHANGED <<cmd, pc, status, result, eoverflow, fault>>

\* args[i++] = strsep(&arg, "\t ");
LoopPlain ==
  /\ pc = "loop" /\ LoopCond /\ arg \in 1..Len(mem)
  /\ mem[arg] \notin Quotes
  /\ Take /\ Strsep(Blanks)
  /\ UNCHANGED <<cmd, pc, status, result, eoverflow, fault>>

\* Variant with a fault: every command with NUM_ARGS tokens is refused.
SplitDone_NoArgTest ==
  /\ pc = "loop" /\ ~LoopCond /\ i \in 0..NUM_ARGS
  /\ args' = [args EXCEPT ![i] = 0]
  /\ IF i = NUM_ARGS
       THEN result' = 1 /\ eoverflow' = TRUE /\ pc' = "done"
       ELSE pc' = "fork" /\ UNCHANGED <<result, eoverflow>>
  /\ UNCHANGED <<cmd, mem, arg, i, status, fault>>

\* args[i] = NULL (outside args[0..NUM_ARGS] it overruns the array), and
\* the EOVERFLOW return when tokens are left over.
SplitDone ==
  /\ pc = "loop" /\ ~LoopCond
  /\ IF i \notin 0..NUM_ARGS
       THEN Crash("argv")
       ELSE /\ args' = [args EXCEPT ![i] = 0]
            /\ IF i = NUM_ARGS /\ arg # 0
                 THEN result' = 1 /\ eoverflow' = TRUE /\ pc' = "done"
                 ELSE pc' = "fork" /\ UNCHANGED <<result, eoverflow>>
            /\ UNCHANGED <<cmd, mem, arg, i, status, fault>>

\* pid = fork(): -1 returns -1; else the parent waits in complete().
Fork ==
  /\ pc = "fork"
  /\ \/ result' = -1 /\ pc' = "done"
     \/ pc' = "wait" /\ UNCHANGED result
  /\ UNCHANGED <<cmd, mem, arg, i, args, status, eoverflow, fault>>

\* Variant with a fault: the `if (!result) result = 1` for a command
\* killed by a signal is missing.
Complete_NoSignalFix ==
  /\ pc = "wait" /\ pc' = "done"
  /\ \/ result' = 1 /\ UNCHANGED status
     \/ \E st \in Statuses : status' = st /\ result' = WEXITSTATUS(st)
  /\ UNCHANGED <<cmd, mem, arg, i, args, eoverflow, fault>>

\* Variant with a fault: the raw wait status is returned, without
\* WEXITSTATUS().
Complete_RawStatus ==
  /\ pc = "wait" /\ pc' = "done"
  /\ \/ result' = 1 /\ UNCHANGED status
     \/ \E st \in Statuses : status' = st /\ result' = st
  /\ UNCHANGED <<cmd, mem, arg, i, args, eoverflow, fault>>

\* complete(): waitpid() fails (EINTR, ECHILD) and run() returns 1, or it
\* returns the child's status, decoded with WEXITSTATUS/WIFSIGNALED.
Complete ==
  /\ pc = "wait" /\ pc' = "done"
  /\ \/ result' = 1 /\ UNCHANGED status
     \/ \E st \in Statuses :
          /\ status' = st
          /\ result' = IF ~WIFEXITED(st) /\ WIFSIGNALED(st)
                            /\ WEXITSTATUS(st) = 0
                         THEN 1 ELSE WEXITSTATUS(st)
  /\ UNCHANGED <<cmd, mem, arg, i, args, eoverflow, fault>>

\* run() has returned (or crashed): the model stays put.
Returned ==
  /\ pc \in {"done", "crashed"}
  /\ UNCHANGED vars

Next ==
  \/ NoMemory \/ SplitFirst \/ LoopOutOfBounds \/ LoopQuoted \/ LoopPlain
  \/ SplitDone \/ Fork \/ Complete \/ Returned

Spec == Init /\ [][Next]_vars

-----------------------------------------------------------------------------
(* Reference definitions.                                                  *)

\* The fields of a command split at every blank: the text between two
\* consecutive blanks (or an end) is one field, empty ones included.
Fields(c) ==
  LET bd == SetToSortSeq({0, Len(c) + 1} \cup {k \in 1..Len(c) : c[k] \in Blanks}, <)
  IN [j \in 1..Len(bd) - 1 |-> SubSeq(c, bd[j] + 1, bd[j + 1] - 1)]

\* The C string that starts at p in mem.
CString(p) == SubSeq(mem, p, Stop(p, {}) - 1)

\* The argv[] handed to execvp().
Argv == [k \in 1..i |-> CString(args[k - 1])]

-----------------------------------------------------------------------------
(* Properties.                                                             *)

TypeOK ==
  /\ cmd \in Cmds /\ mem \in Seq(Chars \cup {NUL})
  /\ arg \in Nat /\ i \in Nat /\ args \in [0..NUM_ARGS -> Nat]
  /\ pc \in {"nomem", "split", "loop", "fork", "wait", "done", "crashed"}
  /\ status \in {0} \cup Statuses /\ fault \in {"none", "read", "null", "argv"}
  /\ result \in -1..255 /\ eoverflow \in BOOLEAN

\* A command without quote characters, as every fixed command of finit.c.
Unquoted(c) == \A k \in 1..Len(c) : c[k] \notin Quotes

\* run() never reads or writes outside the strdup'd copy of the command
\* and never writes through NULL, whatever command finit.conf holds.
RunMemorySafe == fault = "none"

\* run() stays inside the copy and inside args[] for a command without
\* quotes, however many blank-separated fields it has.
RunMemorySafeUnquoted == Unquoted(cmd) => fault = "none"

\* For a command without quotes, run() execs exactly the command's fields
\* (split at each blank, as strsep() does), and refuses with EOVERFLOW
\* exactly the commands with more than NUM_ARGS fields.
RunSplitsFields ==
  Unquoted(cmd) =>
     /\ pc \in {"fork", "wait"} \/ (pc = "done" /\ ~eoverflow /\ i > 0)
          => Argv = Fields(cmd)
     /\ eoverflow => Len(Fields(cmd)) > NUM_ARGS
     /\ pc \in {"fork", "wait"} => Len(Fields(cmd)) <= NUM_ARGS

\* run() returns 0 only when the command ran and exited with code 0: a
\* command killed by a signal, whose WEXITSTATUS reads 0, counts as failed.
RunZeroMeansSuccess ==
  pc = "done" /\ result = 0 => WIFEXITED(status) /\ WEXITSTATUS(status) = 0

=============================================================================

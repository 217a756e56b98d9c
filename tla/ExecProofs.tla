----------------------------- MODULE ExecProofs -----------------------------
(***************************************************************************)
(* Proofs about run() of exec.c, for every command length, alphabet,      *)
(* NUM_ARGS and set of exit codes and signals.                             *)
(*                                                                         *)
(* The invariants the runs check are not inductive: that the cursor stays *)
(* in the copy depends on the shape of the copy (its last cell is the     *)
(* terminating NUL and every other cell is the command's character or a   *)
(* NUL written by strsep()), and on the bounds of the cursor and of i.   *)
(* ExecInv adds those facts.  The field splitting (RunSplitsFields) is a  *)
(* statement about every prefix of the command and is left to TLC.        *)
(***************************************************************************)
EXTENDS Exec, TLAPS, WellFoundedInduction

\* The strdup'd copy: the command's characters, some replaced by the NULs
\* that strsep() and the quote handling write, and the terminating NUL.
MemShape ==
  /\ Len(mem) = Len(cmd) + 1 /\ mem[Len(mem)] = NUL
  /\ \A k \in 1..Len(cmd) : mem[k] \in {cmd[k], NUL}

\* The cursor is NULL or inside the copy, or one past it after a closing
\* quote at the end; i counts at most NUM_ARGS entries.  Before the split
\* the cursor is the start of the copy and args[] is empty.
Cursor ==
  /\ arg \in 0..Len(mem) + 1 /\ i \in 0..NUM_ARGS
  /\ pc \in {"nomem", "split"} => arg = 1 /\ i = 0
  /\ Unquoted(cmd) => arg \in 0..Len(mem)

\* TypeOK is the data of run() and its one Boolean, errno's EOVERFLOW.
ExecData ==
  /\ cmd \in Cmds /\ mem \in Seq(Chars \cup {NUL})
  /\ arg \in Nat /\ i \in Nat /\ args \in [0..NUM_ARGS -> Nat]
  /\ pc \in {"nomem", "split", "loop", "fork", "wait", "done", "crashed"}
  /\ status \in {0} \cup Statuses /\ fault \in {"none", "read", "null", "argv"}
  /\ result \in -1..255

ExecInv ==
  /\ ExecData /\ eoverflow \in BOOLEAN /\ MemShape /\ Cursor
  /\ RunMemorySafeUnquoted /\ RunZeroMeansSuccess

-----------------------------------------------------------------------------
(* Lemmas about the operators.                                             *)

\* Every non-empty set of naturals has a least element, and Min returns it.
LEMMA LeastElement ==
  ASSUME NEW T \in SUBSET Nat, T # {}
  PROVE  Min(T) \in T /\ \A y \in T : Min(T) <= y
<1>1. \E x \in T : \A y \in T : ~(<<y, x>> \in OpToRel(<, Nat))
  BY NatLessThanWellFounded, WFMin
<1>2. \A x, y \in Nat : y < x => <<y, x>> \in OpToRel(<, Nat)
  BY Zenon DEF OpToRel
<1>3. \E x \in T : \A y \in T : ~(y < x)
  BY <1>1, <1>2
<1>4. \E x \in T : \A y \in T : x <= y
  BY <1>3
<1>. QED  BY <1>4 DEF Min

\* strsep() scanning from p stops inside the copy, at a delimiter or a NUL:
\* the terminating NUL guarantees it stops.
LEMMA StopInside ==
  ASSUME NEW S, mem \in Seq(S), Len(mem) >= 1, mem[Len(mem)] = NUL,
         NEW p \in 1..Len(mem), NEW D
  PROVE  /\ Stop(p, D) \in p..Len(mem)
         /\ mem[Stop(p, D)] \in D \cup {NUL}
         /\ mem[Stop(p, D)] # NUL => Stop(p, D) < Len(mem)
<1>. DEFINE T == {q \in p..Len(mem) : mem[q] \in D \cup {NUL}}
<1>1. T \in SUBSET Nat /\ T # {}  BY Len(mem) \in T
<1>2. Min(T) \in T  BY <1>1, LeastElement
<1>. QED  BY <1>2 DEF Stop

\* A command enumerated by Init is a sequence of characters.
LEMMA CmdsSeq == Cmds \subseteq Seq(Chars)
BY DEF Cmds

\* A wait status never reads as 127 in its low seven bits, the value that
\* WIFSIGNALED() excludes: a status is an exit code, or a signal number
\* with or without the core-dump bit.
LEMMA StatusDecode ==
  ASSUME NEW st \in Statuses
  PROVE  /\ WTERMSIG(st) # 127
         /\ WEXITSTATUS(st) \in 0..255
<1>1. CASE \E c \in ExitCodes : st = c * 256
  BY <1>1, ExecAssumption DEF WTERMSIG, WEXITSTATUS
<1>2. CASE st \in Signals
  BY <1>2, ExecAssumption DEF WTERMSIG, WEXITSTATUS
<1>3. CASE \E sig \in Signals : st = sig + 128
  BY <1>3, ExecAssumption DEF WTERMSIG, WEXITSTATUS
<1>. QED  BY <1>1, <1>2, <1>3 DEF Statuses

\* The terminating NUL is neither a quote nor a blank.
LEMMA NulChar == NUL \notin Quotes /\ NUL \notin Blanks
BY Zenon DEF NUL, Quotes, Blanks

LEMMA ExecTypeSplit == TypeOK <=> ExecData /\ eoverflow \in BOOLEAN
BY DEF TypeOK, ExecData

\* ExecData after a step, from the type of each variable after it.
LEMMA DataStep ==
  ASSUME ExecData, cmd' = cmd, status' \in {0} \cup Statuses,
         mem' \in Seq(Chars \cup {NUL}), arg' \in Nat, i' \in Nat,
         args' \in [0..NUM_ARGS -> Nat],
         pc' \in {"nomem", "split", "loop", "fork", "wait", "done", "crashed"},
         fault' \in {"none", "read", "null", "argv"}, result' \in -1..255
  PROVE  ExecData'
BY Zenon DEF ExecData

\* One strsep() from a cursor inside the copy keeps the copy's shape and
\* leaves the cursor NULL or inside the copy.
LEMMA StrsepShape ==
  ASSUME ExecData, MemShape, arg \in 1..Len(mem), NEW D, Strsep(D), cmd' = cmd
  PROVE  /\ MemShape' /\ mem' \in Seq(Chars \cup {NUL})
         /\ arg' \in 0..Len(mem')
<1>. DEFINE q == Stop(arg, D)
<1>1. /\ q \in arg..Len(mem) /\ mem[q] \in D \cup {NUL}
      /\ mem[q] # NUL => q < Len(mem)
  BY StopInside DEF ExecData, MemShape
<1>2. CASE mem[q] = NUL
  BY <1>1, <1>2 DEF Strsep, ExecData, MemShape
<1>3. CASE mem[q] # NUL
  <2>1. arg' = q + 1 /\ mem' = [mem EXCEPT ![q] = NUL]
    BY <1>3 DEF Strsep
  <2>. QED  BY <1>1, <1>3, <2>1 DEF ExecData, MemShape
<1>. QED  BY <1>2, <1>3

\* A quote character in the copy is a quote of the command: strsep() only
\* ever writes NULs.
LEMMA QuoteInCmd ==
  ASSUME MemShape, cmd \in Seq(Chars), NEW k \in 1..Len(mem), mem[k] \in Quotes
  PROVE  ~Unquoted(cmd)
<1>1. k # Len(mem)  BY NulChar DEF MemShape
<1>2. k \in 1..Len(cmd) /\ mem[k] \in {cmd[k], NUL}  BY <1>1 DEF MemShape
<1>3. cmd[k] \in Quotes  BY <1>2, NulChar
<1>. QED  BY <1>2, <1>3 DEF Unquoted

\* sm_init of run(): the copy is the command and its NUL.
LEMMA ExecInit == Init => ExecInv
<1>. SUFFICES ASSUME Init PROVE ExecInv  OBVIOUS
<1>1. cmd \in Seq(Chars)  BY CmdsSeq DEF Init
<1>2. mem \in Seq(Chars \cup {NUL})  BY <1>1 DEF Init
<1>3. eoverflow \in BOOLEAN  BY Zenon DEF Init
<1>4. ExecData  BY <1>2, ExecAssumption DEF Init, ExecData
<1>5. MemShape  BY <1>1 DEF Init, MemShape
<1>6. Cursor  BY <1>5, ExecAssumption DEF Init, Cursor, MemShape
<1>7. RunMemorySafeUnquoted /\ RunZeroMeansSuccess
  BY DEF Init, RunMemorySafeUnquoted, RunZeroMeansSuccess
<1>. QED  BY <1>3, <1>4, <1>5, <1>6, <1>7 DEF ExecInv

\* The parts of ExecInv that hold no Boolean, for the SMT steps.
ExecCore ==
  ExecData /\ MemShape /\ Cursor /\ RunMemorySafeUnquoted /\ RunZeroMeansSuccess

LEMMA ExecInvCore == ExecInv <=> ExecCore /\ eoverflow \in BOOLEAN
BY DEF ExecInv, ExecCore

\* The steps of the split keep ExecInv.
LEMMA ExecSplit ==
  ASSUME ExecInv, SplitFirst \/ LoopPlain
  PROVE  ExecInv'
<1>0. ExecCore  BY ExecInvCore
<1>00. eoverflow \in BOOLEAN  BY ExecInvCore
<1>1. /\ arg \in 1..Len(mem) /\ i < NUM_ARGS /\ Strsep(Blanks)
      /\ i' = i + 1 /\ args' = [args EXCEPT ![i] = arg]
      /\ cmd' = cmd /\ status' = status /\ result' = result
      /\ fault' = fault /\ pc' = "loop"
  BY <1>0, ExecAssumption DEF ExecCore, Cursor, MemShape, SplitFirst,
                              LoopPlain, LoopCond, Take, ExecData
<1>2. eoverflow' \in BOOLEAN  BY <1>00, Zenon DEF SplitFirst, LoopPlain
<1>3. MemShape' /\ mem' \in Seq(Chars \cup {NUL}) /\ arg' \in 0..Len(mem')
  BY <1>0, <1>1, StrsepShape DEF ExecCore
<1>4. ExecData /\ NUM_ARGS \in Nat  BY <1>0, ExecAssumption DEF ExecCore
<1>5. ExecData'
  <2>1. i' \in 0..NUM_ARGS  BY <1>1, <1>4 DEF ExecData
  <2>2. args' \in [0..NUM_ARGS -> Nat]  BY <1>1, <1>4 DEF ExecData
  <2>3. status' \in {0} \cup Statuses /\ result' \in -1..255
    BY <1>1, <1>4 DEF ExecData
  <2>4. pc' \in {"nomem", "split", "loop", "fork", "wait", "done", "crashed"}
        /\ fault' \in {"none", "read", "null", "argv"}
    BY <1>1, <1>4, Zenon DEF ExecData
  <2>. QED  BY <1>1, <1>3, <1>4, <2>1, <2>2, <2>3, <2>4, DataStep
<1>6. Cursor'
  <2>1. i' \in 0..NUM_ARGS  BY <1>1, <1>4 DEF ExecData
  <2>. QED  BY <1>1, <1>3, <2>1 DEF Cursor
<1>7. RunMemorySafeUnquoted' /\ RunZeroMeansSuccess'
  BY <1>0, <1>1 DEF ExecCore, RunMemorySafeUnquoted, RunZeroMeansSuccess
<1>. QED  BY <1>2, <1>3, <1>5, <1>6, <1>7 DEF ExecInv

\* A token that starts with a quote is a token of a quoted command, and
\* the cursor after it is at most one past the copy.
LEMMA ExecQuoted ==
  ASSUME ExecInv, LoopQuoted
  PROVE  ExecInv'
<1>0. ExecCore  BY ExecInvCore
<1>00. eoverflow \in BOOLEAN  BY ExecInvCore
<1>1. /\ arg \in 1..Len(mem) /\ mem[arg] \in Quotes /\ i < NUM_ARGS
      /\ pc = "loop"
  BY DEF LoopQuoted, LoopCond
<1>2. ~Unquoted(cmd)
  BY <1>0, <1>1, QuoteInCmd, CmdsSeq DEF ExecCore, ExecData
<1>3. arg < Len(mem)  BY <1>0, <1>1, NulChar DEF ExecCore, MemShape, ExecData
<1>. DEFINE q == Stop(arg + 1, {mem[arg]})
<1>4. /\ q \in arg + 1..Len(mem)
      /\ mem[q] # NUL => q < Len(mem)
  BY <1>0, <1>1, <1>3, StopInside DEF ExecCore, ExecData, MemShape
<1>5. eoverflow' \in BOOLEAN  BY <1>00, Zenon DEF LoopQuoted, Crash
<1>6. RunMemorySafeUnquoted' /\ RunZeroMeansSuccess'
  <2>1. cmd' = cmd /\ pc' \in {"loop", "crashed"}  BY <1>1 DEF LoopQuoted, Crash
  <2>. QED  BY <1>2, <2>1 DEF RunMemorySafeUnquoted, RunZeroMeansSuccess
<1>7. CASE mem[q] = NUL
  <2>1. /\ fault' = "null" /\ pc' = "crashed"
        /\ cmd' = cmd /\ mem' = mem /\ arg' = arg /\ i' = i /\ args' = args
        /\ status' = status /\ result' = result
    BY <1>7 DEF LoopQuoted, Crash
  <2>2. ExecData' /\ MemShape' /\ Cursor'
    BY <1>0, <1>2, <2>1 DEF ExecCore, ExecData, MemShape, Cursor
  <2>. QED  BY <1>5, <1>6, <2>2 DEF ExecInv
<1>8. CASE mem[q] # NUL
  <2>1. /\ mem' = [mem EXCEPT ![q + 1] = NUL] /\ arg' = q + 2
        /\ i' = i + 1 /\ args' = [args EXCEPT ![i] = arg]
        /\ cmd' = cmd /\ pc' = pc /\ status' = status /\ result' = result
        /\ fault' = fault
    BY <1>8 DEF LoopQuoted, Take
  <2>2. q + 1 \in 1..Len(mem)  BY <1>1, <1>3, <1>4, <1>8
  <2>0. ExecData /\ NUM_ARGS \in Nat  BY <1>0, ExecAssumption DEF ExecCore
  <2>3. mem' \in Seq(Chars \cup {NUL}) /\ Len(mem') = Len(mem)
    BY <2>0, <2>1, <2>2 DEF ExecData
  <2>4. MemShape'
    BY <1>0, <1>4, <1>8, <2>1, <2>2, <2>3 DEF ExecCore, MemShape
  <2>5. i' \in 0..NUM_ARGS  BY <1>1, <2>0, <2>1 DEF ExecData
  <2>6. ExecData'
    <3>1. arg' \in Nat  BY <1>1, <1>4, <2>1
    <3>5. args' \in [0..NUM_ARGS -> Nat]  BY <1>1, <2>0, <2>1 DEF ExecData
    <3>6. result' \in -1..255  BY <2>0, <2>1 DEF ExecData
    <3>4. status' \in {0} \cup Statuses  BY <2>0, <2>1, Zenon DEF ExecData
    <3>2. pc' \in {"nomem", "split", "loop", "fork", "wait", "done", "crashed"}
          /\ fault' \in {"none", "read", "null", "argv"}
      BY <2>0, <2>1, Zenon DEF ExecData
    <3>. QED  BY <2>0, <2>1, <2>3, <2>5, <3>1, <3>2, <3>4, <3>5, <3>6,
                DataStep
  <2>7. Cursor'
    <3>1. arg' \in 0..Len(mem') + 1  BY <1>1, <1>4, <1>8, <2>1, <2>3
    <3>2. i' \in 0..NUM_ARGS  BY <2>5
    <3>3. pc' \notin {"nomem", "split"}  BY <1>1, <2>1
    <3>4. ~Unquoted(cmd')  BY <1>2, <2>1
    <3>. QED  BY <3>1, <3>2, <3>3, <3>4 DEF Cursor
  <2>. QED  BY <1>5, <1>6, <2>4, <2>6, <2>7 DEF ExecInv
<1>. QED  BY <1>7, <1>8

\* complete() returns 0 only for a status whose exit code is 0 and whose
\* signal bits are clear.
LEMMA ExecComplete ==
  ASSUME ExecInv, Complete
  PROVE  ExecInv'
<1>0. ExecCore  BY ExecInvCore
<1>00. eoverflow \in BOOLEAN  BY ExecInvCore
<1>1. /\ pc' = "done"
      /\ cmd' = cmd /\ mem' = mem /\ arg' = arg /\ i' = i /\ args' = args
      /\ fault' = fault
  BY DEF Complete
<1>2. eoverflow' \in BOOLEAN  BY <1>00, Zenon DEF Complete
<1>3. MemShape' /\ Cursor' /\ RunMemorySafeUnquoted'
  BY <1>0, <1>1 DEF ExecCore, MemShape, Cursor, RunMemorySafeUnquoted
<1>4. CASE result' = 1 /\ status' = status
  <2>1. ExecData'  BY <1>0, <1>1, <1>4, DataStep DEF ExecCore, ExecData
  <2>2. RunZeroMeansSuccess'  BY <1>4 DEF RunZeroMeansSuccess
  <2>. QED  BY <1>2, <1>3, <2>1, <2>2 DEF ExecInv
<1>5. ASSUME NEW st \in Statuses, status' = st,
             result' = IF ~WIFEXITED(st) /\ WIFSIGNALED(st)
                              /\ WEXITSTATUS(st) = 0
                           THEN 1 ELSE WEXITSTATUS(st)
      PROVE  ExecInv'
  <2>1. WTERMSIG(st) # 127 /\ WEXITSTATUS(st) \in 0..255  BY StatusDecode
  <2>2. result' = 0 => WIFEXITED(st) /\ WEXITSTATUS(st) = 0
    BY <1>5, <2>1 DEF WIFEXITED, WIFSIGNALED
  <2>3. result' \in -1..255  BY <1>5, <2>1
  <2>4. ExecData'  BY <1>0, <1>1, <1>5, <2>3, DataStep DEF ExecCore, ExecData
  <2>5. RunZeroMeansSuccess'  BY <1>5, <2>2 DEF RunZeroMeansSuccess
  <2>. QED  BY <1>2, <1>3, <2>4, <2>5 DEF ExecInv
<1>. QED  BY <1>4, <1>5 DEF Complete

\* The frame of a step that changes only pc, result, args[] (at an index
\* in range), fault and the Boolean.
LEMMA ExecFrame ==
  ASSUME ExecCore,
         cmd' = cmd, mem' = mem, arg' = arg, i' = i, status' = status,
         args' \in [0..NUM_ARGS -> Nat],
         pc' \in {"fork", "wait", "done", "crashed"},
         fault' \in {"none", "read", "null", "argv"}, result' \in -1..255,
         fault' # "none" => ~Unquoted(cmd),
         pc' = "done" => result' # 0
  PROVE  ExecCore'
<1>1. ExecData'  BY DataStep DEF ExecCore, ExecData
<1>2. MemShape' /\ Cursor'  BY DEF ExecCore, MemShape, Cursor
<1>3. RunMemorySafeUnquoted' /\ RunZeroMeansSuccess'
  BY DEF ExecCore, RunMemorySafeUnquoted, RunZeroMeansSuccess
<1>. QED  BY <1>1, <1>2, <1>3 DEF ExecCore

\* The other steps of run(): the early returns, the crash on a cursor
\* past the copy, the end of the split and the fork.
LEMMA ExecOther ==
  ASSUME ExecInv, NoMemory \/ LoopOutOfBounds \/ SplitDone \/ Fork
                  \/ Returned \/ UNCHANGED vars
  PROVE  ExecInv'
<1>0. ExecCore  BY ExecInvCore
<1>00. eoverflow \in BOOLEAN  BY ExecInvCore
<1>1. CASE NoMemory
  <2>1. eoverflow' \in BOOLEAN  BY <1>00, <1>1, Zenon DEF NoMemory
  <2>2. ExecCore'
    <3>1. /\ result' = 1 /\ pc' = "done" /\ fault' = fault
          /\ cmd' = cmd /\ mem' = mem /\ arg' = arg /\ i' = i /\ args' = args
          /\ status' = status
      BY <1>1 DEF NoMemory
    <3>. QED  BY <1>0, <3>1, ExecFrame DEF ExecCore, ExecData,
                                           RunMemorySafeUnquoted
  <2>. QED  BY <2>1, <2>2, ExecInvCore DEF ExecInv, ExecCore
<1>2. CASE LoopOutOfBounds
  <2>1. eoverflow' \in BOOLEAN  BY <1>00, <1>2, Zenon DEF LoopOutOfBounds, Crash
  <2>2. ExecCore'
    <3>1. ~Unquoted(cmd)
      BY <1>0, <1>2 DEF LoopOutOfBounds, LoopCond, ExecCore, Cursor
    <3>2. /\ fault' = "read" /\ pc' = "crashed"
          /\ cmd' = cmd /\ mem' = mem /\ arg' = arg /\ i' = i /\ args' = args
          /\ status' = status /\ result' = result
      BY <1>2 DEF LoopOutOfBounds, Crash
    <3>. QED  BY <1>0, <3>1, <3>2, ExecFrame DEF ExecCore, ExecData
  <2>. QED  BY <2>1, <2>2 DEF ExecInv, ExecCore
<1>3. CASE SplitDone
  <2>1. i \in 0..NUM_ARGS  BY <1>0 DEF ExecCore, Cursor
  <2>2. /\ args' = [args EXCEPT ![i] = 0]
        /\ \/ result' = 1 /\ pc' = "done"
           \/ pc' = "fork" /\ result' = result
        /\ cmd' = cmd /\ mem' = mem /\ arg' = arg /\ i' = i /\ status' = status
        /\ fault' = fault
    BY <2>1, <1>3 DEF SplitDone
  <2>3. eoverflow' \in BOOLEAN  BY <1>00, <2>1, <1>3, Zenon DEF SplitDone
  <2>4. args' \in [0..NUM_ARGS -> Nat]  BY <1>0, <2>2 DEF ExecCore, ExecData
  <2>5. ExecCore'
    <3>1. CASE result' = 1 /\ pc' = "done"
      BY <1>0, <2>2, <2>4, <3>1, ExecFrame DEF ExecCore, ExecData,
                                                RunMemorySafeUnquoted
    <3>2. CASE pc' = "fork" /\ result' = result
      BY <1>0, <2>2, <2>4, <3>2, ExecFrame DEF ExecCore, ExecData,
                                                RunMemorySafeUnquoted
    <3>. QED  BY <2>2, <3>1, <3>2
  <2>. QED  BY <2>3, <2>5 DEF ExecInv, ExecCore
<1>4. CASE Fork
  <2>1. eoverflow' \in BOOLEAN  BY <1>00, <1>4, Zenon DEF Fork
  <2>2. /\ \/ result' = -1 /\ pc' = "done"
           \/ pc' = "wait" /\ result' = result
        /\ cmd' = cmd /\ mem' = mem /\ arg' = arg /\ i' = i /\ args' = args
        /\ status' = status /\ fault' = fault
    BY <1>4 DEF Fork
  <2>3. ExecCore'
    <3>1. CASE result' = -1 /\ pc' = "done"
      BY <1>0, <2>2, <3>1, ExecFrame DEF ExecCore, ExecData,
                                          RunMemorySafeUnquoted
    <3>2. CASE pc' = "wait" /\ result' = result
      BY <1>0, <2>2, <3>2, ExecFrame DEF ExecCore, ExecData,
                                          RunMemorySafeUnquoted
    <3>. QED  BY <2>2, <3>1, <3>2
  <2>. QED  BY <2>1, <2>3 DEF ExecInv, ExecCore
<1>5. CASE Returned \/ UNCHANGED vars
  <2>1. UNCHANGED vars  BY <1>5 DEF Returned
  <2>. QED  BY <2>1 DEF vars, ExecInv, ExecData, MemShape, Cursor,
                        RunMemorySafeUnquoted, RunZeroMeansSuccess
<1>. QED  BY <1>1, <1>2, <1>3, <1>4, <1>5

LEMMA ExecNext == ExecInv /\ [Next]_vars => ExecInv'
BY ExecSplit, ExecQuoted, ExecComplete, ExecOther DEF Next

-----------------------------------------------------------------------------
(* Theorems.                                                               *)

\* Every state run() reaches is well typed; in particular its return value
\* is -1, 1 or a decoded exit code in 0..255.
THEOREM ExecTypeCorrect == Spec => []TypeOK
<1>1. ExecInv => TypeOK  BY ExecTypeSplit DEF ExecInv
<1>. QED  BY <1>1, ExecInit, ExecNext, PTL DEF Spec

\* For a command without quote characters, as every command finit.c passes
\* and every unquoted network line, run()'s strsep() loop never reads past
\* the strdup'd copy and never writes args[] out of range, for any length
\* and any NUM_ARGS.
THEOREM UnquotedMemorySafe == Spec => []RunMemorySafeUnquoted
<1>1. ExecInv => RunMemorySafeUnquoted  BY DEF ExecInv
<1>. QED  BY <1>1, ExecInit, ExecNext, PTL DEF Spec

\* run() returns 0 only for a child that exited with code 0: the
\* `if (!result) result = 1` of a signalled child is what keeps a killed
\* command from passing as a success.
THEOREM ZeroMeansSuccess == Spec => []RunZeroMeansSuccess
<1>1. ExecInv => RunZeroMeansSuccess  BY DEF ExecInv
<1>. QED  BY <1>1, ExecInit, ExecNext, PTL DEF Spec

=============================================================================

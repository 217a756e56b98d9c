-------------------------------- MODULE Util --------------------------------
(***************************************************************************)
(* Two numeric conversions of src/src/util.c, each beside the reference   *)
(* definition of what it is meant to compute:                              *)
(*   strtobytes()  "<digits>[k|M|G]" to a byte count in an int;           *)
(*   memsz()       a byte count to "<n>.<d>G", "<n>.<d>M" or "<n>.<d>k".  *)
(* The model's one variable is the input, chosen among a bounded set; the *)
(* properties compare the code's result with the reference on it.         *)
(***************************************************************************)
EXTENDS Integers, Sequences

CONSTANTS
  Args,   \* strings handed to strtobytes(), as sequences of characters
  Sizes   \* byte counts handed to memsz()

DigitVal == [d \in {"0", "1", "2", "3", "4", "5", "6", "7", "8", "9"} |->
               CASE d = "0" -> 0 [] d = "1" -> 1 [] d = "2" -> 2 [] d = "3" -> 3
                 [] d = "4" -> 4 [] d = "5" -> 5 [] d = "6" -> 6 [] d = "7" -> 7
                 [] d = "8" -> 8 [] d = "9" -> 9]
Digits == DOMAIN DigitVal

ASSUME ArgsAssumption == \A a \in Args : a \in Seq(STRING) /\ Len(a) <= 3
\* memsz() takes a uint64_t; its counts are ints, so sizes stay in an int.
ASSUME SizesAssumption == \A sz \in Sizes : sz \in Nat /\ sz <= 2147483647

VARIABLE input  \* [kind |-> "bytes", arg |-> a] or [kind |-> "mem", sz |-> n]

-----------------------------------------------------------------------------
(* strtobytes()                                                            *)
(*                                                                         *)
(* A number v is held as the pair <<v \div 2^16, v % 2^16>>, so that a    *)
(* 32-bit int and the exact value it should hold are both representable;  *)
(* the int keeps its high half in -2^15..2^15-1, the wrap that the signed *)
(* multiplication `bytes *= 1000` compiles to.                           *)

Half == 65536
Num(n) == <<n \div Half, n % Half>>
Times1000(v) == LET p == v[2] * 1000 IN <<v[1] * 1000 + p \div Half, p % Half>>
Wrap32(v) == <<((v[1] + Half \div 2) % Half) - Half \div 2, v[2]>>

\* strspn(arg, "0123456789"): the length of the leading run of digits.
Span(a) == CHOOSE n \in 0..Len(a) :
             /\ \A k \in 1..n : a[k] \in Digits
             /\ n = Len(a) \/ a[n + 1] \notin Digits

\* atoi(arg) once arg[pos] = 0: the decimal value of the digits.
Decimal(a) ==
  LET f[n \in 0..Span(a)] == IF n = 0 THEN 0 ELSE f[n - 1] * 10 + DigitVal[a[n]]
  IN f[Span(a)]

\* The character at arg[pos]: its mod (G 3, M 2, k 1), -1 for any other.
Mod(a) ==
  IF Span(a) = Len(a) THEN 0
  ELSE CASE a[Span(a) + 1] = "G" -> 3 [] a[Span(a) + 1] = "M" -> 2
         [] a[Span(a) + 1] = "k" -> 1 [] OTHER -> -1

\* `while (mod--) bytes *= 1000;` on an int.
Scale(v, m) == LET f[k \in 0..m] == IF k = 0 THEN v ELSE Wrap32(Times1000(f[k - 1]))
               IN f[m]

\* Variant with a fault: `while (--mod)` multiplies once too few.
StrToBytes_PreDec(a) ==
  IF Mod(a) = -1 THEN Num(-1) ELSE Scale(Num(Decimal(a)), IF Mod(a) > 0 THEN Mod(a) - 1 ELSE 0)

\* strtobytes(): -1 for an unknown character after the digits, else atoi()
\* of the digits multiplied by 1000 per step of mod, in an int.
StrToBytes(a) ==
  IF Mod(a) = -1 THEN Num(-1) ELSE Scale(Num(Decimal(a)), Mod(a))

\* Reference: a size is one or more digits and at most one suffix k, M or
\* G, and denotes the number times 10^3, 10^6 or 10^9 (exact, unbounded).
WellFormed(a) == Span(a) > 0 /\ Span(a) >= Len(a) - 1 /\ Mod(a) # -1
Bytes(a) == LET f[k \in 0..Mod(a)] == IF k = 0 THEN Num(Decimal(a)) ELSE Times1000(f[k - 1])
            IN f[Mod(a)]
\* The exact value fits in an int.
FitsInt(v) == v[1] < Half \div 2

-----------------------------------------------------------------------------
(* memsz()                                                                 *)

GiB == 1073741824
MiB == 1048576
KiB == 1024

\* Variant with a fault: the MiB count is tested before the GiB count.
MemSz_SwappedOrder(sz) ==
  LET gb == sz \div GiB
      mb == (sz % GiB) \div MiB
      kb == (sz % MiB) \div KiB
      b  == sz % KiB
  IN IF sz = 0 THEN [zero |-> TRUE, whole |-> 0, dec |-> 0, next |-> 0, unit |-> "-"]
     ELSE IF mb # 0 THEN [zero |-> FALSE, whole |-> mb, dec |-> kb \div 102, next |-> kb, unit |-> "M"]
     ELSE IF gb # 0 THEN [zero |-> FALSE, whole |-> gb, dec |-> mb \div 102, next |-> mb, unit |-> "G"]
     ELSE [zero |-> FALSE, whole |-> kb, dec |-> b \div 102, next |-> b, unit |-> "k"]

\* memsz(): "--.--" for 0, else the largest unit with a non-zero count,
\* printed "%d.%d" with that count and the next smaller count / 102.
\* `next` is that smaller count, kept for the reference.
MemSz(sz) ==
  LET gb == sz \div GiB
      mb == (sz % GiB) \div MiB
      kb == (sz % MiB) \div KiB
      b  == sz % KiB
  IN IF sz = 0 THEN [zero |-> TRUE, whole |-> 0, dec |-> 0, next |-> 0, unit |-> "-"]
     ELSE IF gb # 0 THEN [zero |-> FALSE, whole |-> gb, dec |-> mb \div 102, next |-> mb, unit |-> "G"]
     ELSE IF mb # 0 THEN [zero |-> FALSE, whole |-> mb, dec |-> kb \div 102, next |-> kb, unit |-> "M"]
     ELSE [zero |-> FALSE, whole |-> kb, dec |-> b \div 102, next |-> b, unit |-> "k"]

-----------------------------------------------------------------------------

Inputs == [kind : {"bytes"}, arg : Args] \cup [kind : {"mem"}, sz : Sizes]

Init == input \in Inputs

\* The conversions keep no state: the input stays as it is.
Stay == UNCHANGED input

Spec == Init /\ [][Stay]_input

\* strtobytes() returns the byte count a well-formed size denotes whenever
\* that count fits in an int ("2k" is 2000, "3M" 3000000).
StrToBytesInRange ==
  input.kind = "bytes" /\ WellFormed(input.arg) /\ FitsInt(Bytes(input.arg))
    => StrToBytes(input.arg) = Bytes(input.arg)

\* strtobytes() returns the byte count every well-formed size denotes, as
\* a memory limit of "3G" needs.
StrToBytesExact ==
  input.kind = "bytes" /\ WellFormed(input.arg)
    => StrToBytes(input.arg) = Bytes(input.arg)

\* UnitSize("G") is a GiB, and so on.
UnitSize(u) == IF u = "G" THEN GiB ELSE IF u = "M" THEN MiB ELSE KiB

\* memsz() prints a non-zero size in the largest unit the size reaches
\* (a size under 1 KiB in k), with the whole count of that unit before the
\* point: the count times the unit is at most the size, and one more unit
\* is more than it.
MemSzUnit ==
  LET r == MemSz(input.sz)  U == UnitSize(r.unit) IN
  input.kind = "mem" /\ input.sz # 0 =>
     /\ r.whole * U <= input.sz /\ input.sz - r.whole * U < U
     /\ r.unit # "G" => input.sz < 1024 * U

====

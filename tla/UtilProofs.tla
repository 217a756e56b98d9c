------------------------------- MODULE UtilProofs ------------------------------
(***************************************************************************)
(* Proof that memsz() of src/src/util.c picks the right unit for every    *)
(* size, not only for the sizes MCUtil enumerates.  The conversion keeps  *)
(* no state, so the invariant is the input's type; the work is arithmetic *)
(* on the three divisions by GiB, MiB and KiB, one case per unit.         *)
(* strtobytes() stays with TLC: what the recursive functions Decimal and  *)
(* Scale compute for every string needs induction over the string.        *)
(***************************************************************************)
EXTENDS Util, TLAPS

\* What MemSzUnit says of the size sz.
UnitOK(sz) ==
  LET r == MemSz(sz)  U == UnitSize(r.unit) IN
    /\ r.whole * U <= sz /\ sz - r.whole * U < U
    /\ r.unit # "G" => sz < 1024 * U

\* memsz() picks the unit for a non-zero size as MemSzUnit says, for every
\* natural size: the count of the chosen unit is the size divided by it.
LEMMA MemSzUnitNat ==
  ASSUME NEW sz \in Nat, sz # 0
  PROVE  UnitOK(sz)
<1>. DEFINE gb == sz \div GiB
            mb == (sz % GiB) \div MiB
            kb == (sz % MiB) \div KiB
<1>1. CASE gb # 0
  <2>1. MemSz(sz).whole = gb /\ MemSz(sz).unit = "G"
    BY <1>1, SMT DEF MemSz, GiB, MiB, KiB
  <2>2. UnitSize("G") = GiB  BY SMT DEF UnitSize, GiB, MiB, KiB
  <2>. QED  BY <2>1, <2>2, SMT DEF UnitOK, GiB
<1>2. CASE gb = 0 /\ mb # 0
  <2>1. MemSz(sz).whole = mb /\ MemSz(sz).unit = "M"
    BY <1>2, SMT DEF MemSz, GiB, MiB, KiB
  <2>2. UnitSize("M") = MiB  BY SMT DEF UnitSize, GiB, MiB, KiB
  <2>3. sz < GiB /\ sz % GiB = sz  BY <1>2, SMT DEF GiB
  <2>. QED  BY <2>1, <2>2, <2>3, SMT DEF UnitOK, GiB, MiB
<1>3. CASE gb = 0 /\ mb = 0
  <2>1. MemSz(sz).whole = kb /\ MemSz(sz).unit = "k"
    BY <1>3, SMT DEF MemSz, GiB, MiB, KiB
  <2>2. UnitSize("k") = KiB  BY SMT DEF UnitSize, GiB, MiB, KiB
  <2>3. sz < MiB /\ sz % MiB = sz  BY <1>3, SMT DEF GiB, MiB
  <2>. QED  BY <2>1, <2>2, <2>3, SMT DEF UnitOK, MiB, KiB
<1>. QED  BY <1>1, <1>2, <1>3

\* The input memsz() is called with is always one of the bounded inputs.
UtilInv == input \in Inputs

\* memsz() prints every non-zero size an int can hold with the whole count
\* of the largest unit the size reaches before the point: the count times
\* the unit is at most the size, one unit more exceeds it, and a size
\* shown in M or k is under 1024 of that unit.
THEOREM MemSzUnitCorrect == Spec => []MemSzUnit
<1>1. Init => UtilInv  BY DEF Init, UtilInv
<1>2. UtilInv /\ [Stay]_input => UtilInv'  BY DEF UtilInv, Stay
<1>3. UtilInv => MemSzUnit
  <2>1. \A s \in Sizes : s \in Nat  BY SizesAssumption, SMT
  <2>2. ASSUME UtilInv, input.kind = "mem"  PROVE input.sz \in Nat
    BY <2>1, <2>2 DEF UtilInv, Inputs
  <2>3. MemSzUnit <=> (input.kind = "mem" /\ input.sz # 0 => UnitOK(input.sz))
    BY DEF MemSzUnit, UnitOK
  <2>4. SUFFICES ASSUME UtilInv, input.kind = "mem", input.sz # 0
                 PROVE  UnitOK(input.sz)
    BY <2>3
  <2>. QED  BY <2>2, <2>4, MemSzUnitNat
<1>. QED  BY <1>1, <1>2, <1>3, PTL DEF Spec
====

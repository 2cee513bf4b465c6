------------------------------ MODULE Arithmetic ------------------------------
(***************************************************************************)
(* What the SmallInteger primitives compute (primitives.c, integer         *)
(* arithmetic), as operators on the values of their operands.  A primitive *)
(* computes in a C int and answers if its result is a SmallInteger; C      *)
(* division truncates.  Operators only: Primitives.tla makes them calls.   *)
(***************************************************************************)
EXTENDS Integers, FiniteSetsExt

CONSTANTS SmallMax,   \* the largest SmallInteger: 16383
          IntBits     \* the width of a C int: 32

SmallInteger == -(SmallMax + 1) .. SmallMax

(* A C int holds every sum and product of two SmallIntegers.               *)
ASSUME IntAssumption ==
  /\ SmallMax \in Nat \ {0}
  /\ IntBits \in Nat \ {0}
  /\ (SmallMax + 1) * (SmallMax + 1) < 2 ^ (IntBits - 1)

(* C's / and %: towards zero, the remainder with the dividend's sign.      *)
Magnitude(i) == IF i < 0 THEN -i ELSE i
CDiv(r, a) ==
  LET q == Magnitude(r) \div Magnitude(a)
  IN  IF (r < 0) = (a < 0) THEN q ELSE -q
CRem(r, a) == r - a * CDiv(r, a)

(* An outcome: the answer, if there is one.                                *)
Failure == [success |-> FALSE, value |-> 0]
Checked(i) == IF i \in SmallInteger THEN [success |-> TRUE, value |-> i]
                                    ELSE Failure

Add(r, a) == Checked(r + a)
Subtract(r, a) == Checked(r - a)
Multiply(r, a) == Checked(r * a)

(* primitiveDivide takes the remainder whatever the argument: a zero       *)
(* argument ends the process (see Traps).                                  *)
Divide(r, a) == IF CRem(r, a) = 0 THEN Checked(CDiv(r, a)) ELSE Failure

ModTruncated(r, a) == IF a = 0 THEN Failure ELSE Checked(CRem(r, a)) \* a mutant
Mod(r, a) ==
  IF a = 0 THEN Failure
  ELSE LET m == CRem(r, a)
       IN  Checked(IF (a < 0 /\ m > 0) \/ (a > 0 /\ m < 0) THEN m + a ELSE m)

(* primitiveDiv steps down from the truncated quotient if that is below    *)
(* zero, not if the exact one is.                                          *)
Div(r, a) ==
  IF a = 0 THEN Failure
  ELSE LET q == CDiv(r, a)
       IN  Checked(IF CRem(r, a) # 0 /\ q < 0 THEN q - 1 ELSE q)

Quo(r, a) == IF a = 0 THEN Failure ELSE Checked(CDiv(r, a))

-----------------------------------------------------------------------------
(* The bit operations, on two's complement.                                *)
ToInt(i) == ((i + 2 ^ (IntBits - 1)) % 2 ^ IntBits) - 2 ^ (IntBits - 1)
Bit(i, n) == (i \div 2 ^ n) % 2
FromBits(On(_)) ==
  ToInt(MapThenSumSet(LAMBDA n: IF On(n) THEN 2 ^ n ELSE 0, 0 .. IntBits - 1))

BitAnd(r, a) == Checked(FromBits(LAMBDA n: Bit(r, n) = 1 /\ Bit(a, n) = 1))
BitOr(r, a) == Checked(FromBits(LAMBDA n: Bit(r, n) = 1 \/ Bit(a, n) = 1))
BitXor(r, a) == Checked(FromBits(LAMBDA n: Bit(r, n) # Bit(a, n)))

(* The distance of a shift is not checked.  Within the int's width the     *)
(* bits shifted out are lost before the range check; beyond it C leaves    *)
(* the result open: the distance is taken modulo the width, or all bits go.*)
ShiftedUnsigned(r, a) ==   \* a mutant
  IF a >= 0 THEN ToInt(r * 2 ^ a) ELSE (r % 2 ^ IntBits) \div 2 ^ (-a)
Shifted(r, a) == IF a >= 0 THEN ToInt(r * 2 ^ a) ELSE r \div 2 ^ (-a)
BitShift(r, a) ==
  IF Magnitude(a) < IntBits THEN {Checked(Shifted(r, a))}
  ELSE LET mod == Magnitude(a) % IntBits
       IN  {Checked(Shifted(r, IF a < 0 THEN -mod ELSE mod)),
            Checked(IF a < 0 /\ r < 0 THEN -1 ELSE 0)}
=============================================================================

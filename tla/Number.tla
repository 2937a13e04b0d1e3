------------------------------- MODULE Number -------------------------------
(***************************************************************************)
(* The numbers of YMSL as the compiler and the virtual machine compute     *)
(* them.  Ymsl_INT is an integer of IntWidth bits.  Ymsl_FLOAT is an exact *)
(* fraction <<numerator, denominator>>: rounding is left out, and so are   *)
(* the infinities.                                                         *)
(***************************************************************************)
EXTENDS Integers, FiniteSetsExt

CONSTANTS IntWidth        \* bits of Ymsl_INT

ASSUME IntWidthAssumption == IntWidth \in Nat \ {0, 1}

Modulus == 2 ^ IntWidth
MinInt == - (Modulus \div 2)
Abs(n) == IF n < 0 THEN - n ELSE n

(* What a register holds of n. *)
Wrap(n) == ((n - MinInt) % Modulus) + MinInt

(* Operators on the bit patterns. *)
BitPlaces == 0 .. IntWidth - 1
Bit(n, i) == (n \div 2 ^ i) % 2
OfBits(bits) == Wrap(MapThenSumSet(LAMBDA i : bits[i] * 2 ^ i, BitPlaces))
BitAnd(a, b) == OfBits([i \in BitPlaces |-> Bit(a, i) * Bit(b, i)])
BitOr(a, b) == OfBits([i \in BitPlaces |-> Bit(a, i) + Bit(b, i) - Bit(a, i) * Bit(b, i)])
BitXor(a, b) == OfBits([i \in BitPlaces |-> (Bit(a, i) + Bit(b, i)) % 2])

Traps(a, b) == b = 0 \/ (a = MinInt /\ b = -1)
(* Mutant of Quotient: rounded down. *)
QuotientDown(a, b) == IF b > 0 THEN a \div b ELSE (- a) \div (- b)
Quotient(a, b) == (IF (a < 0) # (b < 0) THEN -1 ELSE 1) * (Abs(a) \div Abs(b))

(* Fractions are kept with a positive denominator and unreduced. *)
FloatOf(n) == <<n, 1>>
FloatLt(a, b) == a[1] * b[2] < b[1] * a[2]
FloatEq(a, b) == a[1] * b[2] = b[1] * a[2]
=============================================================================

----------------------------- MODULE CArithmetic -----------------------------
(***************************************************************************)
(* The integers of the machine the compiler runs on, and of C: operators   *)
(* on values that are known to fit. What C leaves undefined has no value,  *)
(* UNDEFINED, and neither has what is computed from it.                    *)
(***************************************************************************)
EXTENDS Integers

CONSTANTS
  IntBits,    (* stands for the 32 bits of an int                           *)
  LongBits,   (* stands for the 64 bits the evaluator computes with         *)
  UNDEFINED

ASSUME WidthAssumption == IntBits \in Nat \ {0} /\ LongBits \in Nat /\ LongBits > IntBits

Fits(n, bits) == -(2 ^ (bits - 1)) <= n /\ n < 2 ^ (bits - 1)

(* What is left of n in so many bits, as a signed number.                    *)
Wrapped(n, bits) ==
  ((n + 2 ^ (bits - 1)) % 2 ^ bits) - 2 ^ (bits - 1)

Truth(b) == IF b THEN 1 ELSE 0

(* Division of C truncates towards zero.                                     *)
Quotient(a, b) ==
  IF (a < 0) = (b < 0)
  THEN (IF a < 0 THEN -a ELSE a) \div (IF b < 0 THEN -b ELSE b)
  ELSE -((IF a < 0 THEN -a ELSE a) \div (IF b < 0 THEN -b ELSE b))
Remainder(a, b) == a - b * Quotient(a, b)

(* The bits of the two's complement of a number, one at a time.              *)
Bit(n, i) == (n \div 2 ^ i) % 2
FromBits(bit(_), bits) ==
  CHOOSE n \in -(2 ^ (bits - 1)) .. 2 ^ (bits - 1) - 1 :
    \A i \in 0 .. bits - 1 : Bit(n, i) = bit(i)
BitOr(a, b, bits) == LET bit(i) == Truth(1 \in {Bit(a, i), Bit(b, i)}) IN FromBits(bit, bits)
BitXor(a, b, bits) == LET bit(i) == Truth(Bit(a, i) # Bit(b, i)) IN FromBits(bit, bits)
BitAnd(a, b, bits) == LET bit(i) == Bit(a, i) * Bit(b, i) IN FromBits(bit, bits)

(* A binary operator of C on two numbers of so many bits.                    *)
Arithmetic(op, a, b, bits) ==
  CASE op = "+"  -> a + b
    [] op = "-"  -> a - b
    [] op = "*"  -> a * b
    [] op = "/"  -> IF b = 0 THEN UNDEFINED ELSE Quotient(a, b)
    [] op = "%"  -> IF b = 0 THEN UNDEFINED ELSE Remainder(a, b)
    [] op = "<<" -> IF b \in 0 .. bits - 1 /\ a >= 0 THEN a * 2 ^ b ELSE UNDEFINED
    [] op = ">>" -> IF b \in 0 .. bits - 1 THEN a \div 2 ^ b ELSE UNDEFINED
    [] op = "|"  -> BitOr(a, b, bits)
    [] op = "^"  -> BitXor(a, b, bits)
    [] op = "&"  -> BitAnd(a, b, bits)
    [] op = "==" -> Truth(a = b)
    [] op = "!=" -> Truth(a # b)
    [] op = "<"  -> Truth(a < b)
    [] op = ">"  -> Truth(a > b)
    [] op = "<=" -> Truth(a <= b)
    [] op = ">=" -> Truth(a >= b)

Computed(op, a, b, bits) ==
  IF UNDEFINED \in {a, b} THEN UNDEFINED
  ELSE LET n == Arithmetic(op, a, b, bits)
       IN  IF n = UNDEFINED THEN UNDEFINED ELSE IF Fits(n, bits) THEN n ELSE UNDEFINED
==============================================================================

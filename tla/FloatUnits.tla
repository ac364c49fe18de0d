----------------------------- MODULE FloatUnits -----------------------------
(***************************************************************************)
(* The combinational floating-point units of the engines: fp32_add.v,      *)
(* fp32_sub.v, fp32_mul.v and fp32_box_gap.v.  They are not IEEE-754:      *)
(* results are truncated, a small result of a subtraction becomes zero,    *)
(* subnormal inputs keep their exponent of zero, and NaN is a number like  *)
(* others.  A number is a sign and a magnitude, the bits below the sign;   *)
(* magnitudes are compared as integers.                                    *)
(***************************************************************************)
EXTENDS Integers

CONSTANTS
  EXP_BITS,     \* 8 in the RTL
  FRAC_BITS     \* 23 in the RTL

ASSUME WidthsAssumption == EXP_BITS \in Nat \ {0} /\ FRAC_BITS \in Nat \ {0}

(* Two to the n. *)
Pow2[n \in Nat] == IF n = 0 THEN 1 ELSE 2 * Pow2[n - 1]

HIDDEN    == Pow2[FRAC_BITS]
EXP_MAX   == Pow2[EXP_BITS] - 1
BIAS      == Pow2[EXP_BITS - 1] - 1
Infinity  == EXP_MAX * HIDDEN

Number(neg, mag) == [neg |-> neg, mag |-> mag]
Zero == Number(FALSE, 0)

Exp(x)    == x.mag \div HIDDEN
Frac(x)   == x.mag % HIDDEN
IsZero(x) == x.mag = 0
IsInf(x)  == x.mag = Infinity

(* The fraction with its hidden bit, which a subnormal has not. *)
Mantissa(x) == IF Exp(x) = 0 THEN Frac(x) ELSE HIDDEN + Frac(x)

Negated(x) == [x EXCEPT !.neg = ~@]

Greater(a, b) == a.mag >= b.mag

(* The sum of the mantissas at the larger number's exponent: bits of the   *)
(* smaller one below its last place are dropped.  The register has two     *)
(* bits to spare.                                                          *)
AlignedSum(large, small) ==
  LET diff    == (Exp(large) - Exp(small)) % Pow2[EXP_BITS]
      shift   == IF diff > FRAC_BITS + 1 THEN FRAC_BITS + 1 ELSE diff
      shifted == Mantissa(small) \div Pow2[shift]
  IN  (IF large.neg # small.neg THEN Mantissa(large) - shifted
       ELSE Mantissa(large) + shifted) % Pow2[FRAC_BITS + 3]

(* Zeros before the leading one of a sum. *)
LeadingZeros(sum) ==
  CHOOSE z \in 0..FRAC_BITS :
    LET low == sum % (2 * HIDDEN)
    IN  low < Pow2[FRAC_BITS - z + 1] /\ (z = FRAC_BITS \/ low >= Pow2[FRAC_BITS - z])

Normalized(neg, exp, sum) ==
  IF sum = 0 THEN Zero
  ELSE IF (sum \div (2 * HIDDEN)) % 2 = 1
  THEN LET up == (exp + 1) % Pow2[EXP_BITS]
       IN  IF up = EXP_MAX THEN Number(neg, Infinity)
           ELSE Number(neg, up * HIDDEN + ((sum \div 2) % HIDDEN))
  ELSE LET z == LeadingZeros(sum)
       IN  IF exp <= z THEN Zero
           ELSE Number(neg, (exp - z) * HIDDEN + ((sum * Pow2[z]) % HIDDEN))

Add(a, b) ==
  LET large == IF Greater(a, b) THEN a ELSE b
      small == IF Greater(a, b) THEN b ELSE a
  IN  IF IsZero(a) /\ IsZero(b) THEN Zero
      ELSE IF IsZero(a) THEN b ELSE IF IsZero(b) THEN a
      ELSE IF IsInf(a) THEN a ELSE IF IsInf(b) THEN b
      ELSE Normalized(large.neg, Exp(large), AlignedSum(large, small))

Sub(a, b) == Add(a, Negated(b))

(* A product below the range is zero, one above it infinite. *)
InRange(neg, exp, frac) ==
  IF exp <= 0 THEN Number(neg, 0)
  ELSE IF exp >= EXP_MAX THEN Number(neg, Infinity)
  ELSE Number(neg, exp * HIDDEN + (frac % HIDDEN))

Mul(a, b) ==
  LET neg     == a.neg # b.neg
      product == Mantissa(a) * Mantissa(b)
      exp     == Exp(a) + Exp(b) - BIAS
  IN  IF IsZero(a) \/ IsZero(b) THEN Number(neg, 0)
      ELSE IF IsInf(a) \/ IsInf(b) THEN Number(neg, Infinity)
      ELSE IF product >= 2 * HIDDEN * HIDDEN
      THEN InRange(neg, exp + 1, product \div (2 * HIDDEN))
      ELSE InRange(neg, exp, product \div HIDDEN)

Square(x) == Mul(x, x)

(* Comparisons of fp32_box_gap: right for a number below or above another  *)
(* unless both are negative.                                               *)
Below(q, lo) == IF q.neg # lo.neg THEN q.neg  ELSE q.mag < lo.mag
Above(q, hi) == IF q.neg # hi.neg THEN hi.neg ELSE q.mag > hi.mag

MutantBoxGapFarSide(q, lo, hi) ==
  IF Below(q, lo) THEN Sub(hi, q) ELSE IF Above(q, hi) THEN Sub(q, lo) ELSE Zero

BoxGap(q, lo, hi) ==
  IF Below(q, lo) THEN Sub(lo, q) ELSE IF Above(q, hi) THEN Sub(q, hi) ELSE Zero
=============================================================================

-------------------------------- MODULE Dec --------------------------------
(***************************************************************************)
(* The fixed-point numbers of cosmossdk.io/math (LegacyDec), as x/staking  *)
(* and x/gov use them.  A LegacyDec is an integer counting units of        *)
(* 1/Precision (10^18 in the library, a small constant here), so the       *)
(* rounding of every operation is kept and happens on small numbers.       *)
(***************************************************************************)
EXTENDS Integers

CONSTANT Precision      \* units in 1

ASSUME PrecisionAssumption == Precision \in Nat \ {0}

\* chopPrecisionAndRound: divide by Precision, rounding half to even.
ChopPrecisionAndRound(x) ==
    LET q == x \div Precision
        r == x % Precision
    IN  IF 2 * r > Precision \/ (2 * r = Precision /\ q % 2 = 1) THEN q + 1 ELSE q

NewDecFromInt(n) == n * Precision
TruncateInt(a) == a \div Precision
MulInt(a, n) == a * n
QuoInt(a, n) == a \div n
Mul(a, b) == ChopPrecisionAndRound(a * b)
Quo(a, b) == ChopPrecisionAndRound((a * Precision * Precision) \div b)

\* The truncating forms.
MulTruncate(a, b) == (a * b) \div Precision
QuoTruncate(a, b) == (a * Precision) \div b

\* A negative dividend: the library's division truncates towards zero.
QuoSigned(a, b) == IF a < 0 THEN -Quo(-a, b) ELSE Quo(a, b)

\* QuoRoundUp rounds a positive quotient up to the next unit.
QuoRoundUp(a, b) == (a * Precision + b - 1) \div b
=============================================================================

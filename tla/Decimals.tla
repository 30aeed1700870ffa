------------------------------- MODULE Decimals -------------------------------
(***************************************************************************)
(* The arithmetic of internal/finance/decimal.go.  The code computes with  *)
(* 34 significant digits; here a number is an exact fraction <<n, d>> in   *)
(* lowest terms, so that rounding is abstracted.  NoValue is the error a   *)
(* failed operation returns: every operation on it fails too, which is     *)
(* what the code's `if err != nil { return err }` after each step does.    *)
(***************************************************************************)
EXTENDS Integers, SequencesExt

NoValue == <<0, 0>>

Gcd[a \in Nat, b \in Nat] == IF b = 0 THEN a ELSE Gcd[b, a % b]

Size(n) == IF n < 0 THEN -n ELSE n

Reduced(n, d, g) == <<n \div g, d \div g>>
Decimal(n, d) == IF d = 0 THEN NoValue ELSE Reduced(n, d, Gcd[Size(n), d])

Whole(n) == <<n, 1>>
Zero == Whole(0)
One == Whole(1)

\* The terms are brought to a common denominator first, and a product is reduced
\* before it is computed, to keep the numbers small.
SumOver(p, q, g) ==
  Decimal(p[1] * (q[2] \div g) + q[1] * (p[2] \div g), (p[2] \div g) * q[2])
Add(p, q) ==
  IF p = NoValue \/ q = NoValue THEN NoValue ELSE SumOver(p, q, Gcd[p[2], q[2]])
Negate(p) == <<-p[1], p[2]>>
Subtract(p, q) == Add(p, Negate(q))
ProductOf(a, b) == <<a[1] * b[1], a[2] * b[2]>>
Multiply(p, q) ==
  IF p = NoValue \/ q = NoValue THEN NoValue
  ELSE ProductOf(Decimal(p[1], q[2]), Decimal(q[1], p[2]))
Absolute(p) == <<Size(p[1]), p[2]>>

\* Division by zero is an error (divide, ratio).
Reciprocal(q) == IF q[1] < 0 THEN <<-q[2], -q[1]>> ELSE <<q[2], q[1]>>
Divide(p, q) == IF q[1] = 0 THEN NoValue ELSE Multiply(p, Reciprocal(q))

Compare(p, q) == Subtract(p, q)[1]
Below(p, q) == Compare(p, q) < 0
AtMost(p, q) == Compare(p, q) <= 0
Positive(p) == p[1] > 0
Negative(p) == p[1] < 0

\* power with a whole exponent, the one the valuations use.
Power(p, n) ==
  LET power[k \in 0 .. n] == IF k = 0 THEN One ELSE Multiply(power[k - 1], p)
  IN power[n]

\* sumDecimals
Total(s) == FoldLeft(Add, Zero, s)

\* A check that returns an error before the value is computed.
Checked(ok, value) == IF ok THEN value ELSE NoValue

\* positiveDenominatorRatio and validateUnitRate
OverPositive(p, q) == Checked(Positive(q), Divide(p, q))
UnitRate(p) == ~Negative(p) /\ AtMost(p, One)
=============================================================================

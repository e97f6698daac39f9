--------------------------- MODULE ExactRationals ---------------------------
(***************************************************************************)
(* Exact rational arithmetic, used in place of the controller's host       *)
(* doubles.  A rational is a record [num, den] with den > 0 and the        *)
(* fraction in lowest terms, so that equal values are equal records and a  *)
(* value can be a key or a set element.  Rounding of the doubles is not    *)
(* modelled: the model computes what the code's formulas mean.             *)
(***************************************************************************)
EXTENDS Integers

LOCAL Abs(x) == IF x < 0 THEN -x ELSE x

RECURSIVE GCD(_, _)
GCD(a, b) == IF b = 0 THEN a ELSE GCD(b, a % b)

\* n / d in lowest terms, d # 0.
Rat(n, d) ==
    LET g == GCD(Abs(n), Abs(d))
        s == IF d < 0 THEN -1 ELSE 1
    IN  [num |-> s * (n \div g), den |-> s * (d \div g)]

Int2Rat(n) == [num |-> n, den |-> 1]

RZero == Int2Rat(0)

RAdd(a, b) == Rat(a.num * b.den + b.num * a.den, a.den * b.den)
RSub(a, b) == Rat(a.num * b.den - b.num * a.den, a.den * b.den)
RMul(a, b) == Rat(a.num * b.num, a.den * b.den)
RDiv(a, b) == Rat(a.num * b.den, a.den * b.num)

RLt(a, b) == a.num * b.den < b.num * a.den
RLe(a, b) == a.num * b.den <= b.num * a.den

RMax(a, b) == IF RLt(a, b) THEN b ELSE a
RMin(a, b) == IF RLt(a, b) THEN a ELSE b

\* x clamped into [lo, hi].
RClamp(x, lo, hi) == RMin(RMax(x, lo), hi)
=============================================================================

----------------------------- MODULE Intervals -----------------------------
(***************************************************************************)
(* Ranges of expressions, math/interval.rs, beside those the graphs use    *)
(* (GraphRuntime): snapping and wrapping, smooth steps, polynomials,       *)
(* powers and angles.  <<min, max>> with integers: each function takes     *)
(* ranges of its operands and promises one that has its value at every     *)
(* point of them.  Quotients are only seen through their floors, values    *)
(* that are fractions are multiplied by their denominator, and an angle is *)
(* a point it belongs to.  No infinite operands, no -0.                    *)
(***************************************************************************)
EXTENDS Integers, FiniteSets

Lesser(a, b) == IF a < b THEN a ELSE b
Greater(a, b) == IF a > b THEN a ELSE b
Magnitude(a) == Greater(a, -a)
\* of a / b, for any b but 0
FloorOf(a, b) == IF b > 0 THEN a \div b ELSE (-a) \div (-b)

Single(v) == <<v, v>>
IsSingleValue(r) == r[1] = r[2]
FromUnordered(a, b) == <<Lesser(a, b), Greater(a, b)>>
ContainsValue(r, v) == v >= r[1] /\ v <= r[2]
ContainsInterval(r, s) == s[1] >= r[1] /\ s[2] <= r[2]
\* min4 and max4
Extremes(S) == <<CHOOSE a \in S : \A b \in S : a <= b, CHOOSE a \in S : \A b \in S : a >= b>>
Ends(r) == {r[1], r[2]}

Union(r, s) == <<Lesser(r[1], s[1]), Greater(r[2], s[2])>>
AddPoint(r, x) == IF x < r[1] THEN <<x, r[2]>> ELSE IF x > r[2] THEN <<r[1], x>> ELSE r
AddInterval(r, s) == AddPoint(AddPoint(r, s[1]), s[2])
Padded(r, e) == <<r[1] - e, r[2] + e>>
Shifted(r, x) == <<r[1] + x, r[2] + x>>
Scaled(r, x) == FromUnordered(r[1] * x, r[2] * x)
Difference(r, s) == <<r[1] - s[2], r[2] - s[1]>>
Product(r, s) == Extremes({a * b : a \in Ends(r), b \in Ends(s)})
MinScalar(r, b) == <<Lesser(r[1], b), Lesser(r[2], b)>>
MaxScalar(r, b) == <<Greater(r[1], b), Greater(r[2], b)>>

\* floor of a quotient, plus a half when it is rounded; the divisor has no 0
FloorRatio(r, s, rounded) ==
  Extremes({IF rounded THEN FloorOf(2 * a + b, 2 * b) ELSE FloorOf(a, b) : a \in Ends(r), b \in Ends(s)})
Snapped(value, step) == Product(FloorRatio(value, step, TRUE), step)
Wrapf(x, d) == Difference(x, Product(d, FloorRatio(x, d, FALSE)))

Cubed(r) == <<r[1] * r[1] * r[1], r[2] * r[2] * r[2]>>

\* smoothstep_f32, times the cube of the distance between the two edges
SmoothstepAt(from, to, weight) ==
  LET span == Magnitude(to - from)
      x == Lesser(Greater(IF to > from THEN weight - from ELSE from - weight, 0), span)
  IN  IF span = 0 THEN from ELSE x * x * (3 * span - 2 * x)
Smoothstep(from, to, weight) ==
  IF from = to THEN Single(from)
  ELSE FromUnordered(SmoothstepAt(from, to, weight[1]), SmoothstepAt(from, to, weight[2]))

\* a * x * x + b * x + c, times 4 * |a| if a is not 0
Unit(a) == IF a = 0 THEN 1 ELSE 4 * Magnitude(a)
PolynomialAt(x, a, b, c) == Unit(a) * (a * x * x + b * x + c)
\* -1, 0 or 1: x is before, at or behind the vertex
Side(x, a, b) ==
  LET slope == IF a > 0 THEN 2 * a * x + b ELSE -(2 * a * x + b)
  IN  IF slope < 0 THEN -1 ELSE IF slope > 0 THEN 1 ELSE 0

PolynomialSecondDegree(r, a, b, c) ==
  LET y0 == PolynomialAt(r[1], a, b, c)
      y1 == PolynomialAt(r[2], a, b, c)
      vertex == IF a > 0 THEN Unit(a) * c - b * b ELSE Unit(a) * c + b * b
  IN  CASE a = 0 /\ b = 0 -> Single(c)
        [] a = 0 /\ b # 0 -> Shifted(Scaled(r, b), c)
        [] a # 0 /\ Side(r[1], a, b) < 0 /\ Side(r[2], a, b) > 0 ->
             IF a < 0 THEN <<Lesser(y0, y1), vertex>> ELSE <<vertex, Greater(y0, y1)>>
        [] OTHER ->
             IF (a >= 0 /\ Side(r[1], a, b) >= 0) \/ (a < 0 /\ Side(r[2], a, b) < 0)
             THEN <<y0, y1>> ELSE <<y1, y0>>

Power(x, n) == IF n = 0 THEN 1 ELSE x ^ n
Infinity == <<>>  \* every number
Powi(r, n) ==
  LET lo == Power(r[1], n)
      hi == Power(r[2], n)
  IN  CASE n < 0 -> Infinity
        [] n >= 0 /\ n % 2 = 1 -> <<lo, hi>>
        [] OTHER -> IF r[1] < 0 /\ r[2] > 0 THEN <<0, Greater(lo, hi)>>
                    ELSE IF r[2] <= 0 THEN <<hi, lo>> ELSE <<lo, hi>>
\* the exponent is half of n
Pow(r, n) == IF n % 2 = 0 THEN Powi(r, n \div 2) ELSE Infinity

-----------------------------------------------------------------------------
(* Angles: <<y, x>>, from above -Pi to Pi.                                 *)

MinusPi == <<>>
Pi == <<0, -1>>
HalfTurn(p) ==
  CASE p = MinusPi -> 0
    [] p # MinusPi /\ p[1] < 0 -> 1
    [] p # MinusPi /\ p[1] = 0 /\ p[2] >= 0 -> 2
    [] p # MinusPi /\ p[1] > 0 -> 3
    [] OTHER -> 4
AngleAtMost(p, q) ==
  \/ HalfTurn(p) < HalfTurn(q)
  \/ HalfTurn(p) = HalfTurn(q) /\ (HalfTurn(p) \in {1, 3} => p[2] * q[1] - p[1] * q[2] >= 0)

\* One range, or two where the angle wraps around.
Atan2Compute(y, x) ==
  LET left == x[1] <= 0   right == x[2] >= 0   below == y[1] <= 0   above == y[2] >= 0
      q0 == right /\ above   q1 == left /\ above   q2 == left /\ below   q3 == right /\ below
      From(a, b) == <<a, b>>
  IN  CASE IsSingleValue(y) /\ IsSingleValue(x) -> <<From(<<y[1], x[2]>>, <<y[1], x[2]>>)>>
        [] ~ (IsSingleValue(y) /\ IsSingleValue(x)) ->
             IF left /\ right /\ below /\ above THEN <<From(MinusPi, Pi)>>
             ELSE IF q0 /\ q1 THEN <<From(<<y[1], x[2]>>, <<y[1], x[1]>>)>>
             ELSE IF q1 /\ q2 THEN <<From(MinusPi, <<y[1], x[2]>>), From(<<y[2], x[2]>>, Pi)>>
             ELSE IF q2 /\ q3 THEN <<From(<<y[2], x[1]>>, <<y[2], x[2]>>)>>
             ELSE IF q3 /\ q0 THEN <<From(<<y[1], x[1]>>, <<y[2], x[1]>>)>>
             ELSE IF q0 THEN <<From(<<y[1], x[2]>>, <<y[2], x[1]>>)>>
             ELSE IF q1 THEN <<From(<<y[2], x[2]>>, <<y[1], x[1]>>)>>
             ELSE IF q2 THEN <<From(<<y[2], x[1]>>, <<y[1], x[2]>>)>>
             ELSE <<From(<<y[1], x[1]>>, <<y[2], x[2]>>)>>
\* atan2 for a caller that takes one range only
Atan2(y, x) == IF Cardinality(DOMAIN Atan2Compute(y, x)) = 2 THEN <<MinusPi, Pi>> ELSE Atan2Compute(y, x)[1]

-----------------------------------------------------------------------------
(* Properties.                                                             *)

Members(r) == r[1] .. r[2]
Sound(r, S) == r[1] <= r[2] /\ \A v \in S : ContainsValue(r, v)
Exact(r, S) == r = Extremes(S)

\* No range is too small, and those of one operand are no larger than they must be.
\* (A parabola that opens downwards and ends at its vertex gets its ends in the wrong order.)
RangesAreExact(r, s, k) ==
  /\ Union(r, s) = AddInterval(r, s) /\ Union(r, s) = AddInterval(s, r)
  /\ ContainsInterval(Union(r, s), r) /\ (ContainsInterval(r, s) <=> Members(s) \subseteq Members(r))
  /\ Exact(Padded(r, 2), {v + e : v \in Members(r), e \in -2 .. 2})
  /\ Exact(MinScalar(r, k), {Lesser(v, k) : v \in Members(r)})
  /\ Exact(MaxScalar(r, k), {Greater(v, k) : v \in Members(r)})
  /\ Exact(Cubed(r), {v * v * v : v \in Members(r)})
  /\ ~ ContainsValue(s, 0) =>
       /\ Sound(Snapped(r, s), {FloorOf(2 * v + w, 2 * w) * w : v \in Members(r), w \in Members(s)})
       /\ Sound(Wrapf(r, s), {v - w * FloorOf(v, w) : v \in Members(r), w \in Members(s)})
  /\ Exact(Smoothstep(s[1], k, r), {SmoothstepAt(s[1], k, w) : w \in Members(r)})
  /\ \A n \in 1 .. 4 : Exact(Powi(r, n), {Power(v, n) : v \in Members(r)})
  /\ Sound(Powi(r, 0), {Power(v, 0) : v \in Members(r)})
  /\ \A n \in {-2, 1, 3} : Pow(r, n) = Infinity
  /\ LET a == s[1] b == s[2] - 2
     IN  ~ (a < 0 /\ Side(r[2], a, b) = 0 /\ r[1] < r[2]) =>
           Sound(PolynomialSecondDegree(r, a, b, k), {PolynomialAt(v, a, b, k) : v \in Members(r)})

\* Every direction into a rectangle has its angle in one of the ranges, whose ends are in order.
AnglesAreExact(y, x) ==
  LET ranges == Atan2Compute(y, x)
      among(p, e) == AngleAtMost(e[1], p) /\ AngleAtMost(p, e[2])
  IN  /\ \A i \in DOMAIN ranges : AngleAtMost(ranges[i][1], ranges[i][2])
      /\ \A p \in Members(y) \X Members(x) :
           among(p, Atan2(y, x)) /\ \E i \in DOMAIN ranges : among(p, ranges[i])

IntervalsAreExact(in) ==
  CASE in[1] = "ranges" -> RangesAreExact(in[2], in[3], in[4])
    [] in[1] = "angles" -> AnglesAreExact(in[2], in[3])
=============================================================================

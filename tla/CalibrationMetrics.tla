--------------------------- MODULE CalibrationMetrics ---------------------------
(***************************************************************************)
(* scoring/metrics.py and scoring/ashrae.py: how far a predicted series is   *)
(* from the measured one, by the hour and by the month.                      *)
(*                                                                           *)
(* A series is a sequence of integers in the unit of its output; the metrics *)
(* do not depend on the unit.  A metric of one output is counted in          *)
(* hundredths, rounded away from zero: the limits are whole hundredths, so   *)
(* an output alone is judged exactly.  The average over outputs is kept as a *)
(* sum and a count.  Series are finite, of equal length, and not negative.   *)
(***************************************************************************)
EXTENDS Integers, Sequences, FiniteSets, Functions

CONSTANT HoursPerMonth    \* hours_per_month

ASSUME MonthAssumption == HoursPerMonth \in Nat \ {0}

Abs(x)            == IF x < 0 THEN -x ELSE x
CeilDiv(a, b)     == (a + b - 1) \div b
CeilSqrt(x)       == IF x = 0 THEN 0 ELSE CHOOSE r \in 1..x : (r - 1) * (r - 1) < x /\ x <= r * r
Differences(p, m) == [i \in DOMAIN m |-> p[i] - m[i]]
Squares(series)   == [i \in DOMAIN series |-> series[i] * series[i]]
SquaredError(p, m) == SumFunction(Squares(Differences(p, m)))

\* A mean measured value of (almost) zero leaves nothing to divide by.
Silent(m) == SumFunction(m) = 0

\* SS_tot is zero: nothing to explain.
Flat(m) == \A i, j \in DOMAIN m : m[i] = m[j]

\* sqrt(mean((p - m)^2)) / mean(m)
Cvrmse(p, m) ==
  CeilSqrt(CeilDiv(10000 * Len(m) * SquaredError(p, m), SumFunction(m) * SumFunction(m)))

\* sum(p - m) / (n * mean(m))
Nmbe(p, m) ==
  LET bias == SumFunction(Differences(p, m))
      size == CeilDiv(100 * Abs(bias), SumFunction(m))
  IN  IF bias < 0 THEN -size ELSE size

\* 1 - SS_res / SS_tot
RSquared(p, m) ==
  100 - CeilDiv(100 * Len(m) * SquaredError(p, m),
                Len(m) * SumFunction(Squares(m)) - SumFunction(m) * SumFunction(m))

AverageOrPerfect(metric, default) ==  \* faulty: with nothing to compare, no error
  IF DOMAIN metric = {} THEN [sum |-> 0, of |-> 1]
  ELSE [sum |-> SumFunction(metric), of |-> Cardinality(DOMAIN metric)]

\* The mean of a metric over the outputs that have one, or the default.
Average(metric, default) ==
  IF DOMAIN metric = {} THEN [sum |-> default, of |-> 1]
  ELSE [sum |-> SumFunction(metric), of |-> Cardinality(DOMAIN metric)]

\* aggregate_to_monthly: the last month may be short.
Month(i)       == ((i - 1) \div HoursPerMonth) + 1
HoursOf(j, s)  == {i \in DOMAIN s : Month(i) = j}
Months(s)      == 1..Month(Len(s))
ByWholeMonth(s, method) ==  \* faulty: a month that is not over is discarded
  LET sum(j) == SumFunctionOnSet(s, HoursOf(j, s))
  IN  [j \in 1..(Len(s) \div HoursPerMonth) |->
         IF method = "sum" THEN sum(j) ELSE (HoursPerMonth * sum(j)) \div Cardinality(HoursOf(j, s))]

LastMonth(s)   == Cardinality(HoursOf(Month(Len(s)), s))

\* In units of 1 / (HoursPerMonth * LastMonth(s)), the means of all months are whole.
ByMonth(s, method) ==
  LET sum(j) == SumFunctionOnSet(s, HoursOf(j, s))
  IN  [j \in Months(s) |->
         IF method = "sum" THEN sum(j)
         ELSE (HoursPerMonth * LastMonth(s) * sum(j)) \div Cardinality(HoursOf(j, s))]
=================================================================================

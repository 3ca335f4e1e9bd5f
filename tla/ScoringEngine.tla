---------------------------- MODULE ScoringEngine ----------------------------
(***************************************************************************)
(* scoring/engine.py: the weight vector of one round, in exact arithmetic.  *)
(* Component scores are counted in tenths, composites in units of           *)
(* 1 / (1000 * (2^n - 1)), n being the number of ranks that are paid, and   *)
(* weights in hundredths, rounded down.  Metrics are finite: scoring/       *)
(* metrics.py drops every output whose value is not.                        *)
(***************************************************************************)
EXTENDS Integers, FiniteSetsExt, Functions

CONSTANTS TopK,      \* CVRMSE_TOP_K
          Ceiling    \* CVRMSE_CEILING, in tenths

ASSUME EngineAssumption == TopK \in Nat \ {0} /\ Ceiling \in Nat

\* A verified submission: cvrmse in tenths, |nmbe| in hundredths, r2 in tenths,
\* sims in tenths of the budget.  A rejected one carries a reason instead.
Rejected == [rejected |-> TRUE, cvrmse |-> 0, nmbe |-> 0, r2 |-> 0, sims |-> 0]
Submissions == [rejected : BOOLEAN, cvrmse : Int, nmbe : Int, r2 : Int, sims : Int]
Clean(c, n, r, s) == [rejected |-> FALSE, cvrmse |-> c, nmbe |-> n, r2 |-> r, sims |-> s]

\* The powers of CVRMSE_DECAY_BASE, counted from the last rank that is paid.
Pow2[n \in Nat] == IF n = 0 THEN 1 ELSE 2 * Pow2[n - 1]

\* safe_clamp, on tenths.
Clamp(x) == IF x < 0 THEN 0 ELSE IF x > 10 THEN 10 ELSE x

EligibleUnchecked(verified) ==  \* faulty: a rejection reason is overlooked
  {u \in DOMAIN verified : verified[u].cvrmse <= Ceiling}

Eligible(verified) ==
  {u \in DOMAIN verified : ~verified[u].rejected /\ verified[u].cvrmse <= Ceiling}

PaidRanks(verified) ==
  IF Cardinality(Eligible(verified)) < TopK THEN Cardinality(Eligible(verified)) ELSE TopK

RankDescending(verified, u) ==  \* faulty: sorted with reverse=True
  Cardinality({w \in Eligible(verified) :
                 \/ verified[w].cvrmse > verified[u].cvrmse
                 \/ verified[w].cvrmse = verified[u].cvrmse /\ w < u})

\* sorted() is stable and submissions come in the order of their UIDs.
Rank(verified, u) ==
  Cardinality({w \in Eligible(verified) :
                 \/ verified[w].cvrmse < verified[u].cvrmse
                 \/ verified[w].cvrmse = verified[u].cvrmse /\ w < u})

RankScore(verified, u) ==
  IF u \in Eligible(verified) /\ Rank(verified, u) < PaidRanks(verified)
  THEN Pow2[PaidRanks(verified) - 1 - Rank(verified, u)]
  ELSE 0

Composite(verified, u) ==
  LET v == verified[u]
  IN  IF v.rejected THEN 0
      ELSE 500 * RankScore(verified, u)
           + (25 * Clamp(10 - v.nmbe) + 15 * Clamp(v.r2) + 10 * Clamp(10 - v.sims))
             * (Pow2[PaidRanks(verified)] - 1)

Powered(verified) ==
  LET composites == [u \in DOMAIN verified |-> Composite(verified, u)]
      top        == Max(Range(composites))
  IN  [u \in DOMAIN verified |-> IF 20 * composites[u] >= top THEN composites[u] * composites[u] ELSE 0]

\* compute(): miners without an entry are read as 0 by insert_round_scores.
Compute(verified) ==
  IF Eligible(verified) = {} THEN [u \in DOMAIN verified |-> 0]
  ELSE LET powered == Powered(verified)
           total   == SumFunction(powered)
       IN  [u \in DOMAIN verified |-> IF total > 0 THEN (100 * powered[u]) \div total ELSE 0]
==============================================================================

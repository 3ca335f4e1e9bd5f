---------------------------- MODULE CalibrationReport ----------------------------
(***************************************************************************)
(* From recorded samples to the report a miner reads: BOPTEST's recording of *)
(* the test period is brought to hourly truth (validator/emulator/           *)
(* manager.py), a submission is simulated and measured against it            *)
(* (validator/verification/engine.py), the ceiling is applied                *)
(* (scoring/engine.py), and the report is built, stored as JSON and read     *)
(* back (scoring/report_builder.py, scoring/report.py).  Who the report is   *)
(* about is the subject of ChallengeRound.                                   *)
(***************************************************************************)
EXTENDS CalibrationMetrics, FiniteSetsExt

CONSTANTS Outputs,      \* scoring_outputs
          Method,       \* resample_method of each output; kelvin goes with "mean", watts with "sum"
          Recordings,   \* samples that BOPTEST may hold of each output
          Periods,      \* lengths of a test period, in hours
          Predictions,  \* values that the model may give each output
          Freezing,     \* 273.15, in kelvin
          Ceiling,      \* CVRMSE_CEILING, in hundredths
          Missing, None, NaN, Null

\* A metric over outputs, in hundredths: what is summed, and over how many.
Metric == [sum : Int, of : Nat \ {0}]

\* No series is negative: temperatures are above freezing, energy is consumed.
ASSUME ReportAssumption ==
  /\ IsFiniteSet(Outputs) /\ Method \in [Outputs -> {"mean", "sum"}]
  /\ Freezing \in Nat
  /\ Ceiling \in Nat /\ Ceiling >= 30     \* no lower than the band of the hourly CVRMSE
  /\ Periods \subseteq Nat \ {0}
  /\ Predictions \subseteq Nat
  /\ Recordings \in [Outputs -> SUBSET Seq(Nat)]
  /\ \A o \in Outputs : \A samples \in Recordings[o] : \A i \in DOMAIN samples :
       Method[o] = "mean" => samples[i] >= Freezing
  /\ NaN \notin Metric /\ Null \notin Metric

VARIABLES hours,      \* length of the test period
          recorded,   \* what BOPTEST returned for the outputs asked so far
          truth,      \* held_out_data
          result,     \* the VerifiedResult
          report,     \* the CalibrationReport
          row         \* report_json

vars == <<hours, recorded, truth, result, report, row>>

-------------------------------------------------------------------------------
(* The recording, by the hour.  Energy is counted in Wh.                     *)
\* In the unit of the truth, but energy is still power.
Native(o, samples) ==
  [i \in DOMAIN samples |-> IF Method[o] = "mean" THEN samples[i] - Freezing ELSE samples[i]]

InUnitOfHours(output, samples) ==  \* faulty: every sample is taken to last an hour
  Native(output, samples)

InUnit(output, samples) ==
  [i \in DOMAIN samples |->
     IF Method[output] = "mean" THEN samples[i] - Freezing
     ELSE (samples[i] * hours) \div Len(samples)]

Chunk(samples, i, size) == SumFunctionOnSet(samples, ((i - 1) * size + 1)..(i * size))

\* A variable that is missing, or holds fewer samples than hours, reads as zeros.
Hourly(output, samples) ==
  LET size == Len(samples) \div hours
  IN  [i \in 1..hours |->
         IF size = 0 THEN 0
         ELSE LET total == Chunk(InUnit(output, samples), i, size)
              IN  IF Method[output] = "sum" THEN total ELSE total \div size]

(* The code divides floating-point numbers, the model integers: the recordings *)
(* are those for which that is the same.                                     *)
ASSUME ExactDivisions ==
  \A h \in Periods, o \in Outputs : \A samples \in Recordings[o] :
    LET size == Len(samples) \div h
    IN  IF Method[o] = "sum"
        THEN \A i \in DOMAIN samples : (samples[i] * h) % Len(samples) = 0
        ELSE size # 0 => \A i \in 1..h : Chunk(Native(o, samples), i, size) % size = 0

-------------------------------------------------------------------------------
(* The metrics of a submission.                                              *)
Counted(measured)   == {o \in DOMAIN measured : ~Silent(measured[o])}
Explained(measured) == {o \in DOMAIN measured : ~Flat(measured[o])}

HourlyCvrmse(p, m)   == Average([o \in Counted(m) |-> Cvrmse(p[o], m[o])], 100)
HourlyNmbe(p, m)     == Average([o \in Counted(m) |-> Nmbe(p[o], m[o])], 100)
HourlyRSquared(p, m) == Average([o \in Explained(m) |-> RSquared(p[o], m[o])], 0)

Monthly(series) == [o \in Outputs |-> ByMonth(series[o], Method[o])]
MonthlyCvrmse(p, m) == HourlyCvrmse(Monthly(p), Monthly(m))
MonthlyNmbe(p, m)   == HourlyNmbe(Monthly(p), Monthly(m))

\* scoring/ashrae.py: a metric against a limit in hundredths.
Within(metric, limit) == metric # NaN /\ Abs(metric.sum) <= limit * metric.of
Exceeds(metric, limit) == metric.sum > limit * metric.of

Bands == {"hourly_cvrmse", "hourly_nmbe", "monthly_cvrmse", "monthly_nmbe"}
MetricNames == Bands \cup {"hourly_r_squared"}

Passes(metrics) ==
  LET band == [b \in Bands |->
                 Within(metrics[b], CASE b = "hourly_cvrmse"  -> 30
                                      [] b = "hourly_nmbe"    -> 10
                                      [] b = "monthly_cvrmse" -> 15
                                      [] b = "monthly_nmbe"   -> 5)]
  IN  [b \in Bands \cup {"overall"} |-> IF b = "overall" THEN \A x \in Bands : band[x] ELSE band[b]]

PerOutputSwapped(predicted, measured) ==  \* faulty: measured against predicted
  [o \in Outputs |->
     LET p == Restrict(predicted, {o})
         m == Restrict(measured, {o})
     IN  [cvrmse |-> HourlyCvrmse(m, p), nmbe |-> HourlyNmbe(m, p), r_squared |-> HourlyRSquared(m, p)]]

\* _per_output_breakdown: each output as if it were the only one.
PerOutput(predicted, measured) ==
  [o \in Outputs |->
     LET p == Restrict(predicted, {o})
         m == Restrict(measured, {o})
     IN  [cvrmse |-> HourlyCvrmse(p, m), nmbe |-> HourlyNmbe(p, m), r_squared |-> HourlyRSquared(p, m)]]

\* JSON has no NaN.
ToDict(r) == [r EXCEPT !.metrics = [m \in MetricNames |-> IF @[m] = NaN THEN Null ELSE @[m]]]
FromDict(d) == [d EXCEPT !.metrics = [m \in MetricNames |-> IF @[m] = Null THEN NaN ELSE @[m]]]

-------------------------------------------------------------------------------
Init ==
  /\ hours \in Periods
  /\ recorded = <<>> /\ truth = <<>>
  /\ result = None /\ report = None /\ row = None

With(f, x, y) == [z \in DOMAIN f \cup {x} |-> IF z = x THEN y ELSE f[z]]

\* get_results, unit conversion and resampling of one output.
Collect(output) ==
  /\ output \notin DOMAIN truth
  /\ \E samples \in Recordings[output] \cup {Missing} :
       /\ recorded' = With(recorded, output, samples)
       /\ truth' = With(truth, output, IF samples = Missing THEN [i \in 1..hours |-> 0]
                                       ELSE Hourly(output, samples))
  /\ UNCHANGED <<hours, result, report, row>>

Ready == DOMAIN truth = Outputs /\ result = None

\* verify_all: bad parameters and a simulation that is not finite, raises or takes
\* too long are refused.
Refusals == {"INVALID_PARAMS", "DEFAULT_PARAMS",
             "SIMULATION_NAN", "SIMULATION_CRASHED", "SIMULATION_TIMEOUT"}

Refuse ==
  /\ Ready
  /\ \E reason \in Refusals : result' = [reason |-> reason]
  /\ UNCHANGED <<hours, recorded, truth, report, row>>

Measure ==
  /\ Ready
  /\ \E p \in [Outputs -> [1..hours -> Predictions]] :
       result' = [reason    |-> "",
                  predicted |-> p,
                  cvrmse    |-> HourlyCvrmse(p, truth),
                  nmbe      |-> HourlyNmbe(p, truth),
                  r_squared |-> HourlyRSquared(p, truth),
                  exceeded  |-> FALSE,
                  scored    |-> FALSE]
  /\ UNCHANGED <<hours, recorded, truth, report, row>>

\* compute() flags what exceeds the ceiling.
Score ==
  /\ result # None /\ result.reason = "" /\ ~result.scored
  /\ result' = [result EXCEPT !.exceeded = Exceeds(result.cvrmse, Ceiling), !.scored = TRUE]
  /\ UNCHANGED <<hours, recorded, truth, report, row>>

BuildRejected ==
  /\ result # None /\ result.reason # "" /\ report = None
  /\ report' = [reason |-> result.reason,
                metrics |-> [m \in MetricNames |-> NaN],
                perOutput |-> <<>>,
                passes |-> [b \in Bands \cup {"overall"} |-> FALSE]]
  /\ UNCHANGED <<hours, recorded, truth, result, row>>

Build ==
  /\ result # None /\ result.reason = "" /\ result.scored /\ report = None
  /\ LET metrics == [hourly_cvrmse    |-> result.cvrmse,
                     hourly_nmbe      |-> result.nmbe,
                     hourly_r_squared |-> result.r_squared,
                     monthly_cvrmse   |-> MonthlyCvrmse(result.predicted, truth),
                     monthly_nmbe     |-> MonthlyNmbe(result.predicted, truth)]
     IN  report' = [reason    |-> IF result.exceeded THEN "CVRMSE_CEILING_EXCEEDED" ELSE Null,
                    metrics   |-> metrics,
                    perOutput |-> PerOutput(result.predicted, truth),
                    passes    |-> Passes(metrics)]
  /\ UNCHANGED <<hours, recorded, truth, result, row>>

\* persist_report, and the answer sent back to the miner.
Persist ==
  /\ report # None /\ row = None
  /\ row' = ToDict(report)
  /\ UNCHANGED <<hours, recorded, truth, result, report>>

\* The next submission is measured against the same truth.
NextSubmission ==
  /\ row # None
  /\ result' = None /\ report' = None /\ row' = None
  /\ UNCHANGED <<hours, recorded, truth>>

Next ==
  \/ \E o \in Outputs : Collect(o)
  \/ Refuse \/ Measure \/ Score \/ BuildRejected \/ Build \/ Persist \/ NextSubmission

Spec == Init /\ [][Next]_vars
-------------------------------------------------------------------------------
(* Resampling neither invents nor loses what was recorded: the energy of a   *)
(* period is its mean power times its hours, and its mean temperature that   *)
(* of the samples, but for the samples left over when they are dealt out to  *)
(* the hours -- fewer than one an hour.  The code drops these with a warning *)
(* (manager.py:90-94), where its docstring says that values which "cannot be *)
(* evenly chunked" raise a ValueError (manager.py:76-77).                    *)
Leftover(samples) == Len(samples) % hours

ResamplingConserves ==
  \A o \in DOMAIN truth :
    recorded[o] # Missing /\ Len(recorded[o]) >= hours =>
      LET samples == Native(o, recorded[o])
          weight  == IF Method[o] = "sum" THEN Len(samples) ELSE Len(samples) - Leftover(samples)
          lost    == hours * SumFunction(samples) - weight * SumFunction(truth[o])
      IN  lost >= 0 /\ lost <= hours * Leftover(samples) * Max(Range(samples))

(* For a period of no more than a month -- the only one the program draws -- *)
(* the monthly metrics are the bias again: their NMBE is the hourly one, and *)
(* their CVRMSE the mean of the outputs' biases without sign.  Over whole    *)
(* months they forgive no bias and never ask for more than the hourly CVRMSE.*)
Plain == report # None /\ result.reason = ""

MonthlyAgrees ==
  Plain =>
    LET m == report.metrics
        biases == [o \in Counted(truth) |-> Abs(Nmbe(result.predicted[o], truth[o]))]
    IN  /\ hours <= HoursPerMonth => m.monthly_cvrmse = Average(biases, 100)
        /\ hours <= HoursPerMonth \/ hours % HoursPerMonth = 0 =>
             /\ m.monthly_nmbe = m.hourly_nmbe
             /\ m.monthly_cvrmse.sum <= m.hourly_cvrmse.sum

Unmeasured ==
  [cvrmse |-> [sum |-> 100, of |-> 1], nmbe |-> [sum |-> 100, of |-> 1], r_squared |-> [sum |-> 0, of |-> 1]]

(* The table of outputs explains the totals: an output that measured nothing *)
(* has the worst row and no part in them, and if each of the others is within*)
(* a band, the whole is.                                                     *)
TableExplainsTotals ==
  Plain =>
    LET counted == Counted(truth)
        table == report.perOutput
    IN  /\ \A o \in Outputs \ counted : table[o] = Unmeasured
        /\ counted # {} =>
             /\ report.metrics.hourly_cvrmse.sum = SumFunction([o \in counted |-> table[o].cvrmse.sum])
             /\ (\A o \in counted : Within(table[o].cvrmse, 30)) => report.passes["hourly_cvrmse"]
             /\ (\A o \in counted : Within(table[o].nmbe, 10)) => report.passes["hourly_nmbe"]

(* What a reader of the stored report finds passed was earned: the           *)
(* submission was neither refused nor above the ceiling, and something was   *)
(* measured.  A model that reproduces what was measured does pass.           *)
PassIsEarned ==
  row # None =>
    LET read == FromDict(row)
    IN  /\ read = report
        /\ read.passes["overall"] => read.reason = Null /\ Counted(truth) # {}
        /\ Plain /\ result.predicted = truth /\ Counted(truth) # {} => read.passes["overall"]
================================================================================

------------------------------- MODULE WindowEma -------------------------------
(***************************************************************************)
(* validator/scoring/window_ema.py in exact arithmetic: alpha is 3/10, and  *)
(* after k rounds the moving averages are integers in units of 10^-k.       *)
(* A round maps the miners it scored to their scores.                       *)
(***************************************************************************)
EXTENDS Integers, SequencesExt

CONSTANT PruneBelow   \* the pruning threshold, in units of a score

ASSUME EmaAssumption == PruneBelow \in Nat

NoAverages == [unit |-> 1, of |-> <<>>]

\* Blend one round into the averages acc.of, kept in units of 1 / acc.unit.
BlendAbsentKept(acc, scores) ==  \* faulty: who is absent keeps the average
  LET unit == 10 * acc.unit
  IN  [unit |-> unit,
       of   |-> [u \in DOMAIN acc.of \cup DOMAIN scores |->
                   IF u \notin DOMAIN acc.of THEN scores[u] * unit
                   ELSE IF u \notin DOMAIN scores THEN 10 * acc.of[u]
                   ELSE 3 * scores[u] * acc.unit + 7 * acc.of[u]]]

Blend(acc, scores) ==
  LET unit  == 10 * acc.unit
      value == [u \in DOMAIN acc.of \cup DOMAIN scores |->
                  IF u \notin DOMAIN acc.of THEN scores[u] * unit
                  ELSE 7 * acc.of[u]
                       + (IF u \in DOMAIN scores THEN 3 * scores[u] * acc.unit ELSE 0)]
      kept  == {u \in DOMAIN value : u \in DOMAIN scores \/ value[u] >= PruneBelow * unit}
  IN  [unit |-> unit, of |-> [u \in kept |-> value[u]]]

\* compute_window_ema, before the division by the total.
Averages(rounds) == FoldLeft(Blend, NoAverages, rounds)
================================================================================

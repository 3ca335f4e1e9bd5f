----------------------------- MODULE MCScoreWindow -----------------------------
(* ScoreWindow with three miners and two paid ranks: a good, a less good and a *)
(* rejected submission, and one above the CVRMSE ceiling that falls below the  *)
(* score floor in the company of a good one.  The pruning threshold is high,   *)
(* so that it is met within three rounds.                                      *)
EXTENDS ScoreWindow

ThreeUids == {1, 2, 3}

Results == {Clean(2, 0, 9, 1), Clean(5, 1, 8, 2), Clean(150, 9, 1, 10), Rejected}

\* Every mixture of results, each dealt to the UIDs in one order only: within a
\* round UIDs are interchangeable but for the order in which their rows age out.
Mixtures ==
  {v \in UNION {[S -> Results] : S \in SUBSET ThreeUids} :
     \A a, b \in DOMAIN v : a < b => v[a].cvrmse <= v[b].cvrmse}
================================================================================

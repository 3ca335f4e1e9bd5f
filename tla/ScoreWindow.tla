------------------------------ MODULE ScoreWindow ------------------------------
(***************************************************************************)
(* From verified submissions to weights: a round scores its submissions     *)
(* (ScoringEngine), records the scores (validator/main.py:424-453), and the *)
(* weight loop averages what the scoring window still holds (WindowEma).    *)
(***************************************************************************)
EXTENDS ScoringEngine, WindowEma

CONSTANTS Uids,       \* miners, by UID
          Outcomes,   \* what verification may find in a round, by UID
          MaxRounds   \* rounds in the window (bound)

ASSUME WindowAssumption ==
  /\ Uids \subseteq Nat /\ IsFiniteSet(Uids)
  /\ \A v \in Outcomes : \E S \in SUBSET Uids : v \in [S -> Submissions]
  /\ MaxRounds \in Nat

VARIABLES verified,   \* the results of the newest round, by UID
          window      \* scores of the rounds in the window, oldest first

vars == <<verified, window>>

Init == verified = <<>> /\ window = <<>>

\* A round without a single submission returns before it scores anything.
RunRound ==
  /\ Len(window) < MaxRounds
  /\ verified' \in {v \in Outcomes : DOMAIN v # {}}
  /\ window' = Append(window, Compute(verified'))

\* The window ends at some row's received_at.  The rows of a round are stamped
\* in the order of the UIDs, so the oldest round loses the lowest ones first.
AgeOut ==
  /\ window # <<>>
  /\ \E last \in DOMAIN window[1] :
       LET left == {u \in DOMAIN window[1] : u > last}
       IN  window' = IF left = {} THEN Tail(window) ELSE [window EXCEPT ![1] = Restrict(@, left)]
  /\ UNCHANGED verified

Next == RunRound \/ AgeOut

Spec == Init /\ [][Next]_vars
-------------------------------------------------------------------------------
(* Of two clean submissions, the one with the lower CVRMSE that is no worse  *)
(* in any other metric never gets the smaller weight -- through rank cap,    *)
(* ceiling, floor and power law.                                             *)
Better(a, b) ==
  /\ ~a.rejected /\ ~b.rejected
  /\ a.cvrmse < b.cvrmse
  /\ a.nmbe <= b.nmbe /\ a.r2 >= b.r2 /\ a.sims <= b.sims

BetterNeverEarnsLess ==
  LET weights == Compute(verified)
  IN  \A a, b \in DOMAIN verified :
        Better(verified[a], verified[b]) => weights[a] >= weights[b]

(* A submission that verification rejects leaves the weights of the others   *)
(* as if it had never been sent.                                             *)
RejectedDoNotCount ==
  \A u \in DOMAIN verified :
    LET others == DOMAIN verified \ {u}
    IN  verified[u].rejected => Restrict(Compute(verified), others) = Compute(Restrict(verified, others))

(* The average of a miner is what its definition says: the score it started  *)
(* with, discounted by 7/10 for each round since, plus 3/10 of each later    *)
(* score discounted likewise (0 for a round it missed).  It started at its   *)
(* first round in the window, or the first after a round it missed with an   *)
(* average below the pruning threshold.                                      *)
ScoreIn(i, u) == IF u \in DOMAIN window[i] THEN window[i][u] ELSE 0

SevenTo[n \in Nat] == IF n = 0 THEN 1 ELSE 7 * SevenTo[n - 1]
TenTo[n \in Nat]   == IF n = 0 THEN 1 ELSE 10 * TenTo[n - 1]

DefinedAverage(u, first, last) ==  \* in units of 10 ^ (first - last - 1)
  10 * SevenTo[last - first] * ScoreIn(first, u)
  + SumFunction([i \in (first + 1)..last |-> 3 * SevenTo[last - i] * TenTo[i - first] * ScoreIn(i, u)])

ForgottenAt(u, first, i) ==
  u \notin DOMAIN window[i] /\ DefinedAverage(u, first, i) < PruneBelow * TenTo[i - first + 1]

StartOf(u) ==
  LET start[i \in 0..Len(window)] ==
        IF i = 0 THEN 0
        ELSE IF start[i - 1] = 0 THEN IF u \in DOMAIN window[i] THEN i ELSE 0
        ELSE IF ForgottenAt(u, start[i - 1], i) THEN 0 ELSE start[i - 1]
  IN  start[Len(window)]

EmaIsWeightedMean ==
  LET averages == Averages(window).of
      started  == {u \in Uids : StartOf(u) # 0}
  IN  averages = [u \in started |->
                    DefinedAverage(u, StartOf(u), Len(window)) * TenTo[StartOf(u) - 1]]
================================================================================

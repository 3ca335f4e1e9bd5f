------------------------------ MODULE MCScoringDB ------------------------------
(* ScoringDB with two miners, a few rounds, crashes and units of time.          *)
EXTENDS ScoringDB, TLC

CONSTANTS m1, m2
TwoMiners == {m1, m2}
Symmetry  == Permutations(Miners)
===============================================================================

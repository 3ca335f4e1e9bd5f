---------------------------- MODULE MCChallengeRound ----------------------------
(* Three UIDs, one of them the validator's, and one newcomer; two parameters.  *)
EXTENDS ChallengeRound

CONSTANTS v, a, b, c

ThreeUids    == {1, 2, 3}
FourHotkeys  == {v, a, b, c}
Two          == {"wall_r", "cop"}

Params(f) == [kind |-> "params", params |-> f]

Moved   == Params([wall_r |-> "moved", cop |-> "default"])
Partial == Params([wall_r |-> "default"])
Outside == Params([wall_r |-> "moved", cop |-> "outside"])
Unknown == Params([wall_r |-> "moved", vent |-> "moved"])

FourPayloads == {Moved, Partial, Outside, Unknown}
OnePayload   == {Moved}

Symmetry == Permutations({a, b, c})
=================================================================================

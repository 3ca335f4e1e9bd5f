-------------------------- MODULE MCValidatorRuntime --------------------------
(* ValidatorRuntime on small executors.  Time is in units of 30 s: reads 1,  *)
(* metagraph sync 2, weight setting 4, watchdog 6 (validator/main.py:54-67,  *)
(* validator/weights/setter.py:73).                                          *)
EXTENDS ValidatorRuntime

CONSTANTS w1, w2
TwoWorkers == {w1, w2}
Symmetry   == Permutations(Workers)
===============================================================================

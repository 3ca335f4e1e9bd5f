-------------------------------- MODULE MCMiner --------------------------------
(* Two hotkeys beside the miner's, each with a challenge; one thread.              *)
EXTENDS Miner

CONSTANTS me, a, b
Two   == {a, b}
Each  == <<a, b>>
===============================================================================

--------------------------- MODULE MCCalibrationReport ---------------------------
(* A temperature and an energy; months of two hours, and periods of half a month *)
(* up to two months; the ceiling is low enough to be exceeded.                    *)
EXTENDS CalibrationReport, TLC

CONSTANTS zone, heating

Methods == zone :> "mean" @@ heating :> "sum"

Samples ==
  zone    :> {<<>>, <<293, 293, 293, 293>>, <<291, 293, 295, 289>>, <<273, 273, 293, 289, 302>>}
  @@ heating :> {<<20, 20>>, <<0, 40, 20, 20>>, <<0, 0, 0, 12>>, <<40, 20, 40, 40, 60>>, <<0, 0, 0, 0>>}
================================================================================

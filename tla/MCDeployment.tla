------------------------------ MODULE MCDeployment ------------------------------
(* Two commits, the second of which bumps the spec version.                      *)
EXTENDS Deployment

Two        == {1, 2}
Bump == <<1, 2>>
===============================================================================

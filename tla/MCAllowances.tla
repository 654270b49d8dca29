---------------------------- MODULE MCAllowances ----------------------------
(* Two different blocked actions and two allowances.                       *)
EXTENDS Allowances, TLC

CONSTANTS b1, b2, i1, i2

TwoActions == (b1 :> "k1") @@ (b2 :> "k2")
=============================================================================

----------------------------- MODULE MCQuantile -----------------------------
(* Model checking of Quantile: the percentiles of the two versions, gaps   *)
(* from -1 to one that an int does not hold, then only 0 until the float   *)
(* n1 is visibly off.                                                      *)
EXTENDS Quantile

BothP == {PRtc, PLthread}

SomeGaps ==
  [k \in 0 .. MaxObs - 1 |-> IF k < 9 THEN {-1, 0, 2, 7, 9} ELSE {0}]
=============================================================================

--------------------------- MODULE MCEasyFlashEnv ---------------------------
(* EasyFlashEnv on a few small sectors: two keys, values short and long.    *)
EXTENDS EasyFlashEnv

CONSTANTS k1, k2, short, long

TwoKeys == {k1, k2}
TwoVals == {short, long}
Fitting == [v \in TwoVals |-> IF v = short THEN 2 ELSE 3]
=============================================================================

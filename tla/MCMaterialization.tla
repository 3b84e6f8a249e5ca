------------------------- MODULE MCMaterialization -------------------------
(***************************************************************************)
(* Instances of Materialization for TLC.                                   *)
(***************************************************************************)
EXTENDS Materialization, TLC

CONSTANTS a, b, c, w1, w2

ThreeRows == {a, b, c}
TwoRows == {a, b}
OneWorker == {w1}
TwoWorkers == {w1, w2}
RowSymmetry == Permutations(Rows)
=============================================================================

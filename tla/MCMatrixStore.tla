--------------------------- MODULE MCMatrixStore ---------------------------
(* Instances of MatrixStore for TLC.                                       *)
EXTENDS MatrixStore, TLC

CONSTANTS a, b

ShippedMatrix == {a}

Symmetry == Permutations(Requests)
=============================================================================

-------------------------- MODULE MCInterpolation --------------------------
(* Interpolation for two remote players, who are interchangeable.          *)
EXTENDS Interpolation, TLC

CONSTANTS p1, p2

Interchangeable == Permutations({p1, p2})
=============================================================================

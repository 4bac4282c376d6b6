----------------------------- MODULE MCLmdbWriter -----------------------------
(* Instances of LmdbWriter for TLC.                                         *)
EXTENDS LmdbWriter

CONSTANTS k1, k2, k3, i1, i2

MCKeys == {k1, k2, k3}
MCIds == {i1, i2}
=============================================================================

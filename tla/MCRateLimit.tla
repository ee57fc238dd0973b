----------------------------- MODULE MCRateLimit -----------------------------
(* Constants for TLC.                                                      *)
EXTENDS RateLimit, TLC

Symmetry == Permutations(Workers)
=============================================================================

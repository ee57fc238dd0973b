---------------------------- MODULE MCFileStorage ----------------------------
(* Model-checking instance of FileStorage: two files, two upload threads,  *)
(* two slugs.                                                              *)
EXTENDS FileStorage, TLC

CONSTANTS f1, f2, j1, j2, g1, g2

MCSymmetry == Permutations(Files) \cup Permutations(Jobs) \cup Permutations(Slugs)

=============================================================================

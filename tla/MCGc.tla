-------------------------------- MODULE MCGc --------------------------------
(***************************************************************************)
(* Small instances of Gc for TLC.                                          *)
(***************************************************************************)
EXTENDS Gc, TLC

CONSTANTS p1, p2, p3, s1, s2, sigint, sigterm

GcSymmetry == Permutations(Ptrs) \cup Permutations(Fds) \cup Permutations(Signals)
=============================================================================

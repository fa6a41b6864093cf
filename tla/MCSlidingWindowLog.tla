------------------------- MODULE MCSlidingWindowLog -------------------------
(* Small instances of SlidingWindowLog for TLC.                            *)
EXTENDS SlidingWindowLog, TLC

ReqSymmetry == Permutations(Reqs)
=============================================================================

---------------------------- MODULE MCCoalescer ----------------------------
(* A small instance of Coalescer for TLC.                                  *)
EXTENDS Coalescer

CONSTANTS r1, r2, r3, r4, k1, k2

\* Three requests of one key: two leaders in a row and a third request.
MCKeyOf == [r \in {r1, r2, r3, r4} |-> IF r = r4 THEN k2 ELSE k1]
=============================================================================

------------------------------ MODULE MCProxy ------------------------------
(* Small instances of Proxy for TLC: requests of the same kind are alike.  *)
EXTENDS Proxy, TLC

KindSymmetry == Permutations(Idempotent \ Unsendable)
=============================================================================

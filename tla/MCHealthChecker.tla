-------------------------- MODULE MCHealthChecker --------------------------
(* A small instance of HealthChecker for TLC.                              *)
EXTENDS HealthChecker

CONSTANTS a, b, i, j, u, v

\* Service a with two instances, one of which may come back with another url
\* and weight, or with a weight that takes the total to 0 or below; a service b
\* that uses one of their ids.
MCOffers == {<<a, i, u, 1>>, <<a, j, v, 2>>, <<a, i, v, 2>>, <<a, i, v, -2>>, <<b, i, v, 1>>}
MCWeights == {1, 2, -2}
=============================================================================

---------------------------- MODULE MCOptimizer ----------------------------
(***************************************************************************)
(* The instance of Optimizer that TLC checks.                              *)
(***************************************************************************)
EXTENDS Optimizer

\* Nonsense, ten requests per second, and sixty, which are more
\* than MaxHostRPS.
Headers == {-7200, 36000, 216000}
=============================================================================

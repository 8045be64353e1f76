------------------------------ MODULE MCCrawl ------------------------------
(***************************************************************************)
(* The instances of Crawl that TLC checks.                                 *)
(***************************************************************************)
EXTENDS Crawl, TLC

Survivable == OutcomeKinds \ {"unhandled"}

\* Visitors are interchangeable in a run that checks no temporal property.
Symmetry == Permutations(Visitors)
=============================================================================

------------------------------- MODULE MCAnalyzer -------------------------------
(* REST prices for Analyzer. *)
EXTENDS Analyzer, TLC

\* A cheap pair, and one whose NO price did not parse.
SomeSeeds == {[YES |-> 4500, NO |-> 4600], [YES |-> 4500, NO |-> 0]}

\* Nothing tells two markets apart.
Symmetry == Permutations(Markets)
=============================================================================

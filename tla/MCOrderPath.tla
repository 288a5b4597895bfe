------------------------------- MODULE MCOrderPath -------------------------------
(* Grids of asks and depths for OrderPath. *)
EXTENDS OrderPath

\* Around the redline, around an even split, and pairs that add up to just
\* under and just over one dollar.
SomeAsks == {0, 790, 800, 810, 1000, 2510, 4000, 4500, 4890, 4950, 4980, 5000, 5040, 5400, 6000, 7390, 8990, 9090}
\* 1, 9.9999, 10, 10.0003, 12.3457, 20, 1000 shares.
SomeDepths == {10000, 99999, 100000, 100003, 123457, 200000, 10000000}

\* Pairs whose raw profit is between 0.2 % and 1 %.
ThinAsks == {4900, 4950, 4980, 4990, 5000}
ThinDepths == {100000, 200000}
=============================================================================

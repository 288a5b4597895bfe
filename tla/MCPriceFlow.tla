------------------------------ MODULE MCPriceFlow ------------------------------
(* Market lists and events for PriceFlow. *)
EXTENDS PriceFlow

CONSTANTS m1, m2

\* With the second list m2 moves from the second connection to the first.
SomeLists == {<<m1, m2>>, <<m2>>}

YesAsk == [leg |-> "YES", side |-> "SELL"]
YesBid == [leg |-> "YES", side |-> "BUY"]
NoAsk  == [leg |-> "NO",  side |-> "SELL"]

\* Both asks at once; a bid and the ask that mirrors it.
SomeShapes == {<<YesAsk, NoAsk>>, <<YesBid, NoAsk>>}
=============================================================================

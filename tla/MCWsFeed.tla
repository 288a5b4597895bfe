-------------------------------- MODULE MCWsFeed --------------------------------
(* Market lists for WsFeed. *)
EXTENDS WsFeed

CONSTANTS m1, m2, m3, m4, m5

\* None, fewer markets than connections, uneven shards, the same markets in
\* another order, a market that moves to another shard, one that is listed
\* twice, more than fit.
SomeLists ==
  {<<>>, <<m1>>, <<m1, m2>>, <<m2, m1>>, <<m1, m2, m3>>, <<m2, m3, m2>>,
   <<m1, m2, m3, m4, m5>>}

\* A list that shrinks.
ShrinkingLists == {<<m1, m2>>, <<m1>>}
=============================================================================

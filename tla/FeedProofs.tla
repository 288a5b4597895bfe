------------------------------- MODULE FeedProofs -------------------------------
(***************************************************************************)
(* Sharding loses no market, and a listener never gives a working          *)
(* connection up for nothing, for any number of connections, any capacity, *)
(* lists and failures.                                                     *)
(***************************************************************************)
EXTENDS WsFeed, SequenceTheorems, TLAPS

\* ---- The inductive invariant ----

\* The connections behind the one that is sent to next hold their shard of the
\* last list, as far as that list reaches.
ShardsSent ==
  \A i \in Conns :
    i < sending /\ Start(markets, i) < Len(markets) => watch[i] = Shard(markets, i)

\* A listener that has seen its channel's value subscribes to it, and what a
\* working socket streams is what was subscribed to.
Wired ==
  \A i \in Conns :
    /\ ~ changed[i] => current_ids[i] = watch[i]
    /\ conn[i] = "up" /\ link[i] => streamed[i] = ToSet(current_ids[i])

FeedInv == TypeOK /\ markets \in Seq(Markets) /\ ShardsSent /\ Wired

-----------------------------------------------------------------------------
\* ---- Arithmetic ----

LEMMA Sizes == NUM_WS \in Nat \ {0} /\ CAPACITY \in Nat \ {0} /\ Conns = 1..NUM_WS
BY SizeAssumption DEF Conns

\* Products of natural numbers grow with a factor.
LEMMA Grows ==
  ASSUME NEW a \in Nat, NEW b \in Nat, NEW c \in Nat, a <= b
  PROVE  a * c <= b * c /\ a * c \in Nat /\ b * c \in Nat
BY SMT

\* Rounding up, the connections together take the whole list, and no more than
\* their capacity when the list fits.
LEMMA PerConnectionBounds ==
  ASSUME NEW count \in Nat
  PROVE  /\ PerConnection(count) \in Nat
         /\ count <= NUM_WS * PerConnection(count)
         /\ count <= NUM_WS * CAPACITY => PerConnection(count) <= CAPACITY
         /\ count > 0 => PerConnection(count) > 0
<1> DEFINE n   == NUM_WS
           per == (count + n - 1) \div n
<1>1. n \in Nat \ {0} /\ CAPACITY \in Nat \ {0}
  BY Sizes
<1>2. PerConnection(count) = per
  BY DEF PerConnection
<1> HIDE DEF n
<1>3. per \in Nat /\ per * n <= count + n - 1 /\ count + n - 1 < per * n + n
  <2>1. count + n - 1 \in Nat
    BY <1>1, SMT
  <2> DEFINE sum == count + n - 1
  <2> HIDE DEF sum
  <2>2. sum \in Nat
    BY <2>1 DEF sum
  <2>3. sum \div n \in Nat /\ (sum \div n) * n <= sum /\ sum < (sum \div n) * n + n
    BY <1>1, <2>2, SMT
  <2> QED
    BY <2>3 DEF sum
<1> HIDE DEF per
<1>4. per * n \in Nat /\ n * per = per * n
  BY <1>1, <1>3, SMT
<1>5. count <= n * per
  BY <1>1, <1>3, <1>4, SMT
<1>6. ASSUME count <= n * CAPACITY PROVE per <= CAPACITY
  <2> SUFFICES ASSUME CAPACITY + 1 <= per PROVE FALSE
    BY <1>1, <1>3, SMT
  <2>1. (CAPACITY + 1) * n <= per * n
    BY <1>1, <1>3, Grows
  <2>2. (CAPACITY + 1) * n = n * CAPACITY + n /\ n * CAPACITY \in Nat
    BY <1>1, SMT
  <2> QED
    BY <1>1, <1>3, <1>4, <1>6, <2>1, <2>2, SMT
<1>7. count > 0 => per > 0
  <2>1. n * 0 = 0
    BY <1>1, SMT
  <2> QED
    BY <1>3, <1>5, <2>1, SMT
<1> QED
  BY <1>2, <1>3, <1>5, <1>6, <1>7 DEF n

\* A later connection starts no earlier.
LEMMA StartGrows ==
  ASSUME NEW list \in Seq(Markets), NEW i \in Conns, NEW j \in Conns, i <= j
  PROVE  /\ Start(list, i) \in Nat /\ Start(list, j) \in Nat
         /\ Start(list, i) <= Start(list, j)
<1>1. Len(list) \in Nat
  BY LenProperties
<1>2. PerConnection(Len(list)) \in Nat
  BY <1>1, PerConnectionBounds
<1>3. i - 1 \in Nat /\ j - 1 \in Nat /\ i - 1 <= j - 1
  BY Sizes, SMT
<1> QED
  BY <1>2, <1>3, Grows DEF Start

\* A shard is what it says, and never more than one subscription holds.
LEMMA ShardShape ==
  ASSUME NEW list \in Seq(Markets), NEW i \in Conns
  PROVE  /\ Shard(list, i) \in Seq(Markets)
         /\ Len(Shard(list, i)) <= CAPACITY
         /\ \A p \in 1..Len(list) :
              /\ Start(list, i) < p /\ p <= Start(list, i) + PerConnection(Len(list))
              /\ PerConnection(Len(list)) <= CAPACITY
              => list[p] \in ToSet(Shard(list, i))
         /\ \A m \in ToSet(Shard(list, i)) :
              \E p \in 1..Len(list) :
                /\ Start(list, i) < p /\ p <= Start(list, i) + PerConnection(Len(list))
                /\ m = list[p]
<1> DEFINE per   == PerConnection(Len(list))
           start == Start(list, i)
           end   == IF start + per < Len(list) THEN start + per ELSE Len(list)
           last  == IF end - start > CAPACITY THEN start + CAPACITY ELSE end
           shard == SubSeq(list, start + 1, last)
<1>1. Len(list) \in Nat /\ CAPACITY \in Nat \ {0}
  BY LenProperties, Sizes
<1>2. per \in Nat /\ start \in Nat
  <2>1. per \in Nat
    BY <1>1, PerConnectionBounds
  <2>2. i <= i
    BY Sizes, SMT
  <2> QED
    BY <2>1, <2>2, StartGrows
<1>3. Shard(list, i) = shard
  BY DEF Shard, Start
<1> HIDE DEF per, start
<1>4. last \in Int /\ last <= Len(list) /\ last <= start + CAPACITY /\ last <= start + per
  BY <1>1, <1>2, SMT
<1>5. ASSUME per <= CAPACITY, NEW p \in 1..Len(list), start < p, p <= start + per
      PROVE  p <= last
  BY <1>1, <1>2, <1>5, SMT
<1> HIDE DEF last
<1>6. \A k \in start + 1..last : list[k] \in Markets
  <2>1. \A k \in start + 1..last : k \in 1..Len(list)
    BY <1>1, <1>2, <1>4, SMT
  <2> QED
    BY <2>1, ElementOfSeq
<1>7. /\ shard \in Seq(Markets)
      /\ Len(shard) = IF start + 1 <= last THEN last - (start + 1) + 1 ELSE 0
      /\ \A k \in 1..last - (start + 1) + 1 : shard[k] = list[start + 1 + k - 1]
  <2>1. start + 1 \in Int
    BY <1>2, SMT
  <2> QED
    BY <1>4, <1>6, <2>1, SubSeqProperties
<1> HIDE DEF shard
<1>8. Len(shard) <= CAPACITY
  BY <1>1, <1>2, <1>4, <1>7, SMT
<1>9. ASSUME per <= CAPACITY, NEW p \in 1..Len(list), start < p, p <= start + per
      PROVE  list[p] \in ToSet(shard)
  <2>1. p <= last
    BY <1>5, <1>9
  <2>2. /\ p - start \in 1..Len(shard) /\ p - start \in 1..last - (start + 1) + 1
        /\ start + 1 + (p - start) - 1 = p
    BY <1>1, <1>2, <1>4, <1>7, <1>9, <2>1, SMT
  <2>3. shard[p - start] = list[p] /\ p - start \in DOMAIN shard
    BY <1>7, <2>2, LenProperties
  <2> QED
    BY <2>3 DEF ToSet
<1>10. ASSUME NEW m \in ToSet(shard)
       PROVE  \E p \in 1..Len(list) : start < p /\ p <= start + per /\ m = list[p]
  <2>1. PICK k \in 1..Len(shard) : m = shard[k]
    BY <1>7, LenProperties DEF ToSet
  <2>2. /\ start + k \in 1..Len(list) /\ start < start + k /\ start + k <= start + per
        /\ k \in 1..last - (start + 1) + 1 /\ start + 1 + k - 1 = start + k
    BY <1>1, <1>2, <1>4, <1>7, <2>1, SMT
  <2> QED
    BY <1>7, <2>1, <2>2
<1> QED
  BY <1>3, <1>7, <1>8, <1>9, <1>10 DEF per, start

\* Every position of a list lies behind the start of some connection and within
\* its share.
LEMMA SomeConnection ==
  ASSUME NEW list \in Seq(Markets), NEW p \in 1..Len(list)
  PROVE  \E i \in Conns : /\ Start(list, i) < p
                          /\ p <= Start(list, i) + PerConnection(Len(list))
<1> DEFINE per == PerConnection(Len(list))
           q   == (p - 1) \div per
<1>1. Len(list) \in Nat /\ p \in Nat /\ 1 <= p /\ p <= Len(list) /\ NUM_WS \in Nat \ {0}
  BY LenProperties, Sizes, SMT
<1>2. per \in Nat \ {0} /\ Len(list) <= NUM_WS * per
  BY <1>1, PerConnectionBounds, SMT
<1>3. q \in Nat /\ q * per <= p - 1 /\ p - 1 < q * per + per
  <2> HIDE DEF per
  <2>1. p - 1 \in Nat
    BY <1>1, SMT
  <2> DEFINE r == p - 1
  <2> HIDE DEF r
  <2>2. r \in Nat
    BY <2>1 DEF r
  <2>3. r \div per \in Nat /\ (r \div per) * per <= r /\ r < (r \div per) * per + per
    BY <1>2, <2>2, SMT
  <2> QED
    BY <2>3 DEF r
<1> HIDE DEF q
<1>4. q + 1 <= NUM_WS
  <2> SUFFICES ASSUME NUM_WS <= q PROVE FALSE
    BY <1>1, <1>3, SMT
  <2> HIDE DEF per
  <2>1. NUM_WS * per <= q * per /\ NUM_WS * per \in Nat /\ q * per \in Nat
    BY <1>1, <1>2, <1>3, Grows
  <2> QED
    BY <1>1, <1>2, <1>3, <2>1, SMT
<1>5. q + 1 \in Conns
  BY <1>1, <1>3, <1>4, Sizes, SMT
<1>6. Start(list, q + 1) = q * per
  <2>1. (q + 1) - 1 = q
    BY <1>3, SMT
  <2>2. Start(list, q + 1) = ((q + 1) - 1) * per
    BY DEF Start
  <2> HIDE DEF per
  <2> QED
    BY <2>1, <2>2
<1>7. q * per < p /\ p <= q * per + per
  <2> HIDE DEF per
  <2>1. q * per \in Nat
    BY <1>2, <1>3, SMT
  <2> QED
    BY <1>1, <1>2, <1>3, <2>1, SMT
<1> QED
  BY <1>5, <1>6, <1>7

-----------------------------------------------------------------------------
\* ---- The invariant holds ----

\* The elements of an id list are markets.
LEMMA IdsAreMarkets ==
  ASSUME NEW ids \in Seq(Markets)
  PROVE  ToSet(ids) \subseteq Markets
BY LenProperties, ElementOfSeq DEF ToSet

LEMMA InitiallyFed ==
  ASSUME Init
  PROVE  FeedInv
<1>1. <<>> \in Seq(Markets) /\ Len(<<>>) = 0 /\ ToSet(<<>>) = {}
  <2>1. DOMAIN <<>> = {}
    BY SMT
  <2> QED
    BY <2>1, EmptySeq DEF ToSet
<1>2. TypeOK
  <2>1. sending \in 1..NUM_WS + 1 /\ refreshes \in 0..REFRESHES /\ failures \in 0..FAILURES
    BY Sizes, BoundAssumption, SMT DEF Init
  <2>2. 0 <= CAPACITY
    BY Sizes, SMT
  <2> QED
    BY <1>1, <2>1, <2>2 DEF Init, TypeOK
<1>3. ShardsSent
  <2> SUFFICES ASSUME NEW i \in Conns PROVE ~ (Start(<<>>, i) < 0)
    BY <1>1 DEF Init, ShardsSent
  <2>1. i <= i
    BY Sizes, SMT
  <2>2. Start(<<>>, i) \in Nat
    BY <1>1, <2>1, StartGrows
  <2> QED
    BY <2>2, SMT
<1>4. Wired
  BY DEF Init, Wired
<1> QED
  BY <1>1, <1>2, <1>3, <1>4 DEF Init, FeedInv

\* A new list starts the sends over.
LEMMA FetchFed ==
  ASSUME FeedInv, NEW list \in Lists, Fetch(list)
  PROVE  FeedInv'
<1>1. /\ markets' = list /\ sending' = 1 /\ refreshes < REFRESHES /\ refreshes' = refreshes + 1
      /\ UNCHANGED <<watch, changed, conn, current_ids, link, streamed, failures>>
  BY DEF Fetch
<1>2. 1 \in 1..NUM_WS + 1 /\ refreshes' \in 0..REFRESHES
  BY <1>1, Sizes, BoundAssumption, SMT DEF FeedInv, TypeOK
<1>3. TypeOK'
  BY <1>1, <1>2 DEF FeedInv, TypeOK
<1>4. ShardsSent'
  <2>1. \A i \in Conns : ~ (i < 1)
    BY Sizes, SMT
  <2> QED
    BY <1>1, <2>1 DEF ShardsSent
<1>5. (markets \in Seq(Markets))'
  BY <1>1, ListAssumption
<1>6. Wired'
  BY <1>1 DEF FeedInv, Wired
<1> QED
  BY <1>3, <1>4, <1>5, <1>6 DEF FeedInv

LEMMA SendShardFed ==
  ASSUME FeedInv, SendShard
  PROVE  FeedInv'
<1>1. /\ sending \in Conns /\ sending' = sending + 1
      /\ watch' = [watch EXCEPT ![sending] = Shard(markets, sending)]
      /\ changed' = [changed EXCEPT ![sending] = TRUE]
      /\ UNCHANGED <<markets, refreshes, conn, current_ids, link, streamed, failures>>
  BY DEF SendShard
<1>2. markets \in Seq(Markets)
  BY DEF FeedInv
<1>3. Shard(markets, sending) \in Seq(Markets) /\ Len(Shard(markets, sending)) <= CAPACITY
  BY <1>1, <1>2, ShardShape
<1>4. sending' \in 1..NUM_WS + 1
  BY <1>1, Sizes, SMT
<1>5. TypeOK'
  BY <1>1, <1>3, <1>4 DEF FeedInv, TypeOK
<1>6. ShardsSent'
  <2> SUFFICES ASSUME NEW i \in Conns, i < sending + 1, Start(markets, i) < Len(markets)
               PROVE  watch'[i] = Shard(markets, i)
    BY <1>1 DEF ShardsSent
  <2>1. CASE i = sending
    BY <1>1, <2>1 DEF FeedInv, TypeOK
  <2>2. CASE i # sending
    <3>1. i < sending
      BY <1>1, <2>2, Sizes, SMT
    <3> QED
      BY <1>1, <2>2, <3>1 DEF FeedInv, ShardsSent
  <2> QED
    BY <2>1, <2>2
<1>7. Wired'
  BY <1>1 DEF FeedInv, TypeOK, Wired
<1> QED
  BY <1>1, <1>2, <1>5, <1>6, <1>7 DEF FeedInv

\* Where the loop breaks off, the list has no more shards.
LEMMA BreakOffFed ==
  ASSUME FeedInv, BreakOff
  PROVE  FeedInv'
<1>1. /\ sending \in Conns /\ ~ (Start(markets, sending) < Len(markets))
      /\ sending' = NUM_WS + 1
      /\ UNCHANGED <<markets, refreshes, watch, changed, conn, current_ids, link, streamed, failures>>
  <2>1. BreakOff => sending \in Conns /\ Start(markets, sending) >= Len(markets)
    BY DEF BreakOff
  <2>2. Start(markets, sending) \in Nat /\ Len(markets) \in Nat
    <3>1. sending <= sending
      BY <2>1, Sizes, SMT
    <3> QED
      BY <2>1, <3>1, StartGrows, LenProperties DEF FeedInv
  <2>3. ~ (Start(markets, sending) < Len(markets))
    BY <2>1, <2>2, SMT
  <2> QED
    BY <2>3 DEF BreakOff
<1>2. TypeOK'
  <2>1. NUM_WS + 1 \in 1..NUM_WS + 1
    BY Sizes, SMT
  <2> QED
    BY <1>1, <2>1 DEF FeedInv, TypeOK
<1>3. ShardsSent'
  <2> SUFFICES ASSUME NEW i \in Conns, Start(markets, i) < Len(markets)
               PROVE  i < sending
    BY <1>1 DEF FeedInv, ShardsSent
  <2> SUFFICES ASSUME sending <= i PROVE FALSE
    BY <1>1, Sizes, SMT
  <2>1. /\ Start(markets, sending) \in Nat /\ Start(markets, i) \in Nat
        /\ Start(markets, sending) <= Start(markets, i)
    BY <1>1, StartGrows DEF FeedInv
  <2>2. Len(markets) \in Nat
    BY LenProperties DEF FeedInv
  <2> QED
    BY <1>1, <2>1, <2>2, SMT
<1>4. Wired'
  BY <1>1 DEF FeedInv, Wired
<1> QED
  BY <1>1, <1>2, <1>3, <1>4 DEF FeedInv

\* Listeners and the network leave lists and channels alone.
LEMMA ListenerFed ==
  ASSUME FeedInv, NEW i \in Conns,
         Listener(i) \/ ConnectFails(i) \/ HandshakeHangs(i) \/ BreakLink(i)
  PROVE  FeedInv'
<1>1. UNCHANGED <<markets, sending, watch, refreshes>>
  BY DEF Listener, Proceed, Connect, ConnectFails, HandshakeHangs, Subscribe, Resubscribe, SameShard,
         NoticeBreak, Pause, BreakLink, orchestrator
<1>2. FeedInv /\ TypeOK
  BY DEF FeedInv
<1>3. ASSUME failures < FAILURES, failures' = failures + 1 PROVE failures' \in 0..FAILURES
  BY <1>2, <1>3, BoundAssumption, SMT DEF TypeOK
<1>4. TypeOK'
  <2>1. CASE Connect(i)
    BY <1>1, <1>2, <2>1 DEF Connect, TypeOK
  <2>2. CASE ConnectFails(i)
    BY <1>1, <1>2, <1>3, <2>2 DEF ConnectFails, TypeOK
  <2>3. CASE Subscribe(i)
    <3>1. streamed'[i] \in SUBSET Markets /\ streamed'[i] \subseteq ToSet(current_ids[i])
      BY <1>2, <2>3, IdsAreMarkets DEF Subscribe, TypeOK
    <3> QED
      BY <1>1, <1>2, <2>3, <3>1 DEF Subscribe, TypeOK
  <2>4. CASE Resubscribe(i)
    BY <1>1, <1>2, <2>4 DEF Resubscribe, Reconnect, Adopted, TypeOK
  <2>5. CASE SameShard(i)
    BY <1>1, <1>2, <2>5 DEF SameShard, TypeOK
  <2>6. CASE NoticeBreak(i)
    BY <1>1, <1>2, <2>6 DEF NoticeBreak, Reconnect, TypeOK
  <2>7. CASE Pause(i)
    BY <1>1, <1>2, <2>7 DEF Pause, TypeOK
  <2>8. CASE BreakLink(i)
    BY <1>1, <1>2, <1>3, <2>8 DEF BreakLink, TypeOK
  <2>9. CASE HandshakeHangs(i)
    BY <1>1, <1>2, <1>3, <2>9 DEF HandshakeHangs, TypeOK
  <2> QED
    BY <2>1, <2>2, <2>3, <2>4, <2>5, <2>6, <2>7, <2>8, <2>9 DEF Listener, Proceed
<1>5. ShardsSent'
  BY <1>1 DEF FeedInv, ShardsSent
<1>6. Wired'
  <2> SUFFICES ASSUME NEW j \in Conns
               PROVE  /\ ~ changed'[j] => current_ids'[j] = watch'[j]
                      /\ conn'[j] = "up" /\ link'[j] => streamed'[j] = ToSet(current_ids'[j])
    BY DEF Wired
  <2>1. /\ ~ changed[j] => current_ids[j] = watch[j]
        /\ conn[j] = "up" /\ link[j] => streamed[j] = ToSet(current_ids[j])
    BY DEF FeedInv, Wired
  <2>2. CASE Connect(i)
    BY <1>2, <2>1, <2>2 DEF Connect, TypeOK
  <2>3. CASE ConnectFails(i)
    BY <1>2, <2>1, <2>3 DEF ConnectFails, TypeOK
  <2>4. CASE Subscribe(i)
    BY <1>2, <2>1, <2>4 DEF Subscribe, TypeOK
  <2>5. CASE Resubscribe(i)
    BY <1>2, <2>1, <2>5 DEF Resubscribe, Reconnect, Adopted, TypeOK
  <2>6. CASE SameShard(i)
    BY <1>2, <2>1, <2>6 DEF SameShard, Differs, TypeOK
  <2>7. CASE NoticeBreak(i)
    BY <1>2, <2>1, <2>7 DEF NoticeBreak, Reconnect, TypeOK
  <2>8. CASE Pause(i)
    BY <1>2, <2>1, <2>8 DEF Pause, TypeOK
  <2>9. CASE BreakLink(i)
    BY <1>2, <2>1, <2>9 DEF BreakLink, TypeOK
  <2>10. CASE HandshakeHangs(i)
    BY <1>2, <2>1, <2>10 DEF HandshakeHangs, TypeOK
  <2> QED
    BY <2>2, <2>3, <2>4, <2>5, <2>6, <2>7, <2>8, <2>9, <2>10 DEF Listener, Proceed
<1> QED
  BY <1>1, <1>4, <1>5, <1>6 DEF FeedInv

\* A step keeps the invariant.
LEMMA FeedInvKept ==
  ASSUME FeedInv, [Next]_vars
  PROVE  FeedInv'
<1>1. ASSUME NEW list \in Lists, Fetch(list) PROVE FeedInv'
  BY <1>1, FetchFed
<1>2. CASE SendShard
  BY <1>2, SendShardFed
<1>3. CASE BreakOff
  BY <1>3, BreakOffFed
<1>4. ASSUME NEW i \in Conns,
             Listener(i) \/ ConnectFails(i) \/ HandshakeHangs(i) \/ BreakLink(i)
      PROVE  FeedInv'
  BY <1>4, ListenerFed
<1>5. CASE UNCHANGED vars
  BY <1>5 DEF vars, orchestrator, FeedInv, TypeOK, ShardsSent, Wired
<1> QED
  BY <1>1, <1>2, <1>3, <1>4, <1>5 DEF Next

LEMMA FeedInvariance == Spec => []FeedInv
BY InitiallyFed, FeedInvKept, PTL DEF Spec

-----------------------------------------------------------------------------
\* ---- Results ----

\* The types; no shard exceeds one subscription.
THEOREM FeedTypes == Spec => []TypeOK
<1>1. FeedInv => TypeOK
  BY DEF FeedInv
<1> QED
  BY <1>1, FeedInvariance, PTL

\* The shards of the invariant take the whole list.
LEMMA ShardedByInv == FeedInv => EveryMarketSharded
<1>1. ASSUME FeedInv, Refreshed, Len(markets) <= NUM_WS * CAPACITY, NEW m \in ToSet(markets)
      PROVE  \E i \in Conns : m \in ToSet(watch[i])
  <2>1. markets \in Seq(Markets) /\ Len(markets) \in Nat /\ DOMAIN markets = 1..Len(markets)
    BY <1>1, LenProperties DEF FeedInv
  <2>2. PICK p \in 1..Len(markets) : m = markets[p]
    BY <1>1, <2>1 DEF ToSet
  <2>3. PICK i \in Conns : /\ Start(markets, i) < p
                           /\ p <= Start(markets, i) + PerConnection(Len(markets))
    BY <2>1, SomeConnection
  <2>4. PerConnection(Len(markets)) <= CAPACITY
    BY <1>1, <2>1, PerConnectionBounds
  <2>5. m \in ToSet(Shard(markets, i))
    BY <2>1, <2>2, <2>3, <2>4, ShardShape
  <2>6. i < sending /\ Start(markets, i) < Len(markets)
    <3>1. i <= i
      BY Sizes, SMT
    <3>2. Start(markets, i) \in Nat
      BY <2>1, <3>1, StartGrows
    <3> QED
      BY <1>1, <2>1, <2>3, <3>2, Sizes, SMT DEF Refreshed
  <2> QED
    BY <1>1, <2>5, <2>6 DEF FeedInv, ShardsSent
<1> QED
  BY <1>1 DEF EveryMarketSharded

\* Between refreshes every market of a list that fits is in some shard.
THEOREM NoMarketUnsharded == Spec => []EveryMarketSharded
BY ShardedByInv, FeedInvariance, PTL

\* A listener that waits streams what its channel holds, whatever arrived while
\* it was busy: the safety half of FeedConverges.
THEOREM WakeupsKept == Spec => []NoLostWakeup
<1>1. FeedInv => NoLostWakeup
  BY DEF FeedInv, Wired, NoLostWakeup, Quiet
<1> QED
  BY <1>1, FeedInvariance, PTL

\* When all is quiet the whole list is streamed: the safety half of
\* ListedIsStreamed.
THEOREM AllStreamedWhenQuiet == Spec => []QuietIsStreamed
<1>1. FeedInv => EveryMarketSharded /\ NoLostWakeup
  BY ShardedByInv DEF FeedInv, Wired, NoLostWakeup, Quiet
<1>2. EveryMarketSharded /\ NoLostWakeup => QuietIsStreamed
  BY DEF EveryMarketSharded, NoLostWakeup, QuietIsStreamed
<1> QED
  BY <1>1, <1>2, FeedInvariance, PTL

\* Between refreshes a connection that was served streams markets of its shard.
LEMMA ServedByInv ==
  ASSUME FeedInv, Refreshed, NEW i \in Conns, Served(i)
  PROVE  streamed[i] \subseteq ToSet(Shard(markets, i))
<1>1. i < sending /\ Start(markets, i) < Len(markets)
  BY Sizes, SMT DEF Refreshed, Served
<1>2. watch[i] = Shard(markets, i)
  BY <1>1 DEF FeedInv, ShardsSent
<1>3. current_ids[i] = watch[i] /\ streamed[i] \subseteq ToSet(current_ids[i])
  BY DEF Served, FeedInv, Wired, TypeOK
<1> QED
  BY <1>2, <1>3

\* A connection the list reaches streams nothing but its own shard of it.
THEOREM OwnShardOnly == Spec => []StreamsOwnShard
<1>1. FeedInv => StreamsOwnShard
  BY ServedByInv DEF StreamsOwnShard
<1> QED
  BY <1>1, FeedInvariance, PTL

\* Every list has a shard for every connection: it is not shorter than the number
\* of connections, and rounding up leaves something for the last one.
ListsReachAll == \A list \in Lists : Start(list, NUM_WS) < Len(list)

\* Nothing is subscribed to before the first list.
Unlisted ==
  markets = <<>> => \A i \in Conns : watch[i] = <<>> /\ current_ids[i] = <<>>

LEMMA UnlistedInvariance ==
  ListsReachAll => (Spec => []Unlisted)
<1> SUFFICES ASSUME ListsReachAll PROVE Spec => []Unlisted
  OBVIOUS
<1>1. ASSUME NEW list \in Lists PROVE list # <<>>
  <2>1. NUM_WS \in Conns /\ NUM_WS <= NUM_WS
    BY Sizes, SMT
  <2>2. Start(list, NUM_WS) \in Nat /\ Start(list, NUM_WS) < Len(list)
    BY <2>1, StartGrows, ListAssumption DEF ListsReachAll
  <2>3. Len(<<>>) = 0
    BY EmptySeq
  <2> QED
    BY <2>2, <2>3, SMT
<1>2. Init => Unlisted
  BY DEF Init, Unlisted
<1>3. ASSUME FeedInv, Unlisted, [Next]_vars PROVE Unlisted'
  <2>1. ASSUME NEW list \in Lists, Fetch(list) PROVE Unlisted'
    BY <1>1, <2>1 DEF Fetch, Unlisted
  <2>2. CASE SendShard
    <3>1. markets = <<>> => Len(markets) = 0
      BY EmptySeq
    <3>2. Start(markets, sending) \in Nat /\ Start(markets, sending) < Len(markets)
      <4>1. sending \in Conns /\ sending <= sending
        BY <2>2, Sizes, SMT DEF SendShard
      <4> QED
        BY <1>3, <2>2, <4>1, StartGrows DEF SendShard, FeedInv
    <3>3. markets' # <<>>
      BY <2>2, <3>1, <3>2, SMT DEF SendShard
    <3> QED
      BY <3>3 DEF Unlisted
  <2>3. CASE BreakOff
    BY <1>3, <2>3 DEF BreakOff, Unlisted
  <2>4. ASSUME NEW i \in Conns,
               Listener(i) \/ ConnectFails(i) \/ HandshakeHangs(i) \/ BreakLink(i)
        PROVE  Unlisted'
    <3>1. UNCHANGED <<markets, watch>>
      BY <2>4 DEF Listener, Proceed, Connect, ConnectFails, HandshakeHangs, Subscribe, Resubscribe,
                  SameShard, NoticeBreak, Pause, BreakLink, orchestrator
    <3>2. CASE Resubscribe(i)
      BY <1>3, <3>1, <3>2 DEF Resubscribe, Adopted, Unlisted, FeedInv, TypeOK
    <3>3. CASE ~ Resubscribe(i)
      <4>1. UNCHANGED current_ids
        BY <2>4, <3>3 DEF Listener, Proceed, Connect, ConnectFails, HandshakeHangs, Subscribe,
                          SameShard, NoticeBreak, Pause, BreakLink
      <4> QED
        BY <1>3, <3>1, <4>1 DEF Unlisted
    <3> QED
      BY <3>2, <3>3
  <2>5. CASE UNCHANGED vars
    BY <1>3, <2>5 DEF vars, orchestrator, Unlisted
  <2> QED
    BY <1>3, <2>1, <2>2, <2>3, <2>4, <2>5 DEF Next
<1> QED
  BY <1>2, <1>3, FeedInvariance, PTL DEF Spec

\* Where every list reaches every connection, no connection that has taken its
\* list streams a market that left it.  The condition is needed: the run
\* "zombie" breaks off before the last connection.
THEOREM NoZombieWhenListsReach == ListsReachAll => (Spec => []NoZombieSubscription)
<1> SUFFICES ASSUME ListsReachAll PROVE Spec => []NoZombieSubscription
  OBVIOUS
<1>1. ASSUME FeedInv, Unlisted, Refreshed, NEW i \in Conns, conn[i] = "up", ~ changed[i]
      PROVE  streamed[i] \subseteq ToSet(markets)
  <2>1. streamed[i] \subseteq ToSet(current_ids[i])
    BY <1>1 DEF FeedInv, TypeOK
  <2>2. CASE markets = <<>>
    BY <1>1, <2>1, <2>2 DEF Unlisted
  <2>3. CASE markets # <<>>
    <3>1. markets \in Seq(Markets) /\ Start(markets, NUM_WS) < Len(markets)
      BY <1>1, <2>3 DEF FeedInv, TypeOK, ListsReachAll
    <3>2. NUM_WS \in Conns /\ i <= NUM_WS
      BY Sizes, SMT
    <3>3. /\ Start(markets, i) \in Nat /\ Start(markets, NUM_WS) \in Nat /\ Len(markets) \in Nat
          /\ Start(markets, i) <= Start(markets, NUM_WS)
      BY <3>1, <3>2, StartGrows, LenProperties
    <3>4. Start(markets, i) < Len(markets)
      BY <3>1, <3>3, SMT
    <3>5. streamed[i] \subseteq ToSet(Shard(markets, i))
      BY <1>1, <3>4, ServedByInv DEF Served
    <3>6. ToSet(Shard(markets, i)) \subseteq ToSet(markets)
      <4>1. \A m \in ToSet(Shard(markets, i)) : \E p \in 1..Len(markets) : m = markets[p]
        BY <3>1, ShardShape
      <4>2. DOMAIN markets = 1..Len(markets)
        BY <3>1, LenProperties
      <4>3. \A p \in 1..Len(markets) : markets[p] \in ToSet(markets)
        BY <4>2 DEF ToSet
      <4> QED
        BY <4>1, <4>3
    <3> QED
      BY <3>5, <3>6
  <2> QED
    BY <2>2, <2>3
<1>2. FeedInv /\ Unlisted => NoZombieSubscription
  BY <1>1 DEF NoZombieSubscription
<1> QED
  BY <1>2, FeedInvariance, UnlistedInvariance, PTL

\* The shards of two connections take different positions of the list.
LEMMA ShardsApart ==
  ASSUME NEW list \in Seq(Markets), IsInjective(list),
         NEW i \in Conns, NEW j \in Conns, i < j
  PROVE  ToSet(Shard(list, i)) \cap ToSet(Shard(list, j)) = {}
<1> DEFINE per == PerConnection(Len(list))
<1>1. Len(list) \in Nat /\ DOMAIN list = 1..Len(list)
  BY LenProperties
<1>2. per \in Nat
  BY <1>1, PerConnectionBounds
<1>3. i + 1 \in Conns /\ i + 1 <= j /\ i <= i
  BY Sizes, SMT
<1>4. /\ Start(list, i) \in Nat /\ Start(list, j) \in Nat /\ Start(list, i + 1) \in Nat
      /\ Start(list, i + 1) <= Start(list, j)
  BY <1>3, StartGrows
<1>5. Start(list, i) + per = Start(list, i + 1)
  <2>1. i \in Nat /\ (i + 1) - 1 = i
    BY Sizes, SMT
  <2>2. Start(list, i) = (i - 1) * per /\ Start(list, i + 1) = ((i + 1) - 1) * per
    BY DEF Start
  <2> HIDE DEF per
  <2>3. (i - 1) * per + per = i * per
    BY <1>2, <2>1, SMT
  <2> QED
    BY <2>1, <2>2, <2>3
<1> HIDE DEF per
<1>6. ASSUME NEW m \in ToSet(Shard(list, i)), m \in ToSet(Shard(list, j))
      PROVE  FALSE
  <2>1. PICK p \in 1..Len(list) : p <= Start(list, i) + per /\ m = list[p]
    BY ShardShape DEF per
  <2>2. PICK q \in 1..Len(list) : Start(list, j) < q /\ m = list[q]
    BY <1>6, ShardShape
  <2>3. p # q
    BY <1>1, <1>2, <1>4, <1>5, <2>1, <2>2, SMT
  <2> QED
    BY <1>1, <2>1, <2>2, <2>3 DEF IsInjective
<1> QED
  BY <1>6

\* Two connections that were served never stream the same market.
THEOREM NeverStreamedTwice == Spec => []StreamedOnce
<1>1. ASSUME FeedInv, Refreshed, IsInjective(markets),
             NEW i \in Conns, NEW j \in Conns, Served(i), Served(j), i < j
      PROVE  streamed[i] \cap streamed[j] = {}
  <2>1. /\ streamed[i] \subseteq ToSet(Shard(markets, i))
        /\ streamed[j] \subseteq ToSet(Shard(markets, j))
    BY <1>1, ServedByInv
  <2>2. ToSet(Shard(markets, i)) \cap ToSet(Shard(markets, j)) = {}
    BY <1>1, ShardsApart DEF FeedInv
  <2> QED
    BY <2>1, <2>2
<1>2. \A i, j \in Conns : i # j => i < j \/ j < i
  BY Sizes, SMT
<1>3. FeedInv => StreamedOnce
  BY <1>1, <1>2 DEF StreamedOnce
<1> QED
  BY <1>3, FeedInvariance, PTL

\* A working connection is given up only for another list.
THEOREM NoNeedlessBreak == Spec => SteadyFeed
<1>1. ASSUME FeedInv, [Next]_vars, NEW i \in Conns, conn[i] = "up", link[i], conn'[i] # "up"
      PROVE  current_ids'[i] # current_ids[i]
  <2>1. ASSUME NEW j \in Conns, Listener(j) \/ ConnectFails(j) \/ HandshakeHangs(j) \/ BreakLink(j)
        PROVE  current_ids'[i] # current_ids[i]
    <3>1. CASE Resubscribe(j)
      <4>1. j = i
        BY <1>1, <3>1 DEF Resubscribe, Reconnect, FeedInv, TypeOK
      <4> QED
        BY <1>1, <3>1, <4>1 DEF Resubscribe, Differs, Adopted, FeedInv, TypeOK
    <3>2. CASE NoticeBreak(j)
      BY <1>1, <3>2 DEF NoticeBreak, Reconnect, FeedInv, TypeOK
    <3>3. CASE \/ Connect(j) \/ Subscribe(j) \/ SameShard(j) \/ Pause(j)
               \/ ConnectFails(j) \/ HandshakeHangs(j) \/ BreakLink(j)
      BY <1>1, <3>3 DEF Connect, Subscribe, SameShard, Pause, ConnectFails, HandshakeHangs, BreakLink,
                        FeedInv, TypeOK
    <3> QED
      BY <2>1, <3>1, <3>2, <3>3 DEF Listener, Proceed
  <2>2. \A list \in Lists : ~ Fetch(list)
    BY <1>1 DEF Fetch
  <2>3. ~ SendShard /\ ~ BreakOff /\ ~ UNCHANGED vars
    BY <1>1 DEF SendShard, BreakOff, vars
  <2> QED
    BY <1>1, <2>1, <2>2, <2>3 DEF Next
<1>2. FeedInv /\ [Next]_vars =>
        [\A i \in Conns : conn[i] = "up" /\ link[i] /\ conn'[i] # "up" => current_ids'[i] # current_ids[i]]_vars
  BY <1>1
<1> QED
  BY <1>2, FeedInvariance, PTL DEF Spec, SteadyFeed
=============================================================================

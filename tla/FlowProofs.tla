------------------------------- MODULE FlowProofs -------------------------------
(***************************************************************************)
(* Prices of a market that comes over one connection at a time are applied *)
(* in the order of the exchange and up to the last one, for any markets,   *)
(* connections, lists, events and failures.                                *)
(***************************************************************************)
EXTENDS PriceFlow, FeedProofs

\* ---- The inductive invariant ----

\* Where asks of a token stand in the channel, with a listener, on a wire.
ChannelAsks(t) == {a \in 1..Len(channel) : channel[a].token = t}
PendingAsks(i, t) == {j \in 1..Len(pending[i]) : pending[i][j].token = t /\ IsAsk(pending[i][j])}
WireAsks(i, t) == {j \in 1..Len(wire[i]) : t \in Sold(wire[i][j])}

\* No ask is newer than the exchange.
Bounded(t) ==
  /\ \A a \in ChannelAsks(t) : channel[a].price \in 1..asked[t]
  /\ \A i \in Conns : \A j \in PendingAsks(i, t) : pending[i][j].price \in 1..asked[t]
  /\ \A i \in Conns : \A j \in WireAsks(i, t) : wire[i][j].number \in 1..asked[t]

\* Nothing that has not reached the channel is older than n.
Behind(t, n) ==
  \A i \in Conns : /\ \A j \in PendingAsks(i, t) : n <= pending[i][j].price
                   /\ \A j \in WireAsks(i, t) : n <= wire[i][j].number

\* The asks of t lie in order from the book to the wire.
InOrder(t) ==
  /\ book[t] # None =>
       /\ Behind(t, book[t])
       /\ \A a \in ChannelAsks(t) : book[t] <= channel[a].price
  /\ \A a \in ChannelAsks(t) :
       /\ Behind(t, channel[a].price)
       /\ \A b \in ChannelAsks(t) : a < b => channel[a].price <= channel[b].price
  /\ \A i \in Conns : \A j \in PendingAsks(i, t) :
       /\ \A k \in PendingAsks(i, t) : j < k => pending[i][j].price <= pending[i][k].price
       /\ \A k \in WireAsks(i, t) : pending[i][j].price <= wire[i][k].number
  /\ \A i \in Conns : \A j, k \in WireAsks(i, t) : j < k => wire[i][j].number <= wire[i][k].number

\* The last ask of t is in the book or on its way there.
LastUnderway(t) ==
  \/ asked[t] = 0 \/ book[t] = asked[t]
  \/ \E a \in ChannelAsks(t) : channel[a].price = asked[t]
  \/ \E i \in Conns : \/ \E j \in PendingAsks(i, t) : pending[i][j].price = asked[t]
                      \/ \E j \in WireAsks(i, t) : wire[i][j].number = asked[t]

Has(i, m) == m \in streamed[i] \/ Holds(i, m)

\* A market that never came over two connections is on one at most.
SingleSource ==
  \A m \in Markets \ doubled : \A i, j \in Conns : Has(i, m) /\ Has(j, m) => i = j

\* What a step has to keep for a token.
Sound(t) ==
  /\ Bounded(t)
  /\ t[1] \notin doubled => InOrder(t)
  /\ t[1] \notin doubled /\ t \notin lost => LastUnderway(t)

FlowInv == FeedInv /\ FlowTypeOK /\ SingleSource /\ \A t \in Tokens : Sound(t)

-----------------------------------------------------------------------------
\* ---- Types ----

LEMMA TokenType ==
  ASSUME NEW t \in Tokens
  PROVE  t[1] \in Markets /\ t[2] \in Legs /\ t = <<t[1], t[2]>>
BY DEF Tokens

\* The changes of an event are of its market, and its asks are its SELLs.
LEMMA EventShape ==
  ASSUME NEW event \in Events
  PROVE  /\ event.market \in Markets /\ event.number \in Nat
         /\ Changes(event) \in Seq(EventChanges)
         /\ \A j \in 1..Len(Changes(event)) :
              /\ Changes(event)[j].token[1] = event.market
              /\ Changes(event)[j].price = event.number
              /\ IsAsk(Changes(event)[j]) => Changes(event)[j].token \in Sold(event)
         /\ \A t \in Sold(event) :
              /\ t \in Tokens /\ t[1] = event.market
              /\ \E j \in 1..Len(Changes(event)) :
                   Changes(event)[j].token = t /\ IsAsk(Changes(event)[j])
<1> DEFINE shape == event.changes
           n     == Len(shape)
           cs    == Changes(event)
<1>1. shape \in Seq([leg : Legs, side : {"BUY", "SELL"}])
  BY FlowAssumption DEF Events
<1>2. n \in Nat /\ DOMAIN shape = 1..n
  BY <1>1, LenProperties
<1>3. \A j \in 1..n : shape[j].leg \in Legs /\ shape[j].side \in {"BUY", "SELL"}
  <2>1. \A j \in 1..n : shape[j] \in [leg : Legs, side : {"BUY", "SELL"}]
    BY <1>1, ElementOfSeq
  <2> QED
    BY <2>1
<1>4. event.market \in Markets /\ event.number \in Nat
  BY DEF Events
<1>5. DOMAIN cs = 1..n /\ \A j \in 1..n : cs[j] = [token |-> <<event.market, shape[j].leg>>,
                                                   side |-> shape[j].side, price |-> event.number]
  BY DEF Changes
<1>6. \A j \in 1..n : /\ cs[j].token = <<event.market, shape[j].leg>>
                      /\ cs[j].side = shape[j].side /\ cs[j].price = event.number
  <2> SUFFICES ASSUME NEW j \in 1..n
               PROVE  /\ cs[j].token = <<event.market, shape[j].leg>>
                      /\ cs[j].side = shape[j].side /\ cs[j].price = event.number
    OBVIOUS
  <2> DEFINE token == <<event.market, shape[j].leg>>
             side  == shape[j].side
             price == event.number
  <2>1. cs[j] = [token |-> token, side |-> side, price |-> price]
    BY <1>5
  <2> HIDE DEF token, side, price, cs
  <2>2. cs[j].token = token /\ cs[j].side = side /\ cs[j].price = price
    BY <2>1
  <2> QED
    BY <2>2 DEF token, side, price
<1>7. ASSUME NEW j \in 1..n PROVE cs[j] \in EventChanges
  <2> DEFINE token == <<event.market, shape[j].leg>>
             side  == shape[j].side
             price == event.number
  <2>1. token \in Tokens /\ side \in {"BUY", "SELL"} /\ price \in Nat
    BY <1>3, <1>4 DEF Tokens
  <2>2. cs[j] = [token |-> token, side |-> side, price |-> price]
    BY <1>5
  <2> HIDE DEF token, side, price, cs
  <2> QED
    BY <2>1, <2>2 DEF EventChanges
<1>8. cs \in [1..n -> EventChanges]
  <2>1. cs = [j \in 1..n |-> cs[j]]
    BY DEF Changes
  <2> HIDE DEF cs, n
  <2> QED
    BY <1>7, <2>1
<1>9. cs \in Seq(EventChanges)
  BY <1>2, <1>8, SeqDef
<1>10. Len(cs) = n
  BY <1>2, <1>5, <1>9, LenProperties, SMT
<1>11. \A t : t \in Sold(event) <=> \E j \in 1..n : shape[j].side = "SELL" /\ t = <<event.market, shape[j].leg>>
  BY <1>2 DEF Sold, ToSet
<1> HIDE DEF shape, n, cs
<1>12. ASSUME NEW j \in 1..n
       PROVE  /\ cs[j].token[1] = event.market /\ cs[j].price = event.number
              /\ IsAsk(cs[j]) => cs[j].token \in Sold(event)
  BY <1>6, <1>11 DEF IsAsk
<1>13. ASSUME NEW t \in Sold(event)
       PROVE  /\ t \in Tokens /\ t[1] = event.market
              /\ \E j \in 1..n : cs[j].token = t /\ IsAsk(cs[j])
  <2>1. PICK j \in 1..n : shape[j].side = "SELL" /\ t = <<event.market, shape[j].leg>>
    BY <1>11
  <2>2. cs[j].token = t /\ IsAsk(cs[j])
    BY <1>6, <2>1 DEF IsAsk
  <2>3. t \in Tokens /\ t[1] = event.market
    BY <1>3, <1>4, <2>1 DEF Tokens
  <2> QED
    BY <2>2, <2>3
<1> QED
  BY <1>4, <1>9, <1>10, <1>12, <1>13 DEF cs

\* What the types say of one connection and of the channel.
LEMMA FlowShapes ==
  ASSUME FlowTypeOK
  PROVE  /\ \A i \in Conns : /\ wire[i] \in Seq(Events) /\ Len(wire[i]) \in Nat
                             /\ \A j \in 1..Len(wire[i]) : wire[i][j] \in Events
                             /\ pending[i] \in Seq(EventChanges) /\ Len(pending[i]) \in Nat
                             /\ \A j \in 1..Len(pending[i]) : pending[i][j] \in EventChanges
         /\ channel \in Seq([token : Tokens, price : Nat]) /\ Len(channel) \in Nat
         /\ \A a \in 1..Len(channel) : channel[a].token \in Tokens /\ channel[a].price \in Nat
         /\ \A t \in Tokens : asked[t] \in Nat /\ asked[t] <= moves /\ book[t] \in Nat \cup {None}
         /\ moves \in Nat
<1>1. moves \in Nat
  BY FlowAssumption, SMT DEF FlowTypeOK
<1>2. \A t \in Tokens : asked[t] \in Nat /\ asked[t] <= moves /\ book[t] \in Nat \cup {None}
  BY <1>1, SMT DEF FlowTypeOK
<1>3. ASSUME NEW i \in Conns
      PROVE  /\ wire[i] \in Seq(Events) /\ pending[i] \in Seq(EventChanges)
             /\ Len(wire[i]) \in Nat /\ Len(pending[i]) \in Nat
             /\ \A j \in 1..Len(wire[i]) : wire[i][j] \in Events
             /\ \A j \in 1..Len(pending[i]) : pending[i][j] \in EventChanges
  <2>1. wire[i] \in Seq(Events) /\ pending[i] \in Seq(EventChanges)
    BY DEF FlowTypeOK
  <2> QED
    BY <2>1, LenProperties, ElementOfSeq
<1>4. channel \in Seq([token : Tokens, price : Nat])
  BY DEF FlowTypeOK
<1>5. Len(channel) \in Nat /\ \A a \in 1..Len(channel) : channel[a] \in [token : Tokens, price : Nat]
  BY <1>4, LenProperties, ElementOfSeq
<1>6. \A a \in 1..Len(channel) : channel[a].token \in Tokens /\ channel[a].price \in Nat
  BY <1>5
<1> QED
  BY <1>1, <1>2, <1>3, <1>4, <1>5, <1>6

\* A listener that has an ask of t holds t's market.
LEMMA AskHeld ==
  ASSUME FlowTypeOK, NEW t \in Tokens, NEW i \in Conns,
         PendingAsks(i, t) # {} \/ WireAsks(i, t) # {}
  PROVE  Holds(i, t[1])
<1>1. CASE PendingAsks(i, t) # {}
  <2>1. PICK j \in 1..Len(pending[i]) : pending[i][j].token = t
    BY <1>1 DEF PendingAsks
  <2>2. j \in DOMAIN pending[i]
    BY <2>1, FlowShapes, LenProperties
  <2>3. pending[i][j] \in ToSet(pending[i])
    BY <2>2 DEF ToSet
  <2> QED
    BY <2>1, <2>3 DEF Holds
<1>2. CASE WireAsks(i, t) # {}
  <2>1. PICK j \in 1..Len(wire[i]) : t \in Sold(wire[i][j])
    BY <1>2 DEF WireAsks
  <2>2. j \in DOMAIN wire[i] /\ wire[i][j] \in Events
    BY <2>1, FlowShapes, LenProperties
  <2>3. wire[i][j] \in ToSet(wire[i]) /\ wire[i][j].market = t[1]
    BY <2>1, <2>2, EventShape DEF ToSet
  <2> QED
    BY <2>3 DEF Holds
<1> QED
  BY <1>1, <1>2

\* Every flow step is a step of the feed or leaves it alone.
LEMMA FlowStepFeeds ==
  ASSUME FlowNext
  PROVE  [Next]_vars
<1>1. ASSUME NEW m \in Markets, NEW shape \in Shapes, Move(m, shape) PROVE UNCHANGED vars
  BY <1>1 DEF Move
<1>2. ASSUME NEW i \in Conns, Read(i) \/ Dispatch(i) PROVE UNCHANGED vars
  BY <1>2 DEF Read, Dispatch
<1>3. ASSUME NEW i \in Conns, Reopen(i) PROVE Next
  BY <1>3 DEF Reopen, Next, Listener, Proceed
<1>4. CASE OtherFeedStep
  BY <1>4 DEF OtherFeedStep, Next, Listener, Proceed
<1>5. CASE Consume
  BY <1>5 DEF Consume
<1>6. ASSUME NEW list \in Lists, Refresh(list) PROVE Next
  BY <1>6 DEF Refresh, Next
<1> QED
  BY <1>1, <1>2, <1>3, <1>4, <1>5, <1>6 DEF FlowNext

\* With prices on top the feed still behaves as WsFeed says.
THEOREM FeedUnderFlow == FlowSpec => Spec
<1>1. FlowInit => Init
  BY DEF FlowInit
<1>2. [FlowNext]_fvars => [Next]_vars
  BY FlowStepFeeds DEF fvars
<1> QED
  BY <1>1, <1>2, PTL DEF FlowSpec, Spec

-----------------------------------------------------------------------------
\* ---- What each step does to the asks under way ----

\* Nothing under way changes.
SameAsks(t) ==
  /\ ChannelAsks(t)' = ChannelAsks(t) /\ channel' = channel
  /\ \A i \in Conns : /\ PendingAsks(i, t)' = PendingAsks(i, t) /\ pending'[i] = pending[i]
                      /\ WireAsks(i, t)' = WireAsks(i, t) /\ wire'[i] = wire[i]

LEMMA Unchanged ==
  ASSUME UNCHANGED <<channel, pending, wire>>, NEW t \in Tokens
  PROVE  SameAsks(t)
BY DEF SameAsks, ChannelAsks, PendingAsks, WireAsks

\* An event is added behind what is on the wires.
LEMMA MoveAsks ==
  ASSUME FlowTypeOK, NEW m \in Markets, NEW shape \in Shapes, Move(m, shape), NEW t \in Tokens
  PROVE  LET event  == [market |-> m, changes |-> shape, number |-> moves + 1]
             pushed == {i \in Conns : m \in streamed[i]}
         IN /\ event \in Events
            /\ wire' \in [Conns -> Seq(Events)]
            /\ ChannelAsks(t)' = ChannelAsks(t)
            /\ \A i \in Conns : PendingAsks(i, t)' = PendingAsks(i, t)
            /\ \A i \in Conns : \A j \in WireAsks(i, t) : j \in WireAsks(i, t)' /\ wire'[i][j] = wire[i][j]
            /\ \A i \in Conns : \A j \in WireAsks(i, t)' :
                 \/ j \in WireAsks(i, t) /\ wire'[i][j] = wire[i][j]
                 \/ /\ i \in pushed /\ j = Len(wire[i]) + 1 /\ wire'[i][j] = event
                    /\ t \in Sold(event)
            /\ t \in Sold(event) => \A i \in pushed :
                 Len(wire[i]) + 1 \in WireAsks(i, t)' /\ wire'[i][Len(wire[i]) + 1] = event
<1> DEFINE event  == [market |-> m, changes |-> shape, number |-> moves + 1]
           pushed == {i \in Conns : m \in streamed[i]}
<1>1. event \in Events
  <2>1. moves + 1 \in Nat
    BY FlowShapes
  <2> QED
    BY <2>1 DEF Events
<1>2. /\ wire' = [i \in Conns |-> IF i \in pushed THEN Append(wire[i], event) ELSE wire[i]]
      /\ channel' = channel /\ pending' = pending
  BY DEF Move
<1>3. ChannelAsks(t)' = ChannelAsks(t) /\ \A i \in Conns : PendingAsks(i, t)' = PendingAsks(i, t)
  BY <1>2 DEF ChannelAsks, PendingAsks
<1> HIDE DEF event, pushed
<1>4. ASSUME NEW i \in Conns
      PROVE  /\ wire[i] \in Seq(Events) /\ Len(wire[i]) \in Nat /\ wire'[i] \in Seq(Events)
             /\ i \notin pushed => wire'[i] = wire[i]
             /\ i \in pushed => /\ Len(wire'[i]) = Len(wire[i]) + 1
                                /\ \A j \in 1..Len(wire[i]) : wire'[i][j] = wire[i][j]
                                /\ wire'[i][Len(wire[i]) + 1] = event
  <2>1. wire[i] \in Seq(Events) /\ Len(wire[i]) \in Nat
    BY FlowShapes
  <2>2. CASE i \in pushed
    <3>1. wire'[i] = Append(wire[i], event)
      BY <1>2, <2>2
    <3> QED
      BY <1>1, <2>1, <2>2, <3>1, AppendProperties
  <2>3. CASE i \notin pushed
    BY <1>2, <2>1, <2>3
  <2> QED
    BY <2>1, <2>2, <2>3
<1>5. wire' \in [Conns -> Seq(Events)]
  BY <1>2, <1>4
<1>6. ASSUME NEW i \in Conns, NEW j \in WireAsks(i, t)
      PROVE  j \in WireAsks(i, t)' /\ wire'[i][j] = wire[i][j]
  <2>1. j \in 1..Len(wire[i]) /\ t \in Sold(wire[i][j])
    BY <1>6 DEF WireAsks
  <2>2. j \in 1..Len(wire'[i]) /\ wire'[i][j] = wire[i][j]
    BY <1>4, <2>1, SMT
  <2> QED
    BY <2>1, <2>2 DEF WireAsks
<1>7. ASSUME NEW i \in Conns, NEW j \in WireAsks(i, t)'
      PROVE  \/ j \in WireAsks(i, t) /\ wire'[i][j] = wire[i][j]
             \/ /\ i \in pushed /\ j = Len(wire[i]) + 1 /\ wire'[i][j] = event
                /\ t \in Sold(event)
  <2>1. j \in 1..Len(wire'[i]) /\ t \in Sold(wire'[i][j])
    BY <1>7 DEF WireAsks
  <2>2. CASE j \in 1..Len(wire[i])
    <3>1. wire'[i][j] = wire[i][j]
      BY <1>4, <2>2
    <3> QED
      BY <2>1, <2>2, <3>1 DEF WireAsks
  <2>3. CASE j \notin 1..Len(wire[i])
    <3>1. i \in pushed /\ j = Len(wire[i]) + 1
      BY <1>4, <2>1, <2>3, SMT
    <3> QED
      BY <1>4, <2>1, <3>1
  <2> QED
    BY <2>2, <2>3
<1>8. ASSUME t \in Sold(event), NEW i \in pushed
      PROVE  Len(wire[i]) + 1 \in WireAsks(i, t)' /\ wire'[i][Len(wire[i]) + 1] = event
  <2>1. i \in Conns
    BY DEF pushed
  <2>2. Len(wire[i]) + 1 \in 1..Len(wire'[i]) /\ wire'[i][Len(wire[i]) + 1] = event
    BY <1>4, <2>1, SMT
  <2> QED
    BY <1>8, <2>2 DEF WireAsks
<1> QED
  BY <1>1, <1>3, <1>5, <1>6, <1>7, <1>8 DEF event, pushed

\* The first event of a wire becomes the changes of its listener.
LEMMA ReadAsks ==
  ASSUME FlowTypeOK, NEW i \in Conns, Read(i), NEW t \in Tokens
  PROVE  /\ wire' \in [Conns -> Seq(Events)] /\ pending' \in [Conns -> Seq(EventChanges)]
         /\ ChannelAsks(t)' = ChannelAsks(t)
         /\ PendingAsks(i, t) = {}
         /\ \A c \in Conns \ {i} : /\ PendingAsks(c, t)' = PendingAsks(c, t) /\ pending'[c] = pending[c]
                                   /\ WireAsks(c, t)' = WireAsks(c, t) /\ wire'[c] = wire[c]
         /\ \A j \in PendingAsks(i, t)' :
              1 \in WireAsks(i, t) /\ pending'[i][j].price = wire[i][1].number
         /\ \A j \in WireAsks(i, t)' :
              j \in Nat /\ j >= 1 /\ j + 1 \in WireAsks(i, t) /\ wire'[i][j] = wire[i][j + 1]
         /\ \A j \in WireAsks(i, t) :
              \/ j = 1 /\ \E k \in PendingAsks(i, t)' : pending'[i][k].price = wire[i][j].number
              \/ j - 1 \in WireAsks(i, t)' /\ wire'[i][j - 1] = wire[i][j]
         /\ wire[i] # <<>> /\ Head(wire[i]) = wire[i][1] /\ 1 \in 1..Len(wire[i])
<1> DEFINE first == Head(wire[i])
<1>1. /\ pending[i] = <<>> /\ wire[i] # <<>>
      /\ pending' = [pending EXCEPT ![i] = Changes(first)]
      /\ wire' = [wire EXCEPT ![i] = Tail(wire[i])]
      /\ channel' = channel
  BY DEF Read, Idle
<1>2. wire[i] \in Seq(Events) /\ Len(wire[i]) \in Nat
  BY FlowShapes
<1>3. first \in Events /\ first = wire[i][1] /\ 1 \in 1..Len(wire[i])
  <2>1. Len(wire[i]) \in Nat \ {0}
    BY <1>1, <1>2, EmptySeq
  <2>2. 1 \in 1..Len(wire[i])
    BY <2>1, SMT
  <2> QED
    BY <1>1, <1>2, <2>2, HeadTailProperties, SMT
<1>4. /\ Tail(wire[i]) \in Seq(Events) /\ Len(Tail(wire[i])) = Len(wire[i]) - 1
      /\ \A j \in 1..Len(Tail(wire[i])) : Tail(wire[i])[j] = wire[i][j + 1]
  BY <1>1, <1>2, HeadTailProperties
<1>5. /\ first.number \in Nat /\ Changes(first) \in Seq(EventChanges)
      /\ \A j \in 1..Len(Changes(first)) :
           /\ Changes(first)[j].price = first.number
           /\ IsAsk(Changes(first)[j]) => Changes(first)[j].token \in Sold(first)
      /\ \A s \in Sold(first) : \E j \in 1..Len(Changes(first)) :
           Changes(first)[j].token = s /\ IsAsk(Changes(first)[j])
  BY <1>3, EventShape
<1> HIDE DEF first
<1>6. wire'[i] = Tail(wire[i]) /\ pending'[i] = Changes(first)
  BY <1>1 DEF FlowTypeOK
<1>7. wire' \in [Conns -> Seq(Events)] /\ pending' \in [Conns -> Seq(EventChanges)]
  BY <1>1, <1>4, <1>5 DEF FlowTypeOK
<1>8. ChannelAsks(t)' = ChannelAsks(t)
  BY <1>1 DEF ChannelAsks
<1>9. PendingAsks(i, t) = {}
  <2>1. Len(pending[i]) = 0
    BY <1>1, EmptySeq
  <2>2. 1..0 = {}
    BY SMT
  <2> QED
    BY <2>1, <2>2 DEF PendingAsks
<1>10. ASSUME NEW c \in Conns \ {i}
       PROVE  /\ PendingAsks(c, t)' = PendingAsks(c, t) /\ pending'[c] = pending[c]
              /\ WireAsks(c, t)' = WireAsks(c, t) /\ wire'[c] = wire[c]
  <2>1. wire'[c] = wire[c] /\ pending'[c] = pending[c]
    BY <1>1 DEF FlowTypeOK
  <2> QED
    BY <2>1 DEF PendingAsks, WireAsks
<1>11. ASSUME NEW j \in PendingAsks(i, t)'
       PROVE  1 \in WireAsks(i, t) /\ pending'[i][j].price = wire[i][1].number
  <2>1. j \in 1..Len(Changes(first)) /\ Changes(first)[j].token = t /\ IsAsk(Changes(first)[j])
    BY <1>6, <1>11 DEF PendingAsks, IsAsk
  <2>2. t \in Sold(first)
    BY <1>5, <2>1
  <2> QED
    BY <1>3, <1>5, <1>6, <2>1, <2>2 DEF WireAsks
<1>12. ASSUME NEW j \in WireAsks(i, t)'
       PROVE  j \in Nat /\ j >= 1 /\ j + 1 \in WireAsks(i, t) /\ wire'[i][j] = wire[i][j + 1]
  <2>1. j \in 1..Len(Tail(wire[i])) /\ t \in Sold(Tail(wire[i])[j])
    BY <1>6, <1>12 DEF WireAsks
  <2>2. Tail(wire[i])[j] = wire[i][j + 1]
    BY <1>4, <2>1
  <2>3. j \in Nat /\ j >= 1 /\ j + 1 \in 1..Len(wire[i])
    BY <1>2, <1>4, <2>1, SMT
  <2> QED
    BY <1>6, <2>1, <2>2, <2>3 DEF WireAsks
<1>13. ASSUME NEW j \in WireAsks(i, t)
       PROVE  \/ j = 1 /\ \E k \in PendingAsks(i, t)' : pending'[i][k].price = wire[i][j].number
              \/ j - 1 \in WireAsks(i, t)' /\ wire'[i][j - 1] = wire[i][j]
  <2>1. j \in 1..Len(wire[i]) /\ t \in Sold(wire[i][j])
    BY <1>13 DEF WireAsks
  <2>2. CASE j = 1
    <3>1. PICK k \in 1..Len(Changes(first)) : Changes(first)[k].token = t /\ IsAsk(Changes(first)[k])
      BY <1>3, <1>5, <2>1, <2>2
    <3>2. k \in PendingAsks(i, t)'
      BY <1>6, <3>1 DEF PendingAsks, IsAsk
    <3>3. pending'[i][k].price = wire[i][j].number
      BY <1>3, <1>5, <1>6, <2>2, <3>1
    <3> QED
      BY <2>2, <3>2, <3>3
  <2>3. CASE j # 1
    <3>1. j - 1 \in 1..Len(Tail(wire[i])) /\ (j - 1) + 1 = j
      BY <1>2, <1>4, <2>1, <2>3, SMT
    <3>2. Tail(wire[i])[j - 1] = wire[i][j]
      BY <1>4, <3>1
    <3> QED
      BY <1>6, <2>1, <3>1, <3>2 DEF WireAsks
  <2> QED
    BY <2>2, <2>3
<1> QED
  BY <1>1, <1>3, <1>7, <1>8, <1>9, <1>10, <1>11, <1>12, <1>13 DEF first

\* The first change of a listener is over; an ask enters the channel.
LEMMA DispatchAsks ==
  ASSUME FlowTypeOK, NEW i \in Conns, Dispatch(i), NEW t \in Tokens
  PROVE  /\ pending' \in [Conns -> Seq(EventChanges)]
         /\ channel' \in Seq([token : Tokens, price : Nat])
         /\ \A c \in Conns : WireAsks(c, t)' = WireAsks(c, t) /\ wire'[c] = wire[c]
         /\ \A c \in Conns \ {i} : PendingAsks(c, t)' = PendingAsks(c, t) /\ pending'[c] = pending[c]
         /\ \A j \in PendingAsks(i, t)' :
              j \in Nat /\ j >= 1 /\ j + 1 \in PendingAsks(i, t) /\ pending'[i][j] = pending[i][j + 1]
         /\ \A j \in PendingAsks(i, t) :
              \/ /\ j = 1 /\ Len(channel) + 1 \in ChannelAsks(t)'
                 /\ channel'[Len(channel) + 1].price = pending[i][j].price
              \/ j - 1 \in PendingAsks(i, t)' /\ pending'[i][j - 1] = pending[i][j]
         /\ \A a \in ChannelAsks(t) : a \in ChannelAsks(t)' /\ channel'[a] = channel[a]
         /\ \A a \in ChannelAsks(t)' :
              \/ a \in ChannelAsks(t) /\ channel'[a] = channel[a]
              \/ /\ a = Len(channel) + 1 /\ 1 \in PendingAsks(i, t)
                 /\ channel'[a].price = pending[i][1].price
<1> DEFINE first == Head(pending[i])
           sent  == [token |-> first.token, price |-> first.price]
<1>1. /\ pending[i] # <<>>
      /\ pending' = [pending EXCEPT ![i] = Tail(pending[i])]
      /\ channel' = IF IsAsk(first) THEN Append(channel, sent) ELSE channel
      /\ wire' = wire
  BY DEF Dispatch, Idle, Rest
<1>2. /\ pending[i] \in Seq(EventChanges) /\ Len(pending[i]) \in Nat
      /\ channel \in Seq([token : Tokens, price : Nat]) /\ Len(channel) \in Nat
  BY FlowShapes
<1>3. first \in EventChanges /\ first = pending[i][1] /\ 1 \in 1..Len(pending[i])
  <2>1. Len(pending[i]) \in Nat \ {0}
    BY <1>1, <1>2, EmptySeq
  <2>2. 1 \in 1..Len(pending[i])
    BY <2>1, SMT
  <2> QED
    BY <1>1, <1>2, <2>2, HeadTailProperties, SMT
<1>4. /\ Tail(pending[i]) \in Seq(EventChanges) /\ Len(Tail(pending[i])) = Len(pending[i]) - 1
      /\ \A j \in 1..Len(Tail(pending[i])) : Tail(pending[i])[j] = pending[i][j + 1]
  BY <1>1, <1>2, HeadTailProperties
<1>5. first.token \in Tokens /\ first.price \in Nat
  BY <1>3 DEF EventChanges
<1>6. sent \in [token : Tokens, price : Nat] /\ sent.token = first.token /\ sent.price = first.price
  BY <1>5
<1> HIDE DEF first, sent
<1>7. pending'[i] = Tail(pending[i])
  BY <1>1 DEF FlowTypeOK
<1>8. pending' \in [Conns -> Seq(EventChanges)]
  BY <1>1, <1>4 DEF FlowTypeOK
<1>9. /\ channel' \in Seq([token : Tokens, price : Nat])
      /\ \A a \in 1..Len(channel) : channel'[a] = channel[a]
      /\ IsAsk(first) => Len(channel') = Len(channel) + 1 /\ channel'[Len(channel) + 1] = sent
      /\ ~ IsAsk(first) => channel' = channel
  <2>1. CASE IsAsk(first)
    <3>1. channel' = Append(channel, sent)
      BY <1>1, <2>1
    <3> QED
      BY <1>2, <1>6, <2>1, <3>1, AppendProperties
  <2>2. CASE ~ IsAsk(first)
    BY <1>1, <1>2, <2>2
  <2> QED
    BY <2>1, <2>2
<1>10. ASSUME NEW c \in Conns
       PROVE  WireAsks(c, t)' = WireAsks(c, t) /\ wire'[c] = wire[c]
  BY <1>1 DEF WireAsks
<1>11. ASSUME NEW c \in Conns \ {i}
       PROVE  PendingAsks(c, t)' = PendingAsks(c, t) /\ pending'[c] = pending[c]
  <2>1. pending'[c] = pending[c]
    BY <1>1 DEF FlowTypeOK
  <2> QED
    BY <2>1 DEF PendingAsks
<1>12. ASSUME NEW j \in PendingAsks(i, t)'
       PROVE  j \in Nat /\ j >= 1 /\ j + 1 \in PendingAsks(i, t) /\ pending'[i][j] = pending[i][j + 1]
  <2>1. /\ j \in 1..Len(Tail(pending[i])) /\ Tail(pending[i])[j].token = t
        /\ IsAsk(Tail(pending[i])[j])
    BY <1>7, <1>12 DEF PendingAsks, IsAsk
  <2>2. Tail(pending[i])[j] = pending[i][j + 1]
    BY <1>4, <2>1
  <2>3. j \in Nat /\ j >= 1 /\ j + 1 \in 1..Len(pending[i])
    BY <1>2, <1>4, <2>1, SMT
  <2> QED
    BY <1>7, <2>1, <2>2, <2>3 DEF PendingAsks
<1>13. ASSUME NEW j \in PendingAsks(i, t)
       PROVE  \/ /\ j = 1 /\ Len(channel) + 1 \in ChannelAsks(t)'
                 /\ channel'[Len(channel) + 1].price = pending[i][j].price
              \/ j - 1 \in PendingAsks(i, t)' /\ pending'[i][j - 1] = pending[i][j]
  <2>1. j \in 1..Len(pending[i]) /\ pending[i][j].token = t /\ IsAsk(pending[i][j])
    BY <1>13 DEF PendingAsks
  <2>2. CASE j = 1
    <3>1. IsAsk(first) /\ first.token = t
      BY <1>3, <2>1, <2>2
    <3>2. Len(channel) + 1 \in 1..Len(channel')
      BY <1>2, <1>9, <3>1, SMT
    <3>3. channel'[Len(channel) + 1] = sent
      BY <1>9, <3>1
    <3> QED
      BY <1>3, <1>6, <2>2, <3>1, <3>2, <3>3 DEF ChannelAsks
  <2>3. CASE j # 1
    <3>1. j - 1 \in 1..Len(Tail(pending[i])) /\ (j - 1) + 1 = j
      BY <1>2, <1>4, <2>1, <2>3, SMT
    <3>2. Tail(pending[i])[j - 1] = pending[i][j]
      BY <1>4, <3>1
    <3> QED
      BY <1>7, <2>1, <3>1, <3>2 DEF PendingAsks, IsAsk
  <2> QED
    BY <2>2, <2>3
<1>14. ASSUME NEW a \in ChannelAsks(t)
       PROVE  a \in ChannelAsks(t)' /\ channel'[a] = channel[a]
  <2>1. a \in 1..Len(channel) /\ channel[a].token = t
    BY <1>14 DEF ChannelAsks
  <2>2. a \in 1..Len(channel') /\ channel'[a] = channel[a]
    <3>1. CASE IsAsk(first)
      BY <1>2, <1>9, <2>1, <3>1, SMT
    <3>2. CASE ~ IsAsk(first)
      BY <1>9, <2>1, <3>2
    <3> QED
      BY <3>1, <3>2
  <2> QED
    BY <2>1, <2>2 DEF ChannelAsks
<1>15. ASSUME NEW a \in ChannelAsks(t)'
       PROVE  \/ a \in ChannelAsks(t) /\ channel'[a] = channel[a]
              \/ /\ a = Len(channel) + 1 /\ 1 \in PendingAsks(i, t)
                 /\ channel'[a].price = pending[i][1].price
  <2>1. a \in 1..Len(channel') /\ channel'[a].token = t
    BY <1>15 DEF ChannelAsks
  <2>2. CASE a \in 1..Len(channel)
    <3>1. channel'[a] = channel[a]
      BY <1>9, <2>2
    <3> QED
      BY <2>1, <2>2, <3>1 DEF ChannelAsks
  <2>3. CASE a \notin 1..Len(channel)
    <3>1. IsAsk(first)
      BY <1>9, <2>1, <2>3
    <3>2. a = Len(channel) + 1
      BY <1>2, <1>9, <2>1, <2>3, <3>1, SMT
    <3>3. channel'[a] = sent
      BY <1>9, <3>1, <3>2
    <3> QED
      BY <1>3, <1>6, <2>1, <3>1, <3>2, <3>3 DEF PendingAsks
  <2> QED
    BY <2>2, <2>3
<1> QED
  BY <1>8, <1>9, <1>10, <1>11, <1>12, <1>13, <1>14, <1>15

\* The first update leaves the channel.
LEMMA ConsumeAsks ==
  ASSUME FlowTypeOK, Consume, NEW t \in Tokens
  PROVE  /\ channel' \in Seq([token : Tokens, price : Nat])
         /\ \A c \in Conns : /\ PendingAsks(c, t)' = PendingAsks(c, t) /\ pending'[c] = pending[c]
                             /\ WireAsks(c, t)' = WireAsks(c, t) /\ wire'[c] = wire[c]
         /\ \A a \in ChannelAsks(t)' :
              a \in Nat /\ a >= 1 /\ a + 1 \in ChannelAsks(t) /\ channel'[a] = channel[a + 1]
         /\ \A a \in ChannelAsks(t) :
              a = 1 \/ (a - 1 \in ChannelAsks(t)' /\ channel'[a - 1] = channel[a])
         /\ Head(channel) = channel[1] /\ 1 \in 1..Len(channel)
         /\ Head(channel).token \in Tokens /\ Head(channel).price \in Nat
         /\ 1 \in ChannelAsks(Head(channel).token)
<1>1. channel # <<>> /\ channel' = Tail(channel) /\ pending' = pending /\ wire' = wire
  BY DEF Consume
<1>2. channel \in Seq([token : Tokens, price : Nat]) /\ Len(channel) \in Nat
  BY FlowShapes
<1>3. Head(channel) = channel[1] /\ 1 \in 1..Len(channel)
  <2>1. Len(channel) \in Nat \ {0}
    BY <1>1, <1>2, EmptySeq
  <2>2. 1 \in 1..Len(channel)
    BY <2>1, SMT
  <2> QED
    BY <1>1, <1>2, <2>2, HeadTailProperties, SMT
<1>4. /\ Tail(channel) \in Seq([token : Tokens, price : Nat]) /\ Len(Tail(channel)) = Len(channel) - 1
      /\ \A a \in 1..Len(Tail(channel)) : Tail(channel)[a] = channel[a + 1]
  BY <1>1, <1>2, HeadTailProperties
<1>5. ASSUME NEW a \in ChannelAsks(t)'
      PROVE  a \in Nat /\ a >= 1 /\ a + 1 \in ChannelAsks(t) /\ channel'[a] = channel[a + 1]
  <2>1. a \in 1..Len(Tail(channel)) /\ Tail(channel)[a].token = t
    BY <1>1, <1>5 DEF ChannelAsks
  <2>2. Tail(channel)[a] = channel[a + 1]
    BY <1>4, <2>1
  <2>3. a \in Nat /\ a >= 1 /\ a + 1 \in 1..Len(channel)
    BY <1>2, <1>4, <2>1, SMT
  <2> QED
    BY <1>1, <2>1, <2>2, <2>3 DEF ChannelAsks
<1>6. ASSUME NEW a \in ChannelAsks(t), a # 1
      PROVE  a - 1 \in ChannelAsks(t)' /\ channel'[a - 1] = channel[a]
  <2>1. a \in 1..Len(channel) /\ channel[a].token = t
    BY <1>6 DEF ChannelAsks
  <2>2. a - 1 \in 1..Len(Tail(channel)) /\ (a - 1) + 1 = a
    BY <1>2, <1>4, <1>6, <2>1, SMT
  <2>3. Tail(channel)[a - 1] = channel[a]
    BY <1>4, <2>2
  <2> QED
    BY <1>1, <2>1, <2>2, <2>3 DEF ChannelAsks
<1>7. ASSUME NEW c \in Conns
      PROVE  /\ PendingAsks(c, t)' = PendingAsks(c, t) /\ pending'[c] = pending[c]
             /\ WireAsks(c, t)' = WireAsks(c, t) /\ wire'[c] = wire[c]
  BY <1>1 DEF PendingAsks, WireAsks
<1>8. Head(channel).token \in Tokens /\ Head(channel).price \in Nat
  BY <1>3, FlowShapes
<1>9. 1 \in ChannelAsks(Head(channel).token)
  BY <1>3 DEF ChannelAsks
<1> QED
  BY <1>1, <1>3, <1>4, <1>5, <1>6, <1>7, <1>8, <1>9

\* What a listener has not read goes with the socket.
LEMMA ReopenAsks ==
  ASSUME FlowTypeOK, NEW i \in Conns, Reopen(i), NEW t \in Tokens
  PROVE  /\ wire' \in [Conns -> Seq(Events)]
         /\ ChannelAsks(t)' = ChannelAsks(t)
         /\ \A c \in Conns : PendingAsks(c, t)' = PendingAsks(c, t)
         /\ \A c \in Conns \ {i} : WireAsks(c, t)' = WireAsks(c, t) /\ wire'[c] = wire[c]
         /\ WireAsks(i, t)' = {} /\ wire'[i] = <<>>
         /\ WireAsks(i, t) # {} => t \in lost'
<1>1. /\ wire' = [wire EXCEPT ![i] = <<>>] /\ channel' = channel /\ pending' = pending
      /\ lost' = lost \cup UNION {Sold(event) : event \in ToSet(wire[i])}
  BY DEF Reopen
<1>2. <<>> \in Seq(Events) /\ Len(<<>>) = 0 /\ 1..0 = {}
  BY EmptySeq, SMT
<1>3. wire'[i] = <<>> /\ wire' \in [Conns -> Seq(Events)]
  BY <1>1, <1>2 DEF FlowTypeOK
<1>4. WireAsks(i, t)' = {}
  BY <1>2, <1>3 DEF WireAsks
<1>5. ASSUME NEW c \in Conns \ {i} PROVE WireAsks(c, t)' = WireAsks(c, t) /\ wire'[c] = wire[c]
  <2>1. wire'[c] = wire[c]
    BY <1>1 DEF FlowTypeOK
  <2> QED
    BY <2>1 DEF WireAsks
<1>6. ASSUME NEW j \in WireAsks(i, t) PROVE t \in lost'
  <2>1. j \in DOMAIN wire[i] /\ t \in Sold(wire[i][j])
    BY <1>6, FlowShapes, LenProperties DEF WireAsks
  <2>2. wire[i][j] \in ToSet(wire[i])
    BY <2>1 DEF ToSet
  <2> QED
    BY <1>1, <2>1, <2>2
<1> QED
  BY <1>1, <1>3, <1>4, <1>5, <1>6 DEF ChannelAsks, PendingAsks

-----------------------------------------------------------------------------
\* ---- One source at a time ----

\* If what a listener holds after a step it had or was streamed before, a market
\* that did not come over two connections is still on one at most.
LEMMA SingleKept ==
  ASSUME SingleSource, doubled' = doubled \cup {m \in Markets : Doubled(m)'},
         \A i \in Conns, m \in Markets : Holds(i, m)' => Has(i, m)
  PROVE  SingleSource'
<1> SUFFICES ASSUME NEW m \in Markets, m \notin doubled', NEW i \in Conns, NEW j \in Conns,
                    Has(i, m)', Has(j, m)', i # j
             PROVE  FALSE
  BY DEF SingleSource
<1>1. m \notin doubled /\ ~ Doubled(m)'
  OBVIOUS
<1>2. m \notin streamed'[i] /\ m \notin streamed'[j]
  BY <1>1 DEF Doubled, Has
<1>3. Has(i, m) /\ Has(j, m)
  BY <1>2 DEF Has
<1> QED
  BY <1>1, <1>3 DEF SingleSource

\* What is left of a sequence, and what is added to it.
LEMMA TailElements ==
  ASSUME NEW S, NEW s \in Seq(S), s # <<>>
  PROVE  ToSet(Tail(s)) \subseteq ToSet(s) /\ Head(s) \in ToSet(s)
<1>1. /\ Tail(s) \in Seq(S) /\ Len(Tail(s)) = Len(s) - 1 /\ Head(s) = s[1]
      /\ \A j \in 1..Len(Tail(s)) : Tail(s)[j] = s[j + 1]
  BY HeadTailProperties
<1>2. DOMAIN s = 1..Len(s) /\ Len(s) \in Nat \ {0} /\ DOMAIN Tail(s) = 1..Len(Tail(s))
  BY <1>1, LenProperties, EmptySeq
<1>3. 1 \in 1..Len(s) /\ \A j \in 1..Len(Tail(s)) : j + 1 \in 1..Len(s)
  BY <1>1, <1>2, SMT
<1> QED
  BY <1>1, <1>2, <1>3 DEF ToSet

LEMMA AppendElements ==
  ASSUME NEW S, NEW s \in Seq(S), NEW e \in S
  PROVE  ToSet(Append(s, e)) \subseteq ToSet(s) \cup {e}
<1>1. /\ Append(s, e) \in Seq(S) /\ Len(Append(s, e)) = Len(s) + 1
      /\ \A j \in 1..Len(s) : Append(s, e)[j] = s[j]
      /\ Append(s, e)[Len(s) + 1] = e
  BY AppendProperties
<1>2. /\ DOMAIN s = 1..Len(s) /\ Len(s) \in Nat
      /\ DOMAIN Append(s, e) = 1..Len(Append(s, e))
  BY <1>1, LenProperties
<1>3. \A j \in 1..Len(Append(s, e)) : j \in 1..Len(s) \/ j = Len(s) + 1
  BY <1>1, <1>2, SMT
<1> QED
  BY <1>1, <1>2, <1>3 DEF ToSet

LEMMA MoveHolds ==
  ASSUME FlowTypeOK, NEW m \in Markets, NEW shape \in Shapes, Move(m, shape),
         NEW i \in Conns, NEW n \in Markets, Holds(i, n)'
  PROVE  Has(i, n)
<1> DEFINE event == [market |-> m, changes |-> shape, number |-> moves + 1]
<1>1. /\ pending' = pending /\ event.market = m
      /\ wire'[i] = IF m \in streamed[i] THEN Append(wire[i], event) ELSE wire[i]
  BY DEF Move
<1>2. wire[i] \in Seq(Events) /\ event \in Events
  <2>1. moves + 1 \in Nat
    BY FlowShapes
  <2> QED
    BY <2>1, FlowShapes DEF Events
<1> HIDE DEF event
<1>3. ToSet(wire'[i]) \subseteq ToSet(wire[i]) \/
        (m \in streamed[i] /\ ToSet(wire'[i]) \subseteq ToSet(wire[i]) \cup {event})
  BY <1>1, <1>2, AppendElements
<1> QED
  BY <1>1, <1>3 DEF Has, Holds

LEMMA ReadHolds ==
  ASSUME FlowTypeOK, NEW i \in Conns, Read(i), NEW c \in Conns, NEW n \in Markets, Holds(c, n)'
  PROVE  Holds(c, n)
<1> DEFINE first == Head(wire[i])
<1>1. /\ wire[i] # <<>> /\ pending' = [pending EXCEPT ![i] = Changes(first)]
      /\ wire' = [wire EXCEPT ![i] = Tail(wire[i])]
  BY DEF Read
<1>2. wire[i] \in Seq(Events)
  BY FlowShapes
<1>3. ToSet(Tail(wire[i])) \subseteq ToSet(wire[i]) /\ first \in ToSet(wire[i])
  BY <1>1, <1>2, TailElements
<1>4. first \in Events
  BY <1>2, <1>3, LenProperties, ElementOfSeq DEF ToSet
<1> HIDE DEF first
<1>5. \A change \in ToSet(Changes(first)) : change.token[1] = first.market
  <2>1. Changes(first) \in Seq(EventChanges)
    BY <1>4, EventShape
  <2>2. DOMAIN Changes(first) = 1..Len(Changes(first))
    BY <2>1, LenProperties
  <2> QED
    BY <1>4, <2>2, EventShape DEF ToSet
<1>6. CASE c = i
  <2>1. wire'[i] = Tail(wire[i]) /\ pending'[i] = Changes(first)
    BY <1>1 DEF FlowTypeOK
  <2> QED
    BY <1>3, <1>5, <1>6, <2>1 DEF Holds
<1>7. CASE c # i
  <2>1. wire'[c] = wire[c] /\ pending'[c] = pending[c]
    BY <1>1, <1>7 DEF FlowTypeOK
  <2> QED
    BY <2>1 DEF Holds
<1> QED
  BY <1>6, <1>7

LEMMA DispatchHolds ==
  ASSUME FlowTypeOK, NEW i \in Conns, Dispatch(i), NEW c \in Conns, NEW n \in Markets, Holds(c, n)'
  PROVE  Holds(c, n)
<1>1. /\ pending[i] # <<>> /\ pending' = [pending EXCEPT ![i] = Tail(pending[i])]
      /\ wire' = wire
  BY DEF Dispatch, Idle, Rest
<1>2. pending[i] \in Seq(EventChanges)
  BY FlowShapes
<1>3. ToSet(Tail(pending[i])) \subseteq ToSet(pending[i])
  BY <1>1, <1>2, TailElements
<1>4. ToSet(pending'[c]) \subseteq ToSet(pending[c])
  BY <1>1, <1>3 DEF FlowTypeOK
<1> QED
  BY <1>1, <1>4 DEF Holds

LEMMA ReopenHolds ==
  ASSUME FlowTypeOK, NEW i \in Conns, Reopen(i), NEW c \in Conns, NEW n \in Markets, Holds(c, n)'
  PROVE  Holds(c, n)
<1>1. wire' = [wire EXCEPT ![i] = <<>>] /\ pending' = pending
  BY DEF Reopen
<1>2. ToSet(<<>>) = {}
  <2>1. DOMAIN <<>> = {}
    BY SMT
  <2> QED
    BY <2>1 DEF ToSet
<1>3. ToSet(wire'[c]) \subseteq ToSet(wire[c])
  BY <1>1, <1>2 DEF FlowTypeOK
<1> QED
  BY <1>1, <1>3 DEF Holds

\* Whichever step is taken, what a listener holds after it, it had before.
LEMMA HoldsKept ==
  ASSUME FlowTypeOK, FlowNext, NEW i \in Conns, NEW m \in Markets, Holds(i, m)'
  PROVE  Has(i, m)
<1>1. ASSUME UNCHANGED <<wire, pending>> PROVE Has(i, m)
  BY <1>1 DEF Holds, Has
<1>2. ASSUME NEW n \in Markets, NEW shape \in Shapes, Move(n, shape) PROVE Has(i, m)
  BY <1>2, MoveHolds
<1>3. ASSUME NEW c \in Conns, Read(c) \/ Dispatch(c) \/ Reopen(c) PROVE Has(i, m)
  BY <1>3, ReadHolds, DispatchHolds, ReopenHolds DEF Has
<1>4. OtherFeedStep \/ Consume \/ (\E list \in Lists : Refresh(list)) => UNCHANGED <<wire, pending>>
  BY DEF OtherFeedStep, Consume, Refresh, flow
<1> QED
  BY <1>1, <1>2, <1>3, <1>4 DEF FlowNext

\* The composition keeps its sources apart.
LEMMA StaysSingle ==
  ASSUME FlowTypeOK, SingleSource, FlowNext
  PROVE  SingleSource'
BY HoldsKept, SingleKept DEF FlowNext

-----------------------------------------------------------------------------
\* ---- Each step keeps the asks bounded, in order, and the last one under way ----

\* The asks a listener reads are those of the first event, which is the oldest.
LEMMA ReadSound ==
  ASSUME FlowTypeOK, NEW t \in Tokens, Sound(t), NEW i \in Conns, Read(i), doubled \subseteq doubled'
  PROVE  Sound(t)'
<1>1. /\ asked' = asked /\ book' = book /\ lost' = lost /\ channel' = channel
  BY DEF Read
<1>2. /\ ChannelAsks(t)' = ChannelAsks(t)
      /\ PendingAsks(i, t) = {}
      /\ \A c \in Conns \ {i} : /\ PendingAsks(c, t)' = PendingAsks(c, t) /\ pending'[c] = pending[c]
                                /\ WireAsks(c, t)' = WireAsks(c, t) /\ wire'[c] = wire[c]
      /\ \A j \in PendingAsks(i, t)' :
           1 \in WireAsks(i, t) /\ pending'[i][j].price = wire[i][1].number
      /\ \A j \in WireAsks(i, t)' :
           j \in Nat /\ j >= 1 /\ j + 1 \in WireAsks(i, t) /\ wire'[i][j] = wire[i][j + 1]
      /\ \A j \in WireAsks(i, t) :
           \/ j = 1 /\ \E k \in PendingAsks(i, t)' : pending'[i][k].price = wire[i][j].number
           \/ j - 1 \in WireAsks(i, t)' /\ wire'[i][j - 1] = wire[i][j]
  BY ReadAsks
<1>3. Bounded(t)'
  BY <1>1, <1>2 DEF Sound, Bounded
<1>4. ASSUME NEW n, Behind(t, n) PROVE Behind(t, n)'
  BY <1>2, <1>4 DEF Behind
<1>5. ASSUME InOrder(t) PROVE InOrder(t)'
  <2>1. /\ book'[t] # None =>
             /\ Behind(t, book[t])'
             /\ \A a \in ChannelAsks(t)' : book'[t] <= channel'[a].price
        /\ \A a \in ChannelAsks(t)' : \A b \in ChannelAsks(t)' : a < b => channel'[a].price <= channel'[b].price
    BY <1>1, <1>2, <1>4, <1>5 DEF InOrder
  <2>2. ASSUME NEW a \in ChannelAsks(t)' PROVE Behind(t, channel[a].price)'
    <3>1. a \in ChannelAsks(t) /\ channel'[a].price = channel[a].price
      BY <1>1, <1>2
    <3>2. Behind(t, channel[a].price)
      BY <1>5, <3>1 DEF InOrder
    <3> QED
      BY <1>4, <3>1, <3>2
  <2>3. ASSUME NEW c \in Conns, NEW j \in PendingAsks(c, t)'
        PROVE  /\ \A k \in PendingAsks(c, t)' : j < k => pending'[c][j].price <= pending'[c][k].price
               /\ \A k \in WireAsks(c, t)' : pending'[c][j].price <= wire'[c][k].number
    <3>1. CASE c = i
      <4>1. 1 \in WireAsks(i, t) /\ wire[i][1].number \in Int
        BY <1>2, <2>3, <3>1 DEF Sound, Bounded
      <4>2. \A k \in WireAsks(i, t)' : 1 < k + 1 /\ wire'[i][k] = wire[i][k + 1] /\ k + 1 \in WireAsks(i, t)
        BY <1>2
      <4>3. \A k \in WireAsks(i, t)' : wire[i][1].number <= wire'[i][k].number
        BY <1>5, <4>1, <4>2 DEF InOrder
      <4> QED
        BY <1>2, <2>3, <3>1, <4>1, <4>3
    <3>2. CASE c # i
      BY <1>2, <1>5, <2>3, <3>2 DEF InOrder
    <3> QED
      BY <3>1, <3>2
  <2>4. ASSUME NEW c \in Conns, NEW j \in WireAsks(c, t)', NEW k \in WireAsks(c, t)', j < k
        PROVE  wire'[c][j].number <= wire'[c][k].number
    <3>1. CASE c = i
      <4>1. /\ j + 1 \in WireAsks(i, t) /\ k + 1 \in WireAsks(i, t) /\ j + 1 < k + 1
            /\ wire'[i][j] = wire[i][j + 1] /\ wire'[i][k] = wire[i][k + 1]
        BY <1>2, <2>4, <3>1
      <4> QED
        BY <1>5, <3>1, <4>1 DEF InOrder
    <3>2. CASE c # i
      BY <1>2, <1>5, <2>4, <3>2 DEF InOrder
    <3> QED
      BY <3>1, <3>2
  <2> QED
    BY <2>1, <2>2, <2>3, <2>4 DEF InOrder
<1>6. ASSUME LastUnderway(t) PROVE LastUnderway(t)'
  BY <1>1, <1>2, <1>6 DEF LastUnderway
<1>7. t[1] \notin doubled' => t[1] \notin doubled
  OBVIOUS
<1> QED
  BY <1>1, <1>3, <1>5, <1>6, <1>7 DEF Sound

\* What a listener sends goes behind the channel: no other connection has asks of
\* that token.
LEMMA DispatchSound ==
  ASSUME FlowTypeOK, SingleSource, NEW t \in Tokens, Sound(t), NEW i \in Conns, Dispatch(i),
         doubled \subseteq doubled'
  PROVE  Sound(t)'
<1> DEFINE last == Len(channel) + 1
<1>1. /\ asked' = asked /\ book' = book /\ lost' = lost
  BY DEF Dispatch
<1>2. /\ \A c \in Conns : WireAsks(c, t)' = WireAsks(c, t) /\ wire'[c] = wire[c]
      /\ \A c \in Conns \ {i} : PendingAsks(c, t)' = PendingAsks(c, t) /\ pending'[c] = pending[c]
      /\ \A j \in PendingAsks(i, t)' :
           j \in Nat /\ j >= 1 /\ j + 1 \in PendingAsks(i, t) /\ pending'[i][j] = pending[i][j + 1]
      /\ \A j \in PendingAsks(i, t) :
           \/ /\ j = 1 /\ last \in ChannelAsks(t)'
              /\ channel'[last].price = pending[i][j].price
           \/ j - 1 \in PendingAsks(i, t)' /\ pending'[i][j - 1] = pending[i][j]
      /\ \A a \in ChannelAsks(t) : a \in ChannelAsks(t)' /\ channel'[a] = channel[a]
      /\ \A a \in ChannelAsks(t)' :
           \/ a \in ChannelAsks(t) /\ channel'[a] = channel[a]
           \/ /\ a = last /\ 1 \in PendingAsks(i, t)
              /\ channel'[a].price = pending[i][1].price
  BY DispatchAsks
<1>3. last \in Nat /\ \A a \in ChannelAsks(t) : a \in Nat /\ a < last
  <2>1. Len(channel) \in Nat
    BY FlowShapes
  <2>2. last \in Nat /\ \A a \in 1..Len(channel) : a \in Nat /\ a < last
    BY <2>1, SMT
  <2> QED
    BY <2>2 DEF ChannelAsks
<1> HIDE DEF last
<1>4. Bounded(t)'
  BY <1>1, <1>2 DEF Sound, Bounded
<1>5. ASSUME NEW n, Behind(t, n) PROVE Behind(t, n)'
  BY <1>2, <1>5 DEF Behind
<1>6. ASSUME t[1] \notin doubled, InOrder(t), 1 \in PendingAsks(i, t)
      PROVE  Behind(t, pending[i][1].price)
  <2>1. ASSUME NEW c \in Conns, c # i PROVE PendingAsks(c, t) = {} /\ WireAsks(c, t) = {}
    <3> SUFFICES ASSUME PendingAsks(c, t) # {} \/ WireAsks(c, t) # {} PROVE FALSE
      OBVIOUS
    <3>1. Holds(c, t[1])
      BY <2>1, AskHeld
    <3>2. Holds(i, t[1])
      BY <1>6, AskHeld
    <3> QED
      BY <1>6, <2>1, <3>1, <3>2, TokenType DEF SingleSource, Has
  <2>2. \A k \in PendingAsks(i, t) : k = 1 \/ 1 < k
    BY <1>2, FlowShapes, SMT DEF PendingAsks
  <2>3. pending[i][1].price \in Int
    BY <1>6 DEF Sound, Bounded
  <2>4. \A k \in PendingAsks(i, t) : pending[i][1].price <= pending[i][k].price
    BY <1>6, <2>2, <2>3 DEF InOrder
  <2>5. \A k \in WireAsks(i, t) : pending[i][1].price <= wire[i][k].number
    BY <1>6 DEF InOrder
  <2> QED
    BY <2>1, <2>4, <2>5 DEF Behind
<1>7. ASSUME t[1] \notin doubled, InOrder(t) PROVE InOrder(t)'
  <2>1. book'[t] # None =>
             /\ Behind(t, book[t])'
             /\ \A a \in ChannelAsks(t)' : book'[t] <= channel'[a].price
    BY <1>1, <1>2, <1>5, <1>7 DEF InOrder, Behind
  <2>2. ASSUME NEW a \in ChannelAsks(t)' PROVE Behind(t, channel[a].price)'
    <3>1. CASE a \in ChannelAsks(t) /\ channel'[a] = channel[a]
      <4>1. Behind(t, channel[a].price)
        BY <1>7, <3>1 DEF InOrder
      <4> QED
        BY <1>5, <3>1, <4>1
    <3>2. CASE a = last /\ 1 \in PendingAsks(i, t) /\ channel'[a].price = pending[i][1].price
      BY <1>5, <1>6, <1>7, <3>2
    <3> QED
      BY <1>2, <3>1, <3>2
  <2>3. ASSUME NEW a \in ChannelAsks(t)', NEW b \in ChannelAsks(t)', a < b
        PROVE  channel'[a].price <= channel'[b].price
    <3>1. a \in ChannelAsks(t) /\ channel'[a] = channel[a]
      BY <1>2, <1>3, <2>3
    <3>2. CASE b \in ChannelAsks(t) /\ channel'[b] = channel[b]
      BY <1>7, <2>3, <3>1, <3>2 DEF InOrder
    <3>3. CASE b = last /\ 1 \in PendingAsks(i, t) /\ channel'[b].price = pending[i][1].price
      <4>1. Behind(t, channel[a].price)
        BY <1>7, <3>1 DEF InOrder
      <4> QED
        BY <3>1, <3>3, <4>1 DEF Behind
    <3> QED
      BY <1>2, <3>2, <3>3
  <2>4. ASSUME NEW c \in Conns, NEW j \in PendingAsks(c, t)'
        PROVE  /\ \A k \in PendingAsks(c, t)' : j < k => pending'[c][j].price <= pending'[c][k].price
               /\ \A k \in WireAsks(c, t)' : pending'[c][j].price <= wire'[c][k].number
    <3>1. CASE c = i
      <4>1. j + 1 \in PendingAsks(i, t) /\ pending'[i][j] = pending[i][j + 1] /\ j \in Nat
        BY <1>2, <2>4, <3>1
      <4>2. ASSUME NEW k \in PendingAsks(i, t)', j < k PROVE pending'[i][j].price <= pending'[i][k].price
        <5>1. k + 1 \in PendingAsks(i, t) /\ pending'[i][k] = pending[i][k + 1] /\ j + 1 < k + 1
          BY <1>2, <4>1, <4>2
        <5> QED
          BY <1>7, <4>1, <5>1 DEF InOrder
      <4>3. \A k \in WireAsks(i, t)' : pending'[i][j].price <= wire'[i][k].number
        BY <1>2, <1>7, <4>1 DEF InOrder
      <4> QED
        BY <3>1, <4>2, <4>3
    <3>2. CASE c # i
      BY <1>2, <1>7, <2>4, <3>2 DEF InOrder
    <3> QED
      BY <3>1, <3>2
  <2>5. \A c \in Conns : \A j, k \in WireAsks(c, t)' : j < k => wire'[c][j].number <= wire'[c][k].number
    BY <1>2, <1>7 DEF InOrder
  <2> QED
    BY <2>1, <2>2, <2>3, <2>4, <2>5 DEF InOrder
<1>8. ASSUME LastUnderway(t) PROVE LastUnderway(t)'
  BY <1>1, <1>2, <1>8 DEF LastUnderway
<1>9. t[1] \notin doubled' => t[1] \notin doubled
  OBVIOUS
<1> QED
  BY <1>1, <1>4, <1>7, <1>8, <1>9 DEF Sound

\* A new event is the newest, and stands behind everything.
LEMMA MoveSound ==
  ASSUME FlowTypeOK, NEW t \in Tokens, Sound(t), NEW m \in Markets, NEW shape \in Shapes,
         Move(m, shape), doubled \subseteq doubled'
  PROVE  Sound(t)'
<1> DEFINE event  == [market |-> m, changes |-> shape, number |-> moves + 1]
           pushed == {i \in Conns : m \in streamed[i]}
<1>1. /\ book' = book /\ channel' = channel /\ pending' = pending /\ event.number = moves + 1
      /\ asked'[t] = IF t \in Sold(event) THEN moves + 1 ELSE asked[t]
      /\ lost' = IF pushed = {} THEN lost \cup Sold(event) ELSE lost \ Sold(event)
  BY DEF Move
<1>2. /\ ChannelAsks(t)' = ChannelAsks(t)
      /\ \A i \in Conns : PendingAsks(i, t)' = PendingAsks(i, t)
      /\ \A i \in Conns : \A j \in WireAsks(i, t) : j \in WireAsks(i, t)' /\ wire'[i][j] = wire[i][j]
      /\ \A i \in Conns : \A j \in WireAsks(i, t)' :
           \/ j \in WireAsks(i, t) /\ wire'[i][j] = wire[i][j]
           \/ /\ i \in pushed /\ j = Len(wire[i]) + 1 /\ wire'[i][j] = event
              /\ t \in Sold(event)
      /\ t \in Sold(event) => \A i \in pushed :
           Len(wire[i]) + 1 \in WireAsks(i, t)' /\ wire'[i][Len(wire[i]) + 1] = event
  BY MoveAsks
<1>3. pushed \subseteq Conns
  OBVIOUS
<1> HIDE DEF event, pushed
<1>4. asked[t] \in Nat /\ moves \in Nat /\ asked[t] <= moves
  BY FlowShapes
<1>5. asked'[t] \in Nat /\ asked[t] <= asked'[t] /\ (t \in Sold(event) => asked'[t] = moves + 1)
  BY <1>1, <1>4, SMT
<1>6. ASSUME NEW n \in 1..asked[t] PROVE n \in 1..asked'[t] /\ n <= moves + 1
  BY <1>4, <1>5, SMT
<1>7. ASSUME NEW i \in Conns, NEW j \in WireAsks(i, t)'
      PROVE  wire'[i][j].number \in 1..asked'[t]
  <2>1. CASE j \in WireAsks(i, t) /\ wire'[i][j] = wire[i][j]
    BY <1>6, <2>1 DEF Sound, Bounded
  <2>2. CASE wire'[i][j] = event /\ t \in Sold(event)
    BY <1>1, <1>4, <1>5, <2>2, SMT
  <2> QED
    BY <1>2, <2>1, <2>2
<1>8. Bounded(t)'
  <2>1. \A a \in ChannelAsks(t)' : channel'[a].price \in 1..asked'[t]
    BY <1>1, <1>2, <1>6 DEF Sound, Bounded
  <2>2. \A i \in Conns : \A j \in PendingAsks(i, t)' : pending'[i][j].price \in 1..asked'[t]
    BY <1>1, <1>2, <1>6 DEF Sound, Bounded
  <2> QED
    BY <1>7, <2>1, <2>2 DEF Bounded
<1>9. ASSUME NEW n, Behind(t, n), n \in Nat, n <= asked[t] PROVE Behind(t, n)'
  <2>1. ASSUME NEW i \in Conns, NEW j \in WireAsks(i, t)' PROVE n <= wire'[i][j].number
    <3>1. CASE j \in WireAsks(i, t) /\ wire'[i][j] = wire[i][j]
      BY <1>9, <3>1 DEF Behind
    <3>2. CASE wire'[i][j] = event
      BY <1>1, <1>4, <1>9, <3>2
    <3> QED
      BY <1>2, <2>1, <3>1, <3>2
  <2> QED
    BY <1>1, <1>2, <1>9, <2>1 DEF Behind
<1>10. ASSUME InOrder(t) PROVE InOrder(t)'
  <2>1. book[t] # None => book[t] \in Nat /\ book[t] <= asked[t]
    BY <1>4, SMT DEF FlowTypeOK
  <2>2. book'[t] # None =>
             /\ Behind(t, book[t])'
             /\ \A a \in ChannelAsks(t)' : book'[t] <= channel'[a].price
    BY <1>1, <1>2, <1>9, <1>10, <2>1 DEF InOrder
  <2>3. ASSUME NEW a \in ChannelAsks(t)' PROVE Behind(t, channel[a].price)'
    <3>1. a \in ChannelAsks(t)
      BY <1>2
    <3>2. Behind(t, channel[a].price)
      BY <1>10, <3>1 DEF InOrder
    <3>3. channel[a].price \in 1..asked[t]
      BY <3>1 DEF Sound, Bounded
    <3>4. channel[a].price \in Nat /\ channel[a].price <= asked[t]
      BY <1>4, <3>3, SMT
    <3> QED
      BY <1>1, <1>9, <3>2, <3>4
  <2>4. \A a, b \in ChannelAsks(t)' : a < b => channel'[a].price <= channel'[b].price
    BY <1>1, <1>2, <1>10 DEF InOrder
  <2>5. ASSUME NEW i \in Conns, NEW j \in PendingAsks(i, t)'
        PROVE  /\ \A k \in PendingAsks(i, t)' : j < k => pending'[i][j].price <= pending'[i][k].price
               /\ \A k \in WireAsks(i, t)' : pending'[i][j].price <= wire'[i][k].number
    <3>1. j \in PendingAsks(i, t) /\ pending[i][j].price <= moves + 1
      BY <1>2, <1>6, <2>5 DEF Sound, Bounded
    <3>2. ASSUME NEW k \in WireAsks(i, t)' PROVE pending'[i][j].price <= wire'[i][k].number
      BY <1>1, <1>2, <1>10, <3>1 DEF InOrder
    <3> QED
      BY <1>1, <1>2, <1>10, <3>1, <3>2 DEF InOrder
  <2>6. ASSUME NEW i \in Conns, NEW j \in WireAsks(i, t)', NEW k \in WireAsks(i, t)', j < k
        PROVE  wire'[i][j].number <= wire'[i][k].number
    <3>1. CASE wire'[i][k] = event
      <4>1. wire'[i][j].number \in Int /\ wire'[i][j].number <= asked'[t]
        BY <1>5, <1>7, <2>6, SMT
      <4> QED
        BY <1>1, <1>4, <1>5, <3>1, <4>1, SMT
    <3>2. CASE k \in WireAsks(i, t) /\ wire'[i][k] = wire[i][k]
      <4>1. k \in 1..Len(wire[i]) /\ Len(wire[i]) \in Nat
        BY <3>2, FlowShapes DEF WireAsks
      <4>2. j # Len(wire[i]) + 1
        BY <2>6, <4>1, SMT
      <4>3. j \in WireAsks(i, t) /\ wire'[i][j] = wire[i][j]
        BY <1>2, <2>6, <4>2
      <4> QED
        BY <1>10, <2>6, <3>2, <4>3 DEF InOrder
    <3> QED
      BY <1>2, <2>6, <3>1, <3>2
  <2> QED
    BY <2>2, <2>3, <2>4, <2>5, <2>6 DEF InOrder
<1>11. ASSUME t \notin lost', t \notin lost => LastUnderway(t) PROVE LastUnderway(t)'
  <2>1. CASE t \in Sold(event)
    <3>1. PICK i \in pushed : TRUE
      BY <1>1, <1>11, <2>1
    <3>2. /\ i \in Conns /\ Len(wire[i]) + 1 \in WireAsks(i, t)'
          /\ wire'[i][Len(wire[i]) + 1].number = asked'[t]
      BY <1>1, <1>2, <1>3, <1>5, <2>1, <3>1
    <3> QED
      BY <3>2 DEF LastUnderway
  <2>2. CASE t \notin Sold(event)
    <3>1. LastUnderway(t) /\ asked'[t] = asked[t]
      BY <1>1, <1>11, <2>2
    <3> QED
      BY <1>1, <1>2, <3>1 DEF LastUnderway
  <2> QED
    BY <2>1, <2>2
<1>12. t[1] \notin doubled' => t[1] \notin doubled
  OBVIOUS
<1> QED
  BY <1>8, <1>10, <1>11, <1>12 DEF Sound

\* The consumer takes the oldest update of a token.
LEMMA ConsumeSound ==
  ASSUME FlowTypeOK, NEW t \in Tokens, Sound(t), Consume, doubled \subseteq doubled'
  PROVE  /\ Sound(t)'
         /\ book'[t] # None => book'[t] \in 0..asked'[t] /\ book[t] # None
         /\ t[1] \notin doubled /\ book[t] # None => book'[t] # None /\ book[t] <= book'[t]
<1> DEFINE update == Head(channel)
<1>1. /\ asked' = asked /\ channel # <<>>
      /\ book' = IF book[update.token] # None THEN [book EXCEPT ![update.token] = update.price] ELSE book
      /\ lost' = IF book[update.token] # None THEN lost ELSE lost \cup {update.token}
  BY DEF Consume
<1>2. /\ \A c \in Conns : /\ PendingAsks(c, t)' = PendingAsks(c, t) /\ pending'[c] = pending[c]
                          /\ WireAsks(c, t)' = WireAsks(c, t) /\ wire'[c] = wire[c]
      /\ \A a \in ChannelAsks(t)' :
           a \in Nat /\ a >= 1 /\ a + 1 \in ChannelAsks(t) /\ channel'[a] = channel[a + 1]
      /\ \A a \in ChannelAsks(t) :
           a = 1 \/ (a - 1 \in ChannelAsks(t)' /\ channel'[a - 1] = channel[a])
      /\ update = channel[1] /\ update.token \in Tokens /\ update.price \in Nat
      /\ 1 \in ChannelAsks(update.token) /\ 1 \in 1..Len(channel)
  BY ConsumeAsks
<1> HIDE DEF update
<1>3. asked[t] \in Nat /\ None \notin Nat /\ (book[t] # None => book[t] \in Nat /\ book[t] <= asked[t])
  BY FlowShapes, FlowAssumption, SMT DEF FlowTypeOK
<1>4. Bounded(t)'
  BY <1>1, <1>2 DEF Sound, Bounded
<1>5. ASSUME NEW n, Behind(t, n) PROVE Behind(t, n)'
  BY <1>2, <1>5 DEF Behind
<1>6. \/ book'[t] = book[t] /\ (update.token # t \/ book[t] = None)
      \/ /\ update.token = t /\ book[t] # None /\ book'[t] = channel[1].price
         /\ 1 \in ChannelAsks(t)
  BY <1>1, <1>2 DEF FlowTypeOK
<1>7. book'[t] # None => book'[t] \in 0..asked'[t] /\ book[t] # None
  <2>1. CASE book'[t] = book[t]
    BY <1>1, <1>3, <2>1
  <2>2. CASE book[t] # None /\ book'[t] = channel[1].price /\ 1 \in ChannelAsks(t)
    <3>1. channel[1].price \in 1..asked[t]
      BY <2>2 DEF Sound, Bounded
    <3> QED
      BY <1>1, <1>3, <2>2, <3>1, SMT
  <2> QED
    BY <1>6, <2>1, <2>2
<1>8. ASSUME t[1] \notin doubled, InOrder(t)
      PROVE  InOrder(t)' /\ (book[t] # None => book'[t] # None /\ book[t] <= book'[t])
  <2>1. \A a \in ChannelAsks(t)' : Behind(t, channel[a + 1].price) /\ a + 1 \in ChannelAsks(t)
    BY <1>2, <1>8 DEF InOrder
  <2>2. ASSUME NEW a \in ChannelAsks(t)' PROVE Behind(t, channel[a].price)'
    <3>1. channel'[a].price = channel[a + 1].price /\ Behind(t, channel[a + 1].price)
      BY <1>2, <2>1
    <3> QED
      BY <1>5, <3>1
  <2>3. ASSUME NEW a \in ChannelAsks(t)', NEW b \in ChannelAsks(t)', a < b
        PROVE  channel'[a].price <= channel'[b].price
    <3>1. /\ a + 1 \in ChannelAsks(t) /\ b + 1 \in ChannelAsks(t) /\ a + 1 < b + 1
          /\ channel'[a] = channel[a + 1] /\ channel'[b] = channel[b + 1]
      BY <1>2, <2>3
    <3> QED
      BY <1>8, <3>1 DEF InOrder
  <2>4. CASE book'[t] = book[t]
    <3>1. book'[t] # None =>
             /\ Behind(t, book[t])'
             /\ \A a \in ChannelAsks(t)' : book'[t] <= channel'[a].price
      BY <1>2, <1>5, <1>8, <2>1, <2>4 DEF InOrder
    <3>2. book[t] # None => book[t] <= book'[t]
      BY <1>3, <2>4
    <3> QED
      BY <1>2, <1>8, <2>2, <2>3, <2>4, <3>1, <3>2 DEF InOrder
  <2>5. CASE book[t] # None /\ book'[t] = channel[1].price /\ 1 \in ChannelAsks(t)
    <3>1. Behind(t, channel[1].price) /\ book[t] <= channel[1].price
      BY <1>8, <2>5 DEF InOrder
    <3>2. Behind(t, book[t])'
      BY <1>5, <2>5, <3>1
    <3>3. \A a \in ChannelAsks(t)' : 1 < a + 1 /\ a + 1 \in ChannelAsks(t) /\ channel'[a] = channel[a + 1]
      BY <1>2
    <3>4. \A a \in ChannelAsks(t)' : book'[t] <= channel'[a].price
      BY <1>8, <2>5, <3>3 DEF InOrder
    <3>5. channel[1].price # None
      BY <1>2, <1>3
    <3> QED
      BY <1>2, <1>8, <2>2, <2>3, <2>5, <3>1, <3>2, <3>4, <3>5 DEF InOrder
  <2> QED
    BY <1>6, <2>4, <2>5
<1>9. ASSUME t[1] \notin doubled, InOrder(t), t \notin lost', LastUnderway(t) PROVE LastUnderway(t)'
  <2>1. CASE asked[t] = 0
    BY <1>1, <2>1 DEF LastUnderway
  <2>2. CASE book[t] = asked[t]
    <3>1. CASE book'[t] = book[t]
      BY <1>1, <2>2, <3>1 DEF LastUnderway
    <3>2. CASE book'[t] = channel[1].price /\ 1 \in ChannelAsks(t)
      <4>1. channel[1].price \in 1..asked[t] /\ book[t] # None
        BY <1>3, <2>2, <3>2 DEF Sound, Bounded
      <4>2. book[t] <= channel[1].price
        BY <1>9, <3>2, <4>1 DEF InOrder
      <4>3. channel[1].price = asked[t]
        BY <1>3, <2>2, <4>1, <4>2, SMT
      <4> QED
        BY <1>1, <3>2, <4>3 DEF LastUnderway
    <3> QED
      BY <1>6, <3>1, <3>2
  <2>3. ASSUME NEW a \in ChannelAsks(t), channel[a].price = asked[t] PROVE LastUnderway(t)'
    <3>1. CASE a = 1
      <4>1. update.token = t
        BY <1>2, <2>3, <3>1 DEF ChannelAsks
      <4>2. book'[t] = channel[1].price
        BY <1>1, <1>6, <1>9, <4>1
      <4> QED
        BY <1>1, <2>3, <3>1, <4>2 DEF LastUnderway
    <3>2. CASE a # 1
      BY <1>1, <1>2, <2>3, <3>2 DEF LastUnderway
    <3> QED
      BY <3>1, <3>2
  <2>4. ASSUME NEW c \in Conns, \/ \E j \in PendingAsks(c, t) : pending[c][j].price = asked[t]
                               \/ \E j \in WireAsks(c, t) : wire[c][j].number = asked[t]
        PROVE  LastUnderway(t)'
    BY <1>1, <1>2, <2>4 DEF LastUnderway
  <2> QED
    BY <1>9, <2>1, <2>2, <2>3, <2>4 DEF LastUnderway
<1>10. (t[1] \notin doubled' => t[1] \notin doubled) /\ (t \notin lost' => t \notin lost)
  BY <1>1
<1> QED
  BY <1>4, <1>7, <1>8, <1>9, <1>10 DEF Sound

\* What goes with a socket is known to be lost.
LEMMA ReopenSound ==
  ASSUME FlowTypeOK, NEW t \in Tokens, Sound(t), NEW i \in Conns, Reopen(i), doubled \subseteq doubled'
  PROVE  Sound(t)'
<1>1. /\ asked' = asked /\ book' = book /\ channel' = channel /\ pending' = pending /\ lost \subseteq lost'
  BY DEF Reopen
<1>2. /\ ChannelAsks(t)' = ChannelAsks(t)
      /\ \A c \in Conns : PendingAsks(c, t)' = PendingAsks(c, t)
      /\ \A c \in Conns \ {i} : WireAsks(c, t)' = WireAsks(c, t) /\ wire'[c] = wire[c]
      /\ WireAsks(i, t)' = {}
      /\ WireAsks(i, t) # {} => t \in lost'
  BY ReopenAsks
<1>3. Bounded(t)'
  BY <1>1, <1>2 DEF Sound, Bounded
<1>4. ASSUME NEW n, Behind(t, n) PROVE Behind(t, n)'
  BY <1>1, <1>2, <1>4 DEF Behind
<1>5. ASSUME InOrder(t) PROVE InOrder(t)'
  <2>1. book'[t] # None =>
             /\ Behind(t, book[t])'
             /\ \A a \in ChannelAsks(t)' : book'[t] <= channel'[a].price
    BY <1>1, <1>2, <1>4, <1>5 DEF InOrder
  <2>2. ASSUME NEW a \in ChannelAsks(t)' PROVE Behind(t, channel[a].price)'
    <3>1. Behind(t, channel[a].price)
      BY <1>2, <1>5 DEF InOrder
    <3> QED
      BY <1>1, <1>4, <3>1
  <2>3. \A a, b \in ChannelAsks(t)' : a < b => channel'[a].price <= channel'[b].price
    BY <1>1, <1>2, <1>5 DEF InOrder
  <2>4. \A c \in Conns : \A j \in PendingAsks(c, t)' :
          /\ \A k \in PendingAsks(c, t)' : j < k => pending'[c][j].price <= pending'[c][k].price
          /\ \A k \in WireAsks(c, t)' : pending'[c][j].price <= wire'[c][k].number
    BY <1>1, <1>2, <1>5 DEF InOrder
  <2>5. \A c \in Conns : \A j, k \in WireAsks(c, t)' : j < k => wire'[c][j].number <= wire'[c][k].number
    BY <1>2, <1>5 DEF InOrder
  <2> QED
    BY <2>1, <2>2, <2>3, <2>4, <2>5 DEF InOrder
<1>6. ASSUME t \notin lost', LastUnderway(t) PROVE LastUnderway(t)'
  BY <1>1, <1>2, <1>6 DEF LastUnderway
<1>7. (t[1] \notin doubled' => t[1] \notin doubled) /\ (t \notin lost' => t \notin lost)
  BY <1>1
<1> QED
  BY <1>3, <1>5, <1>6, <1>7 DEF Sound

\* A refresh carries the book or starts it below every ask.
LEMMA RefreshSound ==
  ASSUME FlowTypeOK, NEW t \in Tokens, Sound(t), NEW list \in Lists, Refresh(list),
         doubled \subseteq doubled'
  PROVE  /\ Sound(t)'
         /\ book'[t] # None => book'[t] \in 0..asked'[t]
         /\ book[t] # None => book'[t] = None \/ book'[t] = book[t]
<1>1. /\ asked' = asked /\ channel' = channel /\ pending' = pending /\ wire' = wire /\ lost \subseteq lost'
      /\ book'[t] = IF t[1] \in ToSet(list) THEN Carried(t) ELSE None
      /\ t[1] \notin ToSet(list) => t \in lost'
  BY DEF Refresh
<1>2. SameAsks(t)
  BY <1>1, Unchanged
<1>3. asked[t] \in Nat /\ (book[t] # None => book[t] \in 0..asked[t]) /\ 0 \in 0..asked[t] /\ None \notin Nat
  BY FlowShapes, FlowAssumption, SMT DEF FlowTypeOK
<1>4. book'[t] = None \/ book'[t] = book[t] \/ (book[t] = None /\ book'[t] = 0)
  BY <1>1 DEF Carried
<1>5. Bounded(t)'
  BY <1>1, <1>2 DEF Sound, Bounded, SameAsks
<1>6. ASSUME NEW n, Behind(t, n) PROVE Behind(t, n)'
  BY <1>1, <1>2, <1>6 DEF Behind, SameAsks
<1>7. ASSUME InOrder(t) PROVE InOrder(t)'
  <2>1. /\ \A a \in ChannelAsks(t) : 0 <= channel[a].price
        /\ Behind(t, 0)
    <3>1. \A n \in 1..asked[t] : 0 <= n
      BY <1>3, SMT
    <3> QED
      BY <3>1 DEF Sound, Bounded, Behind
  <2>2. book'[t] # None => \A a \in ChannelAsks(t)' : book'[t] <= channel'[a].price
    BY <1>1, <1>2, <1>4, <1>7, <2>1 DEF InOrder, SameAsks
  <2>3. book'[t] # None => Behind(t, book[t])'
    <3>1. CASE book'[t] = book[t]
      BY <1>6, <1>7, <3>1 DEF InOrder
    <3>2. CASE book'[t] = 0
      BY <1>6, <2>1, <3>2
    <3> QED
      BY <1>4, <3>1, <3>2
  <2>4. ASSUME NEW a \in ChannelAsks(t)' PROVE Behind(t, channel[a].price)'
    <3>1. Behind(t, channel[a].price)
      BY <1>2, <1>7 DEF InOrder, SameAsks
    <3> QED
      BY <1>1, <1>6, <3>1
  <2>5. \A a, b \in ChannelAsks(t)' : a < b => channel'[a].price <= channel'[b].price
    BY <1>1, <1>2, <1>7 DEF InOrder, SameAsks
  <2>6. \A c \in Conns : \A j \in PendingAsks(c, t)' :
          /\ \A k \in PendingAsks(c, t)' : j < k => pending'[c][j].price <= pending'[c][k].price
          /\ \A k \in WireAsks(c, t)' : pending'[c][j].price <= wire'[c][k].number
    BY <1>1, <1>2, <1>7 DEF InOrder, SameAsks
  <2>7. \A c \in Conns : \A j, k \in WireAsks(c, t)' : j < k => wire'[c][j].number <= wire'[c][k].number
    BY <1>1, <1>2, <1>7 DEF InOrder, SameAsks
  <2> QED
    BY <2>2, <2>3, <2>4, <2>5, <2>6, <2>7 DEF InOrder
<1>8. ASSUME t \notin lost', LastUnderway(t) PROVE LastUnderway(t)'
  <2>1. book[t] = asked[t] => book'[t] = asked[t]
    BY <1>1, <1>3, <1>8, SMT DEF Carried
  <2>2. asked'[t] = asked[t]
    BY <1>1
  <2> QED
    BY <1>2, <1>8, <2>1, <2>2 DEF LastUnderway, SameAsks
<1>9. (t[1] \notin doubled' => t[1] \notin doubled) /\ (t \notin lost' => t \notin lost)
  BY <1>1
<1>10. /\ book'[t] # None => book'[t] \in 0..asked'[t]
       /\ book[t] # None => book'[t] = None \/ book'[t] = book[t]
  BY <1>1, <1>3, <1>4
<1> QED
  BY <1>5, <1>7, <1>8, <1>9, <1>10 DEF Sound

\* Connections and sends that carry no price.
LEMMA IdleSound ==
  ASSUME NEW t \in Tokens, Sound(t), UNCHANGED flow, doubled \subseteq doubled'
  PROVE  Sound(t)'
<1>1. UNCHANGED <<moves, asked, wire, pending, channel, book, lost>>
  BY DEF flow
<1>2. /\ Bounded(t)' <=> Bounded(t)
      /\ InOrder(t)' <=> InOrder(t)
      /\ LastUnderway(t)' <=> LastUnderway(t)
  BY <1>1 DEF Bounded, InOrder, Behind, LastUnderway, ChannelAsks, PendingAsks, WireAsks
<1> QED
  BY <1>1, <1>2 DEF Sound

-----------------------------------------------------------------------------
\* ---- Types are kept ----

\* The bound of the channel is that of its asks.
LEMMA ChannelBound ==
  ASSUME channel' \in Seq([token : Tokens, price : Nat]), \A t \in Tokens : Bounded(t)'
  PROVE  \A update \in ToSet(channel') : update.price \in 1..asked'[update.token]
<1> SUFFICES ASSUME NEW a \in DOMAIN channel' PROVE channel'[a].price \in 1..asked'[channel'[a].token]
  BY DEF ToSet
<1>1. a \in 1..Len(channel')
  BY LenProperties
<1>2. channel'[a] \in [token : Tokens, price : Nat]
  BY <1>1, ElementOfSeq
<1>3. channel'[a].token \in Tokens /\ a \in ChannelAsks(channel[a].token)'
  BY <1>1, <1>2 DEF ChannelAsks
<1> QED
  BY <1>3 DEF Bounded

\* The steps of the exchange and the listeners leave the list and the book.
LEMMA MoveTyped ==
  ASSUME FlowTypeOK, NEW m \in Markets, NEW shape \in Shapes, Move(m, shape),
         doubled' \subseteq Markets, \A t \in Tokens : Bounded(t)'
  PROVE  FlowTypeOK'
<1> DEFINE event == [market |-> m, changes |-> shape, number |-> moves + 1]
<1>1. /\ moves < MOVES /\ moves' = moves + 1
      /\ asked' = [t \in Tokens |-> IF t \in Sold(event) THEN moves + 1 ELSE asked[t]]
      /\ lost' \subseteq lost \cup Sold(event)
      /\ UNCHANGED <<markets, pending, channel, book>>
  BY DEF Move, vars, orchestrator
<1>2. <<m, "YES">> \in Tokens
  BY DEF Tokens, Legs
<1>3. wire' \in [Conns -> Seq(Events)] /\ event \in Events
  BY <1>2, MoveAsks
<1> HIDE DEF event
<1>4. Sold(event) \subseteq Tokens
  BY <1>3, EventShape
<1>5. moves' \in 0..MOVES
  BY <1>1, FlowShapes, FlowAssumption, SMT
<1>6. asked' \in [Tokens -> Nat]
  <2>1. moves + 1 \in Nat
    BY FlowShapes
  <2> QED
    BY <1>1, <2>1 DEF FlowTypeOK
<1>7. ASSUME NEW t \in Tokens
      PROVE  asked'[t] \in 0..moves' /\ (book'[t] # None => book'[t] \in 0..asked'[t])
  <2>1. /\ asked[t] \in Nat /\ moves \in Nat /\ asked[t] <= moves
        /\ book[t] # None => book[t] \in 0..asked[t]
    BY FlowShapes DEF FlowTypeOK
  <2>2. asked'[t] = moves + 1 \/ asked'[t] = asked[t]
    BY <1>1
  <2> QED
    BY <1>1, <2>1, <2>2, SMT
<1>8. \A update \in ToSet(channel') : update.price \in 1..asked'[update.token]
  <2>1. channel' \in Seq([token : Tokens, price : Nat])
    BY <1>1 DEF FlowTypeOK
  <2> QED
    BY <2>1, ChannelBound
<1> QED
  BY <1>1, <1>3, <1>4, <1>5, <1>6, <1>7, <1>8 DEF FlowTypeOK

LEMMA ListenerTyped ==
  ASSUME FlowTypeOK, NEW i \in Conns, Read(i) \/ Dispatch(i),
         doubled' \subseteq Markets, \A t \in Tokens : Bounded(t)'
  PROVE  FlowTypeOK'
<1>1. UNCHANGED <<markets, moves, asked, book, lost>>
  BY DEF Read, Dispatch, vars, orchestrator
<1>2. /\ wire' \in [Conns -> Seq(Events)] /\ pending' \in [Conns -> Seq(EventChanges)]
      /\ channel' \in Seq([token : Tokens, price : Nat])
  <2>1. CASE Read(i)
    <3>1. wire[i] \in Seq(Events) /\ wire[i] # <<>> /\ channel' = channel
      BY <2>1, FlowShapes DEF Read
    <3>2. Head(wire[i]) \in Events
      BY <3>1, HeadTailProperties
    <3>3. <<Head(wire[i]).market, "YES">> \in Tokens
      BY <3>2, EventShape DEF Tokens, Legs
    <3> QED
      BY <2>1, <3>1, <3>3, ReadAsks DEF FlowTypeOK
  <2>2. CASE Dispatch(i)
    <3>1. pending[i] \in Seq(EventChanges) /\ pending[i] # <<>> /\ wire' = wire
      BY <2>2, FlowShapes DEF Dispatch, Idle
    <3>2. Head(pending[i]) \in EventChanges
      BY <3>1, HeadTailProperties
    <3>3. Head(pending[i]).token \in Tokens
      BY <3>2 DEF EventChanges
    <3> QED
      BY <2>2, <3>1, <3>3, DispatchAsks DEF FlowTypeOK
  <2> QED
    BY <2>1, <2>2
<1>3. \A update \in ToSet(channel') : update.price \in 1..asked'[update.token]
  BY <1>2, ChannelBound
<1> QED
  BY <1>1, <1>2, <1>3 DEF FlowTypeOK

LEMMA ReopenTyped ==
  ASSUME FlowTypeOK, NEW i \in Conns, Reopen(i), doubled' \subseteq Markets
  PROVE  FlowTypeOK'
<1>1. /\ UNCHANGED <<markets, moves, asked, pending, channel, book>>
      /\ wire' = [wire EXCEPT ![i] = <<>>]
      /\ lost' = lost \cup UNION {Sold(event) : event \in ToSet(wire[i])}
  BY DEF Reopen, Resubscribe, NoticeBreak, orchestrator
<1>2. wire' \in [Conns -> Seq(Events)]
  <2>1. <<>> \in Seq(Events)
    BY EmptySeq
  <2> QED
    BY <1>1, <2>1 DEF FlowTypeOK
<1>3. ASSUME NEW event \in ToSet(wire[i]) PROVE Sold(event) \subseteq Tokens
  <2>1. wire[i] \in Seq(Events)
    BY FlowShapes
  <2>2. event \in Events
    BY <1>3, <2>1, LenProperties, ElementOfSeq DEF ToSet
  <2> QED
    BY <2>2, EventShape
<1>4. lost' \subseteq Tokens
  BY <1>1, <1>3 DEF FlowTypeOK
<1> QED
  BY <1>1, <1>2, <1>4 DEF FlowTypeOK

LEMMA ConsumeTyped ==
  ASSUME FlowTypeOK, Consume, doubled' \subseteq Markets, \A t \in Tokens : Bounded(t)',
         \A t \in Tokens : book'[t] # None => book'[t] \in 0..asked'[t] /\ book[t] # None
  PROVE  FlowTypeOK'
<1> DEFINE update == Head(channel)
<1>1. /\ UNCHANGED <<markets, moves, asked, wire, pending>> /\ channel # <<>>
      /\ book' = IF book[update.token] # None THEN [book EXCEPT ![update.token] = update.price] ELSE book
      /\ lost' = IF book[update.token] # None THEN lost ELSE lost \cup {update.token}
  BY DEF Consume, vars, orchestrator
<1>2. channel \in Seq([token : Tokens, price : Nat])
  BY FlowShapes
<1>3. update \in [token : Tokens, price : Nat]
  BY <1>1, <1>2, HeadTailProperties
<1>4. update.token \in Tokens /\ update.price \in Nat
  BY <1>3
<1>5. channel' \in Seq([token : Tokens, price : Nat])
  BY <1>4, ConsumeAsks
<1> HIDE DEF update
<1>6. /\ book' \in [Tokens -> Nat \cup {None}] /\ lost' \subseteq Tokens
      /\ \A t \in Tokens : book'[t] = None <=> book[t] = None
  <2>1. update.price # None
    BY <1>4, FlowAssumption
  <2> QED
    BY <1>1, <1>4, <2>1 DEF FlowTypeOK
<1>7. \A e \in ToSet(channel') : e.price \in 1..asked'[e.token]
  BY <1>5, ChannelBound
<1>8. \A t \in Tokens : (book'[t] = None) <=> t[1] \notin ToSet(markets')
  BY <1>1, <1>6 DEF FlowTypeOK
<1>9. \A t \in Tokens : asked'[t] \in 0..moves'
  BY <1>1 DEF FlowTypeOK
<1> QED
  BY <1>1, <1>5, <1>6, <1>7, <1>8, <1>9 DEF FlowTypeOK

LEMMA RefreshTyped ==
  ASSUME FlowTypeOK, NEW list \in Lists, Refresh(list), doubled' \subseteq Markets,
         \A t \in Tokens : book'[t] # None => book'[t] \in 0..asked'[t]
  PROVE  FlowTypeOK'
<1>1. /\ UNCHANGED <<moves, asked, wire, pending, channel>> /\ markets' = list
      /\ book' = [t \in Tokens |-> IF t[1] \in ToSet(list) THEN Carried(t) ELSE None]
      /\ lost' \subseteq Tokens
  BY DEF Refresh, Fetch, FlowTypeOK
<1>2. \A t \in Tokens : Carried(t) \in Nat /\ Carried(t) # None
  BY FlowAssumption DEF Carried, FlowTypeOK
<1>3. book' \in [Tokens -> Nat \cup {None}]
  BY <1>1, <1>2
<1>4. \A t \in Tokens : (book'[t] = None) <=> t[1] \notin ToSet(markets')
  BY <1>1, <1>2
<1> QED
  BY <1>1, <1>3, <1>4 DEF FlowTypeOK

LEMMA IdleTyped ==
  ASSUME FlowTypeOK, UNCHANGED <<flow, markets>>, doubled' \subseteq Markets
  PROVE  FlowTypeOK'
BY DEF flow, FlowTypeOK

-----------------------------------------------------------------------------
\* ---- The invariant holds ----

LEMMA InitiallyFlowing ==
  ASSUME FlowInit
  PROVE  FlowInv
<1>1. /\ FeedInv /\ markets = <<>> /\ moves = 0 /\ asked = [t \in Tokens |-> 0]
      /\ wire = [i \in Conns |-> <<>>] /\ pending = [i \in Conns |-> <<>>] /\ channel = <<>>
      /\ book = [t \in Tokens |-> None] /\ lost = {} /\ doubled = {}
      /\ \A i \in Conns : streamed[i] = {}
  BY InitiallyFed DEF FlowInit, Init
<1>2. /\ \A S : <<>> \in Seq(S)
      /\ Len(<<>>) = 0 /\ ToSet(<<>>) = {} /\ 1..0 = {}
  <2>1. DOMAIN <<>> = {} /\ 1..0 = {}
    BY SMT
  <2> QED
    BY <2>1, EmptySeq DEF ToSet
<1>3. FlowTypeOK
  <2>1. 0 \in 0..MOVES /\ 0 \in 0..0 /\ 0 \in Nat
    BY FlowAssumption, SMT
  <2>2. wire \in [Conns -> Seq(Events)] /\ pending \in [Conns -> Seq(EventChanges)]
    BY <1>1, <1>2
  <2>3. channel \in Seq([token : Tokens, price : Nat]) /\ ToSet(channel) = {} /\ ToSet(markets) = {}
    BY <1>1, <1>2
  <2>4. /\ asked \in [Tokens -> Nat] /\ book \in [Tokens -> Nat \cup {None}]
        /\ \A t \in Tokens : asked[t] = 0 /\ book[t] = None
    BY <1>1, <2>1
  <2> QED
    BY <1>1, <2>1, <2>2, <2>3, <2>4 DEF FlowTypeOK
<1>4. \A i \in Conns, m \in Markets : ~ Has(i, m)
  BY <1>1, <1>2 DEF Has, Holds
<1>5. ASSUME NEW t \in Tokens PROVE Sound(t)
  <2>1. /\ ChannelAsks(t) = {} /\ asked[t] = 0 /\ book[t] = None
        /\ \A i \in Conns : PendingAsks(i, t) = {} /\ WireAsks(i, t) = {}
    BY <1>1, <1>2 DEF ChannelAsks, PendingAsks, WireAsks
  <2> QED
    BY <2>1 DEF Sound, Bounded, InOrder, LastUnderway
<1> QED
  BY <1>1, <1>3, <1>4, <1>5 DEF FlowInv, SingleSource

LEMMA FlowInvKept ==
  ASSUME FlowInv, [FlowNext]_fvars
  PROVE  FlowInv'
<1>1. FeedInv /\ FlowTypeOK /\ SingleSource /\ \A t \in Tokens : Sound(t)
  BY DEF FlowInv
<1>2. CASE UNCHANGED fvars
  <2>1. FeedInv'
    BY <1>1, <1>2, FeedInvKept DEF fvars
  <2>2. UNCHANGED <<flow, markets, streamed, doubled>>
    BY <1>2 DEF fvars, vars, orchestrator
  <2>3. FlowTypeOK' /\ \A t \in Tokens : Sound(t)'
    <3>1. doubled' \subseteq Markets /\ doubled \subseteq doubled'
      BY <1>1, <2>2 DEF FlowTypeOK
    <3> QED
      BY <1>1, <2>2, <3>1, IdleTyped, IdleSound
  <2>4. SingleSource'
    BY <1>1, <2>2 DEF SingleSource, Has, Holds, flow
  <2> QED
    BY <2>1, <2>3, <2>4 DEF FlowInv
<1>3. CASE FlowNext
  <2>1. doubled \subseteq doubled' /\ doubled' \subseteq Markets
    BY <1>1, <1>3 DEF FlowNext, FlowTypeOK
  <2>2. FeedInv' /\ SingleSource'
    BY <1>1, <1>3, FlowStepFeeds, FeedInvKept, StaysSingle
  <2>3. ASSUME NEW m \in Markets, NEW shape \in Shapes, Move(m, shape)
        PROVE  FlowTypeOK' /\ \A t \in Tokens : Sound(t)'
    <3>1. \A t \in Tokens : Sound(t)'
      BY <1>1, <2>1, <2>3, MoveSound
    <3> QED
      BY <1>1, <2>1, <2>3, <3>1, MoveTyped DEF Sound
  <2>4. ASSUME NEW i \in Conns, Read(i)
        PROVE  FlowTypeOK' /\ \A t \in Tokens : Sound(t)'
    <3>1. \A t \in Tokens : Sound(t)'
      BY <1>1, <2>1, <2>4, ReadSound
    <3> QED
      BY <1>1, <2>1, <2>4, <3>1, ListenerTyped DEF Sound
  <2>5. ASSUME NEW i \in Conns, Dispatch(i)
        PROVE  FlowTypeOK' /\ \A t \in Tokens : Sound(t)'
    <3>1. \A t \in Tokens : Sound(t)'
      BY <1>1, <2>1, <2>5, DispatchSound
    <3> QED
      BY <1>1, <2>1, <2>5, <3>1, ListenerTyped DEF Sound
  <2>6. ASSUME NEW i \in Conns, Reopen(i)
        PROVE  FlowTypeOK' /\ \A t \in Tokens : Sound(t)'
    BY <1>1, <2>1, <2>6, ReopenSound, ReopenTyped
  <2>7. ASSUME OtherFeedStep
        PROVE  FlowTypeOK' /\ \A t \in Tokens : Sound(t)'
    <3>1. UNCHANGED <<flow, markets>>
      BY <2>7 DEF OtherFeedStep, SendShard, BreakOff, Connect, ConnectFails, HandshakeHangs, Subscribe,
                  SameShard, Pause, BreakLink, orchestrator
    <3> QED
      BY <1>1, <2>1, <3>1, IdleTyped, IdleSound
  <2>8. ASSUME Consume
        PROVE  FlowTypeOK' /\ \A t \in Tokens : Sound(t)'
    <3>1. \A t \in Tokens : /\ Sound(t)'
                            /\ book'[t] # None => book'[t] \in 0..asked'[t] /\ book[t] # None
      BY <1>1, <2>1, <2>8, ConsumeSound
    <3>2. \A t \in Tokens : Bounded(t)'
      BY <3>1 DEF Sound
    <3> QED
      BY <1>1, <2>1, <2>8, <3>1, <3>2, ConsumeTyped
  <2>9. ASSUME NEW list \in Lists, Refresh(list)
        PROVE  FlowTypeOK' /\ \A t \in Tokens : Sound(t)'
    BY <1>1, <2>1, <2>9, RefreshSound, RefreshTyped
  <2>10. FlowTypeOK' /\ \A t \in Tokens : Sound(t)'
    BY <1>3, <2>3, <2>4, <2>5, <2>6, <2>7, <2>8, <2>9 DEF FlowNext
  <2> QED
    BY <2>2, <2>10 DEF FlowInv
<1> QED
  BY <1>2, <1>3

LEMMA FlowInvariance == FlowSpec => []FlowInv
BY InitiallyFlowing, FlowInvKept, PTL DEF FlowSpec

-----------------------------------------------------------------------------
\* ---- Results ----

\* The types; nothing is newer than the exchange, and a book is kept for the
\* listed markets only (websocket.rs:137-177).
THEOREM FlowTypes == FlowSpec => []FlowTypeOK
<1>1. FlowInv => FlowTypeOK
  BY DEF FlowInv
<1> QED
  BY <1>1, FlowInvariance, PTL

\* Once nothing is under way for a token, the book holds its last SELL change,
\* outside the gaps (websocket.rs:131, 161-175, main.rs:107-109).
THEOREM BookCatchesUp == FlowSpec => []BookIsCurrent
<1>1. ASSUME FlowInv, NEW t \in Tokens, ~ InTransit(t), t \notin lost, t[1] \notin doubled,
             book[t] # None, asked[t] > 0
      PROVE  book[t] = asked[t]
  <2>1. LastUnderway(t) /\ FlowTypeOK /\ asked[t] # 0
    BY <1>1, FlowShapes, SMT DEF FlowInv, Sound
  <2>2. ASSUME NEW a \in ChannelAsks(t) PROVE FALSE
    <3>1. a \in DOMAIN channel /\ channel[a].token = t
      BY <2>1, <2>2, FlowShapes, LenProperties DEF ChannelAsks
    <3> QED
      BY <1>1, <3>1 DEF InTransit, ToSet
  <2>3. ASSUME NEW i \in Conns, NEW j \in PendingAsks(i, t) PROVE FALSE
    <3>1. j \in DOMAIN pending[i] /\ pending[i][j].token = t /\ pending[i][j].side = "SELL"
      BY <2>1, <2>3, FlowShapes, LenProperties DEF PendingAsks, IsAsk
    <3> QED
      BY <1>1, <3>1 DEF InTransit, ToSet
  <2>4. ASSUME NEW i \in Conns, NEW j \in WireAsks(i, t) PROVE FALSE
    <3>1. j \in DOMAIN wire[i] /\ t \in Sold(wire[i][j])
      BY <2>1, <2>4, FlowShapes, LenProperties DEF WireAsks
    <3> QED
      BY <1>1, <3>1 DEF InTransit, ToSet
  <2> QED
    BY <2>1, <2>2, <2>3, <2>4 DEF LastUnderway
<1>2. FlowInv => BookIsCurrent
  BY <1>1 DEF BookIsCurrent
<1> QED
  BY <1>2, FlowInvariance, PTL

\* The book of a market on one connection never goes back (websocket.rs:175).
THEOREM BookOnlyForward == FlowSpec => NeverBackwards
<1>1. ASSUME FlowInv, [FlowNext]_fvars, NEW t \in Tokens, t[1] \notin doubled,
             book[t] # None, book'[t] # None
      PROVE  book'[t] >= book[t]
  <2>1. FlowTypeOK /\ Sound(t) /\ book[t] \in Nat
    BY <1>1, FlowShapes DEF FlowInv
  <2>2. CASE book'[t] = book[t]
    BY <2>1, <2>2, SMT
  <2>3. CASE FlowNext /\ Consume
    <3>1. doubled \subseteq doubled'
      BY <2>3 DEF FlowNext
    <3>2. book[t] <= book'[t] /\ book'[t] \in 0..asked'[t] /\ asked'[t] = asked[t] /\ asked[t] \in Nat
      BY <1>1, <2>1, <2>3, <3>1, ConsumeSound, FlowShapes DEF Consume
    <3> QED
      BY <2>1, <3>2, SMT
  <2>4. ASSUME FlowNext, NEW list \in Lists, Refresh(list) PROVE book'[t] = book[t]
    <3>1. doubled \subseteq doubled'
      BY <2>4 DEF FlowNext
    <3> QED
      BY <1>1, <2>1, <2>4, <3>1, RefreshSound
  <2>5. ASSUME NEW m \in Markets, NEW shape \in Shapes, Move(m, shape) PROVE book'[t] = book[t]
    BY <2>5 DEF Move
  <2>6. ASSUME NEW i \in Conns, Read(i) \/ Dispatch(i) \/ Reopen(i) PROVE book'[t] = book[t]
    BY <2>6 DEF Read, Dispatch, Reopen
  <2>7. OtherFeedStep \/ UNCHANGED fvars => book'[t] = book[t]
    BY DEF OtherFeedStep, flow, fvars
  <2> QED
    BY <1>1, <2>2, <2>3, <2>4, <2>5, <2>6, <2>7 DEF FlowNext
<1>2. FlowInv /\ [FlowNext]_fvars =>
        [\A token \in Tokens :
           token[1] \notin doubled /\ book[token] # None /\ book'[token] # None
             => book'[token] >= book[token]]_fvars
  BY <1>1
<1> QED
  BY <1>2, FlowInvariance, PTL DEF FlowSpec, NeverBackwards

-----------------------------------------------------------------------------
\* ---- Where a market may come from ----

\* A connection is only ever told of a market, streams it or holds some of it
\* because a list gives it to the connection.
AtHome ==
  \A i \in Conns, m \in Markets :
    m \in ToSet(watch[i]) \/ m \in ToSet(current_ids[i]) \/ Has(i, m) => i \in Homes(m)

\* A channel only ever receives its shard of a list, and a listener only ever
\* takes what its channel holds.
LEMMA ListsPassOn ==
  ASSUME FeedInv, [Next]_vars, NEW i \in Conns
  PROVE  /\ watch'[i] = watch[i] \/ \E list \in Lists : watch'[i] = Shard(list, i)
         /\ current_ids'[i] = current_ids[i] \/ current_ids'[i] = watch[i]
<1> USE DEF FeedInv, TypeOK
<1>1. CASE SendShard
  <2>1. /\ watch' = [watch EXCEPT ![sending] = Shard(markets, sending)]
        /\ current_ids' = current_ids /\ sending \in Conns
        /\ Start(markets, sending) < Len(markets)
    BY <1>1 DEF SendShard
  <2>2. markets # <<>>
    <3>1. sending <= sending
      BY <2>1, Sizes, SMT
    <3>2. Start(markets, sending) \in Nat /\ Len(markets) \in Nat
      BY <2>1, <3>1, StartGrows, LenProperties
    <3>3. Len(markets) # 0
      BY <2>1, <3>2, SMT
    <3> QED
      BY <3>3, EmptySeq
  <2>3. markets \in Lists
    BY <2>2
  <2> QED
    BY <2>1, <2>3
<1>2. ASSUME NEW c \in Conns, Resubscribe(c)
      PROVE  watch' = watch /\ current_ids' = [current_ids EXCEPT ![c] = watch[c]]
  BY <1>2 DEF Resubscribe, Adopted
<1>3. ASSUME NEW c \in Conns, ~ Resubscribe(c),
             Listener(c) \/ ConnectFails(c) \/ HandshakeHangs(c) \/ BreakLink(c)
      PROVE  watch' = watch /\ current_ids' = current_ids
  BY <1>3 DEF Listener, Proceed, Connect, ConnectFails, HandshakeHangs, Subscribe, SameShard,
              NoticeBreak, Pause, BreakLink
<1>4. BreakOff \/ (\E list \in Lists : Fetch(list)) \/ UNCHANGED vars
        => watch' = watch /\ current_ids' = current_ids
  BY DEF BreakOff, Fetch, vars
<1> QED
  BY <1>1, <1>2, <1>3, <1>4 DEF Next

\* AtHome is kept by every step.
LEMMA AtHomeKept ==
  ASSUME FlowInv, AtHome, [FlowNext]_fvars
  PROVE  AtHome'
<1>1. FeedInv /\ FlowTypeOK /\ FeedInv' /\ [Next]_vars
  BY FlowInvKept, FlowStepFeeds DEF FlowInv, fvars
<1> SUFFICES ASSUME NEW i \in Conns, NEW m \in Markets,
                    m \in ToSet(watch'[i]) \/ m \in ToSet(current_ids'[i]) \/ Has(i, m)'
             PROVE  i \in Homes(m)
  BY DEF AtHome, Homes
<1>2. m \in ToSet(watch[i]) \/ m \in ToSet(current_ids[i]) \/ Has(i, m) => i \in Homes(m)
  BY DEF AtHome
<1>3. m \in ToSet(watch'[i]) => i \in Homes(m)
  BY <1>1, <1>2, ListsPassOn DEF Homes
<1>4. m \in ToSet(current_ids'[i]) => i \in Homes(m)
  BY <1>1, <1>2, ListsPassOn
<1>5. m \in streamed'[i] => m \in ToSet(current_ids'[i])
  BY <1>1 DEF FeedInv, TypeOK
<1>6. Holds(i, m)' => Has(i, m)
  <2>1. CASE FlowNext
    BY <1>1, <2>1, HoldsKept
  <2>2. CASE UNCHANGED fvars
    BY <2>2 DEF fvars, flow, Holds, Has
  <2> QED
    BY <2>1, <2>2
<1> QED
  BY <1>2, <1>3, <1>4, <1>5, <1>6 DEF Has

\* A market comes over two connections only if the lists move it.
THEOREM MovedIfDoubled == FlowSpec => []DoubledOnlyIfMoved
<1>1. FlowInit => AtHome /\ DoubledOnlyIfMoved
  <2> SUFFICES ASSUME FlowInit PROVE AtHome /\ DoubledOnlyIfMoved
    OBVIOUS
  <2>1. ToSet(<<>>) = {}
    <3>1. DOMAIN <<>> = {}
      BY SMT
    <3> QED
      BY <3>1 DEF ToSet
  <2>2. /\ doubled = {}
        /\ \A i \in Conns : /\ watch[i] = <<>> /\ current_ids[i] = <<>> /\ streamed[i] = {}
                            /\ wire[i] = <<>> /\ pending[i] = <<>>
    BY DEF FlowInit, Init
  <2> QED
    BY <2>1, <2>2 DEF AtHome, DoubledOnlyIfMoved, Has, Holds
<1>2. ASSUME FlowInv, AtHome, DoubledOnlyIfMoved, [FlowNext]_fvars
      PROVE  AtHome' /\ DoubledOnlyIfMoved'
  <2>1. AtHome'
    BY <1>2, AtHomeKept
  <2>2. ASSUME NEW m \in doubled' PROVE \E i, j \in Homes(m) : i # j
    <3>1. CASE m \in doubled
      BY <1>2, <3>1 DEF DoubledOnlyIfMoved
    <3>2. CASE m \notin doubled
      <4>1. m \in Markets /\ Doubled(m)'
        BY <1>2, <2>2, <3>2 DEF FlowNext, fvars
      <4>2. PICK i \in Conns, j \in Conns : i # j /\ Has(i, m)' /\ Has(j, m)'
        BY <4>1 DEF Doubled, Has
      <4>3. i \in Homes(m)' /\ j \in Homes(m)'
        BY <2>1, <4>1, <4>2 DEF AtHome
      <4> QED
        BY <4>2, <4>3 DEF Homes
    <3> QED
      BY <3>1, <3>2
  <2>3. DoubledOnlyIfMoved'
    BY <2>2 DEF DoubledOnlyIfMoved, Homes
  <2> QED
    BY <2>1, <2>3
<1> QED
  BY <1>1, <1>2, FlowInvariance, PTL DEF FlowSpec

Unmoved(m) == \A i, j \in Homes(m) : i = j

\* The prices of a market that no two lists give to different connections never
\* go back, whatever reconnects and refreshes lie between.
THEOREM UnmovedOnlyForward ==
  FlowSpec =>
    [][\A token \in Tokens :
         Unmoved(token[1]) /\ book[token] # None /\ book'[token] # None
           => book'[token] >= book[token]]_fvars
<1>1. ASSUME DoubledOnlyIfMoved,
             [\A token \in Tokens :
                token[1] \notin doubled /\ book[token] # None /\ book'[token] # None
                  => book'[token] >= book[token]]_fvars
      PROVE  [\A token \in Tokens :
                Unmoved(token[1]) /\ book[token] # None /\ book'[token] # None
                  => book'[token] >= book[token]]_fvars
  BY <1>1 DEF DoubledOnlyIfMoved, Unmoved
<1> QED
  BY <1>1, MovedIfDoubled, BookOnlyForward, PTL DEF NeverBackwards

-----------------------------------------------------------------------------
\* ---- Refinement of PriceBook ----

\* The entry of a market is its two asks while it is listed.
LEMMA ViewEntry ==
  /\ \A m \in Markets : QuoteView[m] = IF m \in ToSet(markets) THEN Quote(m) ELSE None
  /\ \A m \in Markets : QuoteView'[m] = IF m \in ToSet(markets') THEN Quote(m)' ELSE None
  /\ DOMAIN QuoteView = Markets /\ DOMAIN QuoteView' = Markets
BY DEF QuoteView

\* The quote of a listed market is not the absent entry.
LEMMA QuoteNotNone ==
  ASSUME FlowTypeOK, NEW m \in Markets, m \in ToSet(markets)
  PROVE  Quote(m) # None
<1>1. \A leg \in Legs : <<m, leg>> \in Tokens /\ <<m, leg>>[1] = m
  BY DEF Tokens
<1>2. \A leg \in Legs : book[<<m, leg>>] \in Nat
  BY <1>1 DEF FlowTypeOK
<1>3. Quote(m) \in [ask : [Legs -> Nat], size : [Legs -> Nat]]
  BY <1>2 DEF Quote, NoSize
<1> QED
  BY <1>3, FlowAssumption

\* A step that keeps the list and the book keeps the view.
LEMMA ViewSame ==
  ASSUME UNCHANGED <<markets, book>>
  PROVE  UNCHANGED Promised!vars
BY DEF QuoteView, Quote, Promised!vars

\* A refresh lists: who stays keeps both asks, who is new starts from REST.
LEMMA RefreshIsList ==
  ASSUME FlowTypeOK, NEW list \in Lists, Refresh(list)
  PROVE  Promised!List
<1> DEFINE zero == [ask |-> NoSize, size |-> NoSize]
           seed == [m \in Markets |-> zero]
<1>1. /\ markets' = list /\ ToSet(list) \subseteq Markets
      /\ book' = [t \in Tokens |-> IF t[1] \in ToSet(list) THEN Carried(t) ELSE None]
  BY ListAssumption, IdsAreMarkets DEF Refresh, Fetch
<1>2. ASSUME NEW m \in Markets
      PROVE  QuoteView'[m] = IF m \notin ToSet(list) THEN None
                             ELSE IF QuoteView[m] = None THEN zero ELSE QuoteView[m]
  <2>1. \A leg \in Legs : <<m, leg>> \in Tokens /\ <<m, leg>>[1] = m
    BY DEF Tokens
  <2>2. CASE m \notin ToSet(list)
    BY <1>1, <2>2, ViewEntry
  <2>3. CASE m \in ToSet(list) /\ m \notin ToSet(markets)
    <3>1. \A leg \in Legs : book'[<<m, leg>>] = 0
      BY <1>1, <2>1, <2>3 DEF Carried, FlowTypeOK
    <3>2. Quote(m)' = zero
      BY <3>1 DEF Quote, NoSize
    <3> QED
      BY <1>1, <2>3, <3>2, ViewEntry
  <2>4. CASE m \in ToSet(list) /\ m \in ToSet(markets)
    <3>1. \A leg \in Legs : book'[<<m, leg>>] = book[<<m, leg>>]
      BY <1>1, <2>1, <2>4 DEF Carried, FlowTypeOK
    <3>2. Quote(m)' = Quote(m)
      BY <3>1 DEF Quote
    <3> QED
      BY <1>1, <2>4, <3>2, ViewEntry, QuoteNotNone
  <2> QED
    BY <2>2, <2>3, <2>4
<1>3. QuoteView' = [m \in Markets |-> IF m \notin ToSet(list) THEN None
                                      ELSE IF QuoteView[m] = None THEN seed[m] ELSE QuoteView[m]]
  <2>1. QuoteView' = [m \in Markets |-> QuoteView'[m]]
    BY DEF QuoteView
  <2> HIDE DEF zero
  <2> QED
    BY <1>2, <2>1
<1>4. seed \in [Markets -> {zero}]
  OBVIOUS
<1> HIDE DEF seed
<1> QED
  BY <1>1, <1>3, <1>4 DEF Promised!List

\* An update of a listed market is one leg heard of, any other changes nothing.
LEMMA ConsumeIsHeard ==
  ASSUME FlowTypeOK, Consume
  PROVE  (\E m \in Markets : Promised!Hear(m)) \/ UNCHANGED Promised!vars
<1>1. /\ Head(channel).token \in Tokens
      /\ Head(channel).price \in 1..asked[Head(channel).token]
  <2>1. channel # <<>> /\ channel \in Seq([token : Tokens, price : Nat])
    BY FlowShapes DEF Consume
  <2>2. Head(channel) \in ToSet(channel)
    BY <2>1, TailElements
  <2>3. Head(channel) \in [token : Tokens, price : Nat]
    BY <2>1, HeadTailProperties
  <2> QED
    BY <2>2, <2>3 DEF FlowTypeOK
<1>2. PICK m \in Markets, leg \in Legs : Head(channel).token = <<m, leg>>
  BY <1>1 DEF Tokens
<1>3. PICK price \in 1..MOVES : Head(channel).price = price
  <2>1. asked[<<m, leg>>] \in Nat /\ asked[<<m, leg>>] <= moves
    BY <1>1, <1>2, FlowShapes
  <2>2. moves <= MOVES /\ moves \in Nat
    BY FlowAssumption, SMT DEF FlowTypeOK
  <2>3. 1..asked[<<m, leg>>] \subseteq 1..MOVES
    BY <2>1, <2>2, FlowAssumption, SMT
  <2> QED
    BY <1>1, <1>2, <2>3
<1> DEFINE token == <<m, leg>>
           heard == [ask |-> price, size |-> 0]
<1>4. /\ markets' = markets /\ token \in Tokens
      /\ book' = IF book[token] # None THEN [book EXCEPT ![token] = price] ELSE book
  BY <1>1, <1>2, <1>3 DEF Consume, vars, orchestrator
<1> HIDE DEF token
<1>5. CASE book[token] = None
  BY <1>4, <1>5, ViewSame
<1>6. CASE book[token] # None
  <2>1. m \in ToSet(markets)
    BY <1>4, <1>6 DEF FlowTypeOK, token
  <2>2. book' = [book EXCEPT ![token] = price] /\ book \in [Tokens -> Nat \cup {None}]
    BY <1>4, <1>6 DEF FlowTypeOK
  <2>3. QuoteView[m] # None
    BY <2>1, ViewEntry, QuoteNotNone
  <2>4. Quote(m)' = Promised!Replaced(Quote(m), leg, heard)
    <3>1. ASSUME NEW l \in Legs
          PROVE  book'[<<m, l>>] = IF l = leg THEN price ELSE book[<<m, l>>]
      <4>1. <<m, l>> \in Tokens /\ (<<m, l>> = token <=> l = leg)
        BY DEF Tokens, token
      <4> QED
        BY <2>2, <4>1
    <3> DEFINE asks == [l \in Legs |-> book[<<m, l>>]]
    <3>2. [l \in Legs |-> book'[<<m, l>>]] = [asks EXCEPT ![leg] = price]
      BY <3>1
    <3>3. NoSize = [NoSize EXCEPT ![leg] = 0]
      BY DEF NoSize
    <3>4. Quote(m) = [ask |-> asks, size |-> NoSize]
      BY DEF Quote
    <3>5. Quote(m)' = [ask |-> [l \in Legs |-> book'[<<m, l>>]], size |-> NoSize]
      BY DEF Quote, NoSize
    <3> HIDE DEF asks
    <3>6. Quote(m).ask = asks /\ Quote(m).size = NoSize
      BY <3>4
    <3>7. heard.ask = price /\ heard.size = 0
      OBVIOUS
    <3> HIDE DEF heard
    <3>8. Promised!Replaced(Quote(m), leg, heard)
            = [ask |-> [asks EXCEPT ![leg] = price], size |-> [NoSize EXCEPT ![leg] = 0]]
      BY <3>6, <3>7 DEF Promised!Replaced
    <3> QED
      BY <3>2, <3>3, <3>5, <3>8
  <2>5. ASSUME NEW n \in Markets, n # m PROVE QuoteView'[n] = QuoteView[n]
    <3>1. ASSUME NEW l \in Legs PROVE book'[<<n, l>>] = book[<<n, l>>]
      <4>1. <<n, l>> \in Tokens /\ <<n, l>> # token
        BY <2>5 DEF Tokens, token
      <4> QED
        BY <2>2, <4>1
    <3>2. Quote(n)' = Quote(n)
      BY <3>1 DEF Quote
    <3> QED
      BY <1>4, <3>2, ViewEntry
  <2>6. QuoteView' = [QuoteView EXCEPT ![m] = Promised!Replaced(@, leg, heard)]
    <3>1. QuoteView'[m] = Promised!Replaced(QuoteView[m], leg, heard)
      <4>1. QuoteView[m] = Quote(m) /\ QuoteView'[m] = Quote(m)'
        BY <1>4, <2>1, ViewEntry
      <4> HIDE DEF heard
      <4> QED
        BY <2>4, <4>1
    <3>2. QuoteView' = [n \in Markets |-> QuoteView'[n]] /\ QuoteView = [n \in Markets |-> QuoteView[n]]
      BY DEF QuoteView
    <3> QED
      BY <2>5, <3>1, <3>2
  <2>7. heard \in [ask : 1..MOVES, size : {0}] /\ leg \in Promised!Legs
    BY DEF Promised!Legs, Legs
  <2>8. Promised!Hear(m)
    BY <2>3, <2>6, <2>7 DEF Promised!Hear, Promised!Answer
  <2> QED
    BY <2>8
<1> QED
  BY <1>5, <1>6

\* Refreshes, reconnects and the channel leave the book as the analyzer
\* promises it: PriceFlow implements PriceBook.
THEOREM FlowRefinesBook == FlowSpec => ImplementsBook
<1>1. FlowInit => Promised!Init
  <2>1. ToSet(<<>>) = {}
    <3>1. DOMAIN <<>> = {}
      BY SMT
    <3> QED
      BY <3>1 DEF ToSet
  <2> QED
    BY <2>1 DEF FlowInit, Init, Promised!Init, QuoteView
<1>2. ASSUME FlowInv, [FlowNext]_fvars PROVE [Promised!Next]_(Promised!vars)
  <2>1. FlowTypeOK
    BY <1>2 DEF FlowInv
  <2>2. CASE UNCHANGED <<markets, book>>
    BY <2>2, ViewSame
  <2>3. ASSUME NEW list \in Lists, Refresh(list) PROVE Promised!Next
    BY <2>1, <2>3, RefreshIsList DEF Promised!Next
  <2>4. CASE Consume
    BY <2>1, <2>4, ConsumeIsHeard DEF Promised!Next
  <2>5. OtherFeedStep => UNCHANGED <<markets, book>>
    BY DEF OtherFeedStep, flow, SendShard, BreakOff, Connect, ConnectFails, HandshakeHangs, Subscribe,
           SameShard, Pause, BreakLink, orchestrator
  <2>6. ASSUME NEW i \in Conns, Read(i) \/ Dispatch(i) \/ Reopen(i)
        PROVE  UNCHANGED <<markets, book>>
    BY <2>6 DEF Read, Dispatch, Reopen, Resubscribe, NoticeBreak, vars, orchestrator
  <2>7. ASSUME NEW m \in Markets, NEW shape \in Shapes, Move(m, shape)
        PROVE  UNCHANGED <<markets, book>>
    BY <2>7 DEF Move, vars, orchestrator
  <2>8. UNCHANGED fvars => UNCHANGED <<markets, book>>
    BY DEF fvars, flow, vars, orchestrator
  <2> QED
    BY <1>2, <2>2, <2>3, <2>4, <2>5, <2>6, <2>7, <2>8 DEF FlowNext
<1> QED
  BY <1>1, <1>2, FlowInvariance, PTL DEF FlowSpec, ImplementsBook, Promised!Spec
=============================================================================

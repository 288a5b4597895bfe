-------------------------------- MODULE PriceFlow --------------------------------
(***************************************************************************)
(* The way of a price from the exchange into the analyzer: the exchange    *)
(* pushes price_change events to the connections of WsFeed that stream the *)
(* market, each listener parses and dispatches what it reads               *)
(* (src/src/api/websocket.rs), all of them feed one unbounded channel, and *)
(* one consumer applies the updates in order (src/src/main.rs).  Refreshes *)
(* list and prune markets in between.                                      *)
(*                                                                         *)
(* A price is the number of the event that announced it.  Of the analyzer  *)
(* only the book is kept: per token the last update applied while its      *)
(* market is listed (Analyzer.BookIsLastHeard).                            *)
(***************************************************************************)
EXTENDS WsFeed

CONSTANTS
  Shapes,   \* what one event may change: sequences of [leg, side]
  MOVES,    \* bound: events of the exchange
  None      \* no price: the market is not listed

Legs   == {"YES", "NO"}
Tokens == Markets \X Legs

ASSUME FlowAssumption ==
  /\ MOVES \in Nat
  /\ None \notin Nat /\ None \notin [ask : [Legs -> Nat], size : [Legs -> Nat]]
  /\ Shapes \subseteq Seq([leg : Legs, side : {"BUY", "SELL"}])

VARIABLES
  moves,     \* events so far: the number of the last one
  asked,     \* per token the last event that changed its SELL side
  wire,      \* per connection the events not yet read
  pending,   \* per listener the changes of its event it has still to go through
  channel,   \* price_tx, price_rx
  book,      \* per token the event whose price the analyzer holds, 0 from REST
  lost,      \* history: tokens whose last SELL change will not be applied
  doubled    \* history: markets that have come over two connections at once

flow  == <<moves, asked, wire, pending, channel, book, lost>>
fvars == <<vars, flow, doubled>>

FlowInit ==
  /\ Init
  /\ moves = 0
  /\ asked   = [token \in Tokens |-> 0]
  /\ wire    = [i \in Conns |-> <<>>]
  /\ pending = [i \in Conns |-> <<>>]
  /\ channel = <<>>
  /\ book    = [token \in Tokens |-> None]
  /\ lost = {} /\ doubled = {}

-----------------------------------------------------------------------------
\* ---- The exchange (external) ----

\* The tokens whose asks an event changes.
Sold(event) ==
  {<<event.market, change.leg>> : change \in {c \in ToSet(event.changes) : c.side = "SELL"}}

\* One event, pushed to every connection that streams the market.
Move(m, shape) ==
  /\ moves < MOVES
  /\ moves' = moves + 1
  /\ LET event == [market |-> m, changes |-> shape, number |-> moves']
         pushed == {i \in Conns : m \in streamed[i]}
     IN /\ asked' = [token \in Tokens |-> IF token \in Sold(event) THEN moves' ELSE asked[token]]
        /\ wire'  = [i \in Conns |-> IF i \in pushed THEN Append(wire[i], event) ELSE wire[i]]
        /\ lost'  = IF pushed = {} THEN lost \cup Sold(event) ELSE lost \ Sold(event)
  /\ UNCHANGED <<vars, pending, channel, book>>

-----------------------------------------------------------------------------
\* ---- The listeners ----

\* The price_changes of an event, each with the number of the event.
Changes(event) ==
  [j \in 1..Len(event.changes) |->
     [token |-> <<event.market, event.changes[j].leg>>, side |-> event.changes[j].side,
      price |-> event.number]]

\* A listener dispatches one message before it looks at anything else.
Idle(i) == pending[i] = <<>>

\* parse_and_dispatch of the next message.
Read(i) ==
  /\ conn[i] = "up" /\ Idle(i) /\ wire[i] # <<>>
  /\ pending' = [pending EXCEPT ![i] = Changes(Head(wire[i]))]
  /\ wire' = [wire EXCEPT ![i] = Tail(@)]
  /\ UNCHANGED <<vars, moves, asked, channel, book, lost>>

\* Mutated IsAsk: the side of a change is not looked at.
IsAskAlways(change) == TRUE

\* "Only SELL-side (ASK) events trigger analysis".
IsAsk(change) == change.side = "SELL"

\* Mutated Rest: the loop ends at the first change that is no ask.
RestOfAsks(i) == IF IsAsk(Head(pending[i])) THEN Tail(pending[i]) ELSE <<>>

Rest(i) == Tail(pending[i])

\* One turn of dispatch_event's loop: tx.send of an ask, nothing of a bid.  The
\* other listeners and the consumer run meanwhile.
Dispatch(i) ==
  /\ ~ Idle(i)
  /\ LET change == Head(pending[i])
     IN channel' = IF IsAsk(change)
                   THEN Append(channel, [token |-> change.token, price |-> change.price])
                   ELSE channel
  /\ pending' = [pending EXCEPT ![i] = Rest(i)]
  /\ UNCHANGED <<vars, moves, asked, wire, book, lost>>

\* The listener gives the socket up, and what it has not read with it.
Reopen(i) ==
  /\ Idle(i)
  /\ Resubscribe(i) \/ NoticeBreak(i)
  /\ wire' = [wire EXCEPT ![i] = <<>>]
  /\ lost' = lost \cup UNION {Sold(event) : event \in ToSet(wire[i])}
  /\ UNCHANGED <<moves, asked, pending, channel, book>>

OtherFeedStep ==
  /\ \/ SendShard \/ BreakOff
     \/ \E i \in Conns : \/ Connect(i) \/ ConnectFails(i) \/ HandshakeHangs(i)
                         \/ Subscribe(i) \/ (Idle(i) /\ SameShard(i)) \/ Pause(i)
                         \/ BreakLink(i)
  /\ UNCHANGED flow

-----------------------------------------------------------------------------
\* ---- The consumer and the refresh ----

\* update_price; the tokens of a market that is not listed are not known.
Consume ==
  /\ channel # <<>>
  /\ channel' = Tail(channel)
  /\ LET token == Head(channel).token
         known == book[token] # None
     IN /\ book' = IF known THEN [book EXCEPT ![token] = Head(channel).price] ELSE book
        /\ lost' = IF known THEN lost ELSE lost \cup {token}
  /\ UNCHANGED <<vars, moves, asked, wire, pending>>

\* Mutated Carried: a refresh starts every book afresh.
CarriedNot(token) == 0

\* load_markets: a market that stays keeps its book, a new one has REST prices.
Carried(token) == IF book[token] = None THEN 0 ELSE book[token]

\* do_refresh up to the sends.
Refresh(list) ==
  /\ Fetch(list)
  /\ book' = [token \in Tokens |-> IF token[1] \in ToSet(list) THEN Carried(token) ELSE None]
  /\ lost' = lost \cup {token \in Tokens : token[1] \notin ToSet(list)}
  /\ UNCHANGED <<moves, asked, wire, pending, channel>>

-----------------------------------------------------------------------------
\* ---- The composition ----

\* Listener i has changes of m still to read or to send.
Holds(i, m) ==
  \/ \E event \in ToSet(wire[i]) : event.market = m
  \/ \E change \in ToSet(pending[i]) : change.token[1] = m

\* m reaches the engine over two connections: two stream it, or one streams
\* it while another still holds some of it.
Doubled(m) ==
  \E i, j \in Conns : i # j /\ m \in streamed[i] /\ (m \in streamed[j] \/ Holds(j, m))

FlowNext ==
  /\ \/ \E m \in Markets, shape \in Shapes : Move(m, shape)
     \/ \E i \in Conns : Read(i) \/ Dispatch(i) \/ Reopen(i)
     \/ OtherFeedStep
     \/ Consume
     \/ \E list \in Lists : Refresh(list)
  /\ doubled' = doubled \cup {m \in Markets : Doubled(m)'}

FlowSpec == FlowInit /\ [][FlowNext]_fvars

-----------------------------------------------------------------------------
\* ---- Properties ----

InTransit(token) ==
  \/ \E i \in Conns : \E event \in ToSet(wire[i]) : token \in Sold(event)
  \/ \E i \in Conns : \E change \in ToSet(pending[i]) : change.token = token /\ change.side = "SELL"
  \/ \E update \in ToSet(channel) : update.token = token

Events       == [market : Markets, changes : Shapes, number : Nat]
EventChanges == [token : Tokens, side : {"BUY", "SELL"}, price : Nat]

\* The variables have their types; nothing the analyzer or the channel holds
\* is newer than the exchange (websocket.rs:137-177).
FlowTypeOK ==
  /\ moves \in 0..MOVES
  /\ wire \in [Conns -> Seq(Events)] /\ pending \in [Conns -> Seq(EventChanges)]
  /\ channel \in Seq([token : Tokens, price : Nat])
  /\ asked \in [Tokens -> Nat] /\ book \in [Tokens -> Nat \cup {None}]
  /\ \A token \in Tokens :
       /\ asked[token] \in 0..moves
       /\ book[token] # None => book[token] \in 0..asked[token]
  /\ \A update \in ToSet(channel) : update.price \in 1..asked[update.token]
  /\ lost \subseteq Tokens /\ doubled \subseteq Markets
  /\ \A token \in Tokens : (book[token] = None) <=> token[1] \notin ToSet(markets)

\* The analyzer catches up with the exchange: once nothing is under way for a
\* token, the book holds its last SELL change and no BUY, unless that change
\* fell into a gap of the subscription or of the listing, or the market came
\* over two connections (websocket.rs:131, 161-175, main.rs:107-109).
BookIsCurrent ==
  \A token \in Tokens :
    ~ InTransit(token) /\ token \notin lost /\ token[1] \notin doubled
      /\ book[token] # None /\ asked[token] > 0
      => book[token] = asked[token]

\* Prices of a listed market never go back in time, through reconnects, moves
\* to another connection and refreshes, unless the market came over two
\* connections at once (websocket.rs:175).
NeverBackwards ==
  [][\A token \in Tokens :
       token[1] \notin doubled /\ book[token] # None /\ book'[token] # None
         => book'[token] >= book[token]]_fvars

\* The connections whose shard of some list holds m.
Homes(m) == {i \in Conns : \E list \in Lists : m \in ToSet(Shard(list, i))}

\* A market comes over two connections only if one list gives it to one and
\* another list, or the same, to another: reconnects, empty shards and updates
\* still under way never bring it to a connection that no list gives it to
\* (main.rs:226-237, websocket.rs:99-106).
DoubledOnlyIfMoved == \A m \in doubled : \E i, j \in Homes(m) : i # j

\* PriceBook, of which the flow knows the asks and nothing of the sizes.
NoSize == [leg \in Legs |-> 0]

Quote(m) == [ask |-> [leg \in Legs |-> book[<<m, leg>>]], size |-> NoSize]

QuoteView == [m \in Markets |-> IF m \in ToSet(markets) THEN Quote(m) ELSE None]

Promised ==
  INSTANCE PriceBook
  WITH book  <- QuoteView,
       out   <- None,
       Seeds <- {[ask |-> NoSize, size |-> NoSize]},
       Heard <- [ask : 1..MOVES, size : {0}],
       THRESHOLD <- 1, PADDING <- 1, COEFFICIENT <- 1, MAX_POSITION <- 1, MIN_SHARES <- 1

\* Refinement: seen from the channel, the connections and the refreshes, the
\* book changes as the analyzer promises: a market that stays listed keeps its
\* asks, and otherwise one leg of a listed market changes at a time
\* (main.rs:104-107, 206).
ImplementsBook == Promised!Spec
=============================================================================

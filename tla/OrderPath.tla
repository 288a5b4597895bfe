------------------------------- MODULE OrderPath -------------------------------
(***************************************************************************)
(* One quote on its way to two signed orders: analyze_unlocked refuses it  *)
(* or turns it into an opportunity, execute builds both payloads from the  *)
(* opportunity before anything is sent.  The quotes are those of a grid of *)
(* asks and depths; every quote is an initial state.                       *)
(***************************************************************************)
EXTENDS Pricing

CONSTANTS
  Asks,     \* best asks, in 1/10000 USDC
  Depths,   \* sizes at the best ask, in 1/10000 share
  None

ASSUME GridAssumption == Asks \subseteq Nat /\ Depths \subseteq Nat

VARIABLES
  quote,    \* what the market's state holds for both legs
  opp,      \* the ArbitrageOpportunity, once there is one
  orders    \* the OrderData of the two legs, once built

vars == <<quote, opp, orders>>

Init ==
  /\ quote \in [ask : [Legs -> Asks], size : [Legs -> Depths]]
  /\ opp = None
  /\ orders = None

Analyze ==
  /\ opp = None
  /\ IsOpportunity(quote)
  /\ opp' = Opportunity(quote)
  /\ UNCHANGED <<quote, orders>>

\* Both payloads are built from the padded asks and the same size.
Execute ==
  /\ opp # None
  /\ orders = None
  /\ orders' = [leg \in Legs |-> Order(opp.ask[leg], opp.size)]
  /\ UNCHANGED <<quote, opp>>

Next == Analyze \/ Execute
Spec == Init /\ [][Next]_vars

-----------------------------------------------------------------------------
\* ---- Properties ----

Built == orders # None
Paid  == orders["YES"].maker + orders["NO"].maker

\* The two orders together cost less than the $1.00 per share the pair pays
\* out, although each leg is padded, rounded to 4 places and rounded up to
\* cents ("even with full slippage, must not pay >= $1.00", analyzer
\* mod.rs:214; signer mod.rs:220-226).
PaysOut == Built => \A leg \in Legs : Paid < orders[leg].taker

\* "Maximum USDC per leg" (.env.example:25): no leg pays more than the
\* position, rounded up to cents, though both legs' asks are padded after the
\* size was fixed from the raw ones (analyzer mod.rs:194, 208-212).
LegWithinPosition ==
  Built => \A leg \in Legs : orders[leg].maker <= RoundedUp(MAX_POSITION, 100) * UNIT

\* Neither order takes more than its share of the depth quoted on its own
\* side, so one thin side limits both legs (analyzer mod.rs:193).
WithinDepth ==
  Built => \A leg \in Legs : orders[leg].taker <= quote.size[leg] * COEFFICIENT

\* A fill-or-kill order is worth sending only if its limit reaches the quoted
\* ask, and it must not offer a cent more than the padded price: the maker
\* amount lies in that window (analyzer mod.rs:207-211, signer mod.rs:218-226).
LimitReachesQuote ==
  Built => \A leg \in Legs :
    /\ orders[leg].maker * 100 >= quote.ask[leg] * opp.size
    /\ orders[leg].maker * 100 < opp.ask[leg] * opp.size + CENT

\* A better quote is never refused: if a market is an opportunity it remains
\* one with either ask lower (down to the redline) and either depth larger.
\* Size, position limit, padding and threshold all have to agree on this.
Better(q, r) ==
  \A leg \in Legs : q.ask[leg] <= r.ask[leg] /\ q.size[leg] >= r.size[leg]

BetterIsTaken ==
  opp # None =>
    \A q \in [ask : [Legs -> Asks], size : [Legs -> Depths]] :
      Better(q, quote) /\ AboveRedline(q) => IsOpportunity(q)
=============================================================================

---------------------------- MODULE OrderPathProofs ----------------------------
(***************************************************************************)
(* What the orders of OrderPath cost, reach and take, for every            *)
(* configuration and every grid of quotes.                                 *)
(***************************************************************************)
EXTENDS OrderPath, PricingProofs

\* The orders are those of the opportunity, the opportunity that of the quote.
BuiltFromOpp ==
  orders # None =>
    /\ opp # None
    /\ orders = [leg \in Legs |-> Order(opp.ask[leg], opp.size)]

Derived ==
  opp # None => IsOpportunity(quote) /\ opp = Opportunity(quote)

PathInv == quote \in Quotes /\ Derived /\ BuiltFromOpp

\* What came out came from the quote.
LEMMA PathInvariance == Spec => []PathInv
<1>1. Init => PathInv
  <2> SUFFICES ASSUME Init PROVE PathInv
    OBVIOUS
  <2>1. quote \in Quotes
    BY GridAssumption DEF Init, Quotes
  <2> QED
    BY <2>1 DEF Init, PathInv, Derived, BuiltFromOpp
<1>2. PathInv /\ [Next]_vars => PathInv'
  <2> SUFFICES ASSUME PathInv, [Next]_vars PROVE PathInv'
    OBVIOUS
  <2>1. CASE Analyze
    BY <2>1 DEF Analyze, PathInv, Derived, BuiltFromOpp
  <2>2. CASE Execute
    BY <2>2 DEF Execute, PathInv, Derived, BuiltFromOpp
  <2>3. CASE UNCHANGED vars
    BY <2>3 DEF vars, PathInv, Derived, BuiltFromOpp
  <2> QED
    BY <2>1, <2>2, <2>3 DEF Next
<1> QED
  BY <1>1, <1>2, PTL DEF Spec

\* Both orders are those of one opportunity, and that one is the quote's.
LEMMA BuiltOrders ==
  ASSUME PathInv, Built
  PROVE  /\ IsOpportunity(quote)
         /\ opp.size = FinalSize(quote)
         /\ \A leg \in Legs : /\ opp.ask[leg] = Padded(quote.ask[leg])
                              /\ orders[leg].maker = MakerAmount(opp.ask[leg], opp.size)
                              /\ orders[leg].taker = opp.size * 100
BY DEF PathInv, Built, BuiltFromOpp, Derived, Opportunity, Order, TakerAmount

\* No order takes more than its share of the depth on its side.
THEOREM DepthRespected == Spec => []WithinDepth
<1>1. PathInv => WithinDepth
  BY BuiltOrders, SizeBounds DEF WithinDepth, PathInv
<1> QED
  BY <1>1, PathInvariance, PTL

\* The limit of each order reaches the quoted ask, at less than a cent above
\* the padded price.
THEOREM LimitReaches == Spec => []LimitReachesQuote
<1>1. ASSUME PathInv, Built, NEW leg \in Legs
      PROVE  /\ orders[leg].maker * 100 >= quote.ask[leg] * opp.size
             /\ orders[leg].maker * 100 < opp.ask[leg] * opp.size + CENT
  <2>1. quote.ask[leg] \in Nat
    BY <1>1 DEF PathInv, Quotes
  <2>2. opp.size \in Nat
    BY <1>1, BuiltOrders, SizeBounds DEF PathInv
  <2>3. opp.ask[leg] \in Nat /\ quote.ask[leg] <= opp.ask[leg]
    BY <1>1, <2>1, BuiltOrders, PaddedBounds
  <2>4. /\ orders[leg].maker \in Nat
        /\ orders[leg].maker * 100 >= opp.ask[leg] * opp.size
        /\ orders[leg].maker * 100 < opp.ask[leg] * opp.size + CENT
    <3>1. orders[leg].maker = MakerAmount(opp.ask[leg], opp.size)
      BY <1>1, BuiltOrders
    <3>2. /\ MakerAmount(opp.ask[leg], opp.size) \in Nat
          /\ MakerAmount(opp.ask[leg], opp.size) * 100 >= opp.ask[leg] * opp.size
          /\ MakerAmount(opp.ask[leg], opp.size) * 100 < opp.ask[leg] * opp.size + CENT
      BY <2>2, <2>3, LegAmounts, Zenon
    <3> QED
      BY <3>1, <3>2, Zenon
  <2>5. quote.ask[leg] * opp.size <= opp.ask[leg] * opp.size
    <3> DEFINE a == quote.ask[leg]
               b == opp.ask[leg]
               c == opp.size
    <3>1. a \in Nat /\ b \in Nat /\ c \in Nat /\ a <= b
      BY <2>1, <2>2, <2>3
    <3> HIDE DEF a, b, c
    <3>2. a * c <= b * c
      BY <3>1, Scaled
    <3> QED
      BY <3>2 DEF a, b, c
  <2>6. quote.ask[leg] * opp.size \in Int /\ opp.ask[leg] * opp.size \in Int
    BY <2>1, <2>2, <2>3, SMT
  <2> QED
    BY <2>4, <2>5, <2>6, SMT
<1>2. PathInv => LimitReachesQuote
  BY <1>1 DEF LimitReachesQuote
<1> QED
  BY <1>2, PathInvariance, PTL

\* With a safe margin the signed pair costs less than it pays out, whatever
\* the quote.
THEOREM PaysOutAlways == SafeMargin => (Spec => []PaysOut)
<1> SUFFICES ASSUME SafeMargin PROVE Spec => []PaysOut
  OBVIOUS
<1>1. ASSUME PathInv, Built, NEW leg \in Legs PROVE Paid < orders[leg].taker
  <2> DEFINE size == opp.size
             y    == opp.ask["YES"]
             n    == opp.ask["NO"]
             pair == PaddedCombined(quote)
  <2>1. quote \in Quotes /\ IsOpportunity(quote)
    BY <1>1, BuiltOrders DEF PathInv
  <2>2. size \in Nat /\ MIN_SHARES <= size /\ MIN_SHARES \in Nat \ {0}
    BY <1>1, <2>1, BuiltOrders, SizeBounds, ConfigNat
  <2>3. quote.ask["YES"] \in Nat /\ quote.ask["NO"] \in Nat
    BY <2>1 DEF Quotes, Legs
  <2>4. y \in Nat /\ n \in Nat /\ pair = y + n
    BY <1>1, <2>3, BuiltOrders, PaddedBounds DEF PaddedCombined, Legs
  <2>5. pair \in Nat /\ pair <= UNIT - (Margin - 1) /\ Margin \in Nat
    BY <2>1, PairLeavesMargin
  <2>6. /\ orders["YES"].maker \in Nat /\ orders["NO"].maker \in Nat
        /\ orders["YES"].maker * 100 < y * size + CENT
        /\ orders["NO"].maker * 100 < n * size + CENT
    <3>1. ASSUME NEW l \in Legs
          PROVE  /\ orders[l].maker \in Nat
                 /\ orders[l].maker * 100 < opp.ask[l] * opp.size + CENT
      <4>1. opp.ask[l] \in Nat
        BY <2>4 DEF Legs
      <4>2. orders[l].maker = MakerAmount(opp.ask[l], opp.size)
        BY <1>1, BuiltOrders
      <4> QED
        BY <2>2, <4>1, <4>2, LegAmounts
    <3> QED
      BY <3>1 DEF Legs
  <2>7. orders[leg].taker = size * 100
    BY <1>1, BuiltOrders
  <2> HIDE DEF size, y, n, pair
  <2>8. MIN_SHARES * (Margin - 1) >= 2 * CENT
    BY DEF SafeMargin
  <2>9. Margin - 1 \in Nat
    BY <2>2, <2>5, <2>8, SMT DEF CENT
  <2>10. MIN_SHARES * (Margin - 1) <= size * (UNIT - pair)
    <3>1. UNIT - pair \in Nat /\ Margin - 1 <= UNIT - pair
      BY <2>5, <2>9, SMT DEF UNIT
    <3> QED
      BY <2>2, <2>9, <3>1, ProductMonotone
  <2>11. size * (UNIT - pair) = size * UNIT - (y * size + n * size)
    BY <2>2, <2>4, SMT DEF UNIT
  <2>12. /\ y * size \in Int /\ n * size \in Int /\ size * (UNIT - pair) \in Int
         /\ MIN_SHARES * (Margin - 1) \in Int
    BY <2>2, <2>4, <2>9, SMT DEF UNIT
  <2>13. (orders["YES"].maker + orders["NO"].maker) * 100 < size * UNIT
    BY <2>2, <2>6, <2>8, <2>10, <2>11, <2>12, SMT DEF CENT, UNIT
  <2> QED
    BY <2>2, <2>6, <2>7, <2>13, SMT DEF Paid, UNIT
<1>2. PathInv => PaysOut
  BY <1>1 DEF PaysOut
<1> QED
  BY <1>2, PathInvariance, PTL

\* With padding below the redline no leg pays more than the position, rounded
\* up to cents.  Not so beyond it: at a padding of 100 % a leg at 0.3 beside
\* one at 0.1 would pay 0.6 per share for a size that was fixed at 0.4.
THEOREM PositionRespected == SmallPadding => (Spec => []LegWithinPosition)
<1> SUFFICES ASSUME SmallPadding PROVE Spec => []LegWithinPosition
  OBVIOUS
<1>1. ASSUME PathInv, Built, NEW leg \in Legs
      PROVE  orders[leg].maker <= RoundedUp(MAX_POSITION, 100) * UNIT
  <2> DEFINE size   == opp.size
             ask    == opp.ask[leg]
             raw    == RawCombined(quote)
             cost   == ask * size
             cents  == RoundedUp(cost, CENT)
             limit  == RoundedUp(MAX_POSITION, 100)
  <2>1. quote \in Quotes /\ IsOpportunity(quote) /\ quote.ask[leg] \in Nat
    BY <1>1, BuiltOrders DEF PathInv, Quotes
  <2>2. size \in Nat /\ size = FinalSize(quote)
    BY <1>1, <2>1, BuiltOrders, SizeBounds
  <2>3. ask \in Nat /\ ask <= raw
    BY <1>1, <2>1, BuiltOrders, PaddedBounds, PaddedLegBelowPair
  <2>4. raw \in Nat \ {0} /\ size * raw <= MAX_POSITION * UNIT
    BY <2>1, <2>2, AffordablePair
  <2>5. orders[leg].maker = cents * UNIT
    <3>1. orders[leg].maker = MakerAmount(opp.ask[leg], opp.size)
      BY <1>1, BuiltOrders
    <3> QED
      BY <3>1 DEF MakerAmount
  <2>6. MAX_POSITION \in Nat
    BY ConfigNat
  <2> HIDE DEF size, ask, raw
  <2>7. cost \in Nat /\ cost <= MAX_POSITION * UNIT
    <3>1. ask * size <= raw * size
      BY <2>2, <2>3, <2>4, Scaled
    <3>2. raw * size = size * raw /\ ask * size \in Nat /\ size * raw \in Int
      BY <2>2, <2>3, <2>4, SMT
    <3> QED
      BY <2>4, <2>6, <3>1, <3>2, SMT DEF UNIT
  <2>8. limit \in Nat /\ limit * 100 >= MAX_POSITION
    BY <2>6, SMT DEF RoundedUp
  <2>9. cents \in Nat /\ cents * CENT < cost + CENT
    BY <2>7, RoundedUpCent
  <2> HIDE DEF cost, cents, limit
  <2>10. cents <= limit
    BY <2>6, <2>7, <2>8, <2>9, SMT DEF CENT, UNIT
  <2>11. cents * UNIT <= limit * UNIT
    BY <2>8, <2>9, <2>10, SMT DEF UNIT
  <2> QED
    BY <2>5, <2>11 DEF limit
<1>2. PathInv => LegWithinPosition
  BY <1>1 DEF LegWithinPosition
<1> QED
  BY <1>2, PathInvariance, PTL

\* A better quote is never refused, for every configuration and every grid.
THEOREM BetterAlwaysTaken == Spec => []BetterIsTaken
<1>1. PathInv => BetterIsTaken
  <2> SUFFICES ASSUME PathInv, opp # None,
                      NEW q \in [ask : [Legs -> Asks], size : [Legs -> Depths]],
                      Better(q, quote), AboveRedline(q)
               PROVE  IsOpportunity(q)
    BY DEF BetterIsTaken
  <2>1. q \in Quotes
    BY GridAssumption DEF Quotes
  <2>2. quote \in Quotes /\ IsOpportunity(quote)
    BY DEF PathInv, Derived
  <2> QED
    BY <2>1, <2>2, BetterQuoteTaken DEF Better
<1> QED
  BY <1>1, PathInvariance, PTL
=============================================================================

-------------------------------- MODULE Pricing --------------------------------
(***************************************************************************)
(* What the engine computes from the two best asks of a market: whether to *)
(* trade (analyze_unlocked, src/src/analyzer/mod.rs) and the amounts of    *)
(* the two orders it signs (build_buy_order, src/src/signer/mod.rs).       *)
(*                                                                         *)
(* Decimals are integers: prices in 1/10000 USDC, shares in 1/10000 share, *)
(* so a price times a size counts 10^-8 USDC.  The code's divisions are    *)
(* compared after multiplying out, which is exact for such inputs.         *)
(***************************************************************************)
EXTENDS Integers

CONSTANTS
  THRESHOLD,     \* min_profit_threshold, in 1/10000
  PADDING,       \* slippage_padding, in 1/10000
  COEFFICIENT,   \* liquidity_coefficient, in percent
  MAX_POSITION,  \* max_position_size, in 1/10000 USDC
  MIN_SHARES     \* min_share_threshold, in 1/10000 share

\* Config.load replaces 0 by a default, so none of them is 0; a negative
\* setting is not modelled.
ASSUME PricingAssumption ==
  {THRESHOLD, PADDING, COEFFICIENT, MAX_POSITION, MIN_SHARES} \subseteq Nat \ {0}

Legs      == {"YES", "NO"}
UNIT      == 10000        \* one USDC, one share
CENT      == 1000000      \* 0.01 USDC in units of a price times a size
MIN_PRICE == 800          \* min_price

Quotes == [ask : [Legs -> Nat], size : [Legs -> Nat]]

Smaller(a, b) == IF a <= b THEN a ELSE b
\* RoundingStrategy::AwayFromZero on amounts that are not negative.
RoundedUp(a, b) == (a + b - 1) \div b

-----------------------------------------------------------------------------
\* ---- analyze_unlocked ----

RawCombined(q) == q.ask["YES"] + q.ask["NO"]

\* "Rational Redline": neither ask is below min_price.
AboveRedline(q) == \A leg \in Legs : q.ask[leg] >= MIN_PRICE

\* Mutated RawProfitable: any profit will do.
AnyProfit(q) == RawCombined(q) < UNIT

\* (1 - raw) / raw >= min_profit_threshold.
RawProfitable(q) ==
  /\ RawCombined(q) < UNIT
  /\ (UNIT - RawCombined(q)) * UNIT >= THRESHOLD * RawCombined(q)

\* Mutated AvailableShares: only the YES depth is looked at.
YesDepth(q) == (q.size["YES"] * COEFFICIENT) \div 100

\* Truncated here: the minimum below commutes with the code's later trunc().
AvailableShares(q) == (Smaller(q.size["YES"], q.size["NO"]) * COEFFICIENT) \div 100

\* Mutated Affordable: multiplied where the code divides.
AffordableInverted(q) == (MAX_POSITION * RawCombined(q)) \div UNIT

\* Mutated Affordable: each leg alone may take the whole position.
AffordablePerLeg(q) == (MAX_POSITION * UNIT) \div Smaller(q.ask["YES"], q.ask["NO"])

Affordable(q) == (MAX_POSITION * UNIT) \div RawCombined(q)

FinalSize(q) == Smaller(AvailableShares(q), Affordable(q))

Padded(ask) == RoundedUp(ask * (UNIT + PADDING), UNIT)

PaddedCombined(q) == Padded(q.ask["YES"]) + Padded(q.ask["NO"])

\* MIN_SHARES is whole, so testing it after the truncation changes nothing,
\* and it is not 0, so neither does the code's test of final_size.
IsOpportunity(q) ==
  /\ AboveRedline(q)
  /\ RawProfitable(q)
  /\ FinalSize(q) >= MIN_SHARES
  /\ PaddedCombined(q) < UNIT

\* yes_ask and no_ask (padded), max_trade_size.
Opportunity(q) ==
  [ask |-> [leg \in Legs |-> Padded(q.ask[leg])], size |-> FinalSize(q)]

-----------------------------------------------------------------------------
\* ---- build_buy_order, once per leg ----

\* Mutated MakerAmount: truncated to cents instead of rounded up.
MakerTruncated(price, size) == ((price * size) \div CENT) * UNIT

\* USDC to pay, rounded up to cents, in micro-USDC (to_token_decimals).
MakerAmount(price, size) == RoundedUp(price * size, CENT) * UNIT

\* Shares to get, in millionths; the size is already truncated to 4 places.
TakerAmount(size) == size * 100

Order(price, size) == [maker |-> MakerAmount(price, size), taker |-> TakerAmount(size)]
=============================================================================

----------------------------- MODULE PricingProofs -----------------------------
(***************************************************************************)
(* Facts about the operators of Pricing, for every configuration and every *)
(* quote: what rounding, padding and sizing return and how far they move.  *)
(***************************************************************************)
EXTENDS Pricing, TLAPS

\* What the threshold leaves of a dollar after both asks are padded: at least
\* this many 1/10000 USDC per share, less one for the rounding of the asks.
Margin == (UNIT * (THRESHOLD - PADDING)) \div (UNIT + THRESHOLD)

\* The margin of the smallest trade is worth the two cents that rounding the
\* maker amounts may add.  True of Config.load's defaults (83 * 50000).
SafeMargin == THRESHOLD >= PADDING /\ MIN_SHARES * (Margin - 1) >= 2 * CENT

-----------------------------------------------------------------------------
\* ---- Arithmetic ----

\* Products of natural numbers grow with a factor.
LEMMA Scaled ==
  ASSUME NEW a \in Nat, NEW b \in Nat, NEW c \in Nat, a <= b
  PROVE  a * c <= b * c
BY SMT

\* Both factors.
LEMMA ProductMonotone ==
  ASSUME NEW a \in Nat, NEW b \in Nat, NEW c \in Nat, NEW d \in Nat, a <= b, c <= d
  PROVE  a * c <= b * d
<1>1. a * c <= b * c
  BY Scaled
<1>2. b * c <= b * d
  BY SMT
<1> QED
  BY <1>1, <1>2

\* Products of sums.
LEMMA Distribute ==
  ASSUME NEW a \in Int, NEW b \in Int, NEW c \in Int
  PROVE  /\ a * (b + c) = a * b + c * a
         /\ (a + b) * c = a * c + b * c
BY SMT

\* A common factor can be dropped.
LEMMA Cancel ==
  ASSUME NEW a \in Int, NEW b \in Int, NEW c \in Nat \ {0}, a * c <= b * c
  PROVE  a <= b
BY SMT

\* Rounding up to a whole number of units or of cents.
LEMMA RoundedUpUnit ==
  ASSUME NEW a \in Nat
  PROVE  /\ RoundedUp(a, UNIT) \in Nat
         /\ RoundedUp(a, UNIT) * UNIT >= a
         /\ RoundedUp(a, UNIT) * UNIT < a + UNIT
BY SMT DEF RoundedUp, UNIT

\* The same for cents.
LEMMA RoundedUpCent ==
  ASSUME NEW a \in Nat
  PROVE  /\ RoundedUp(a, CENT) \in Nat
         /\ RoundedUp(a, CENT) * CENT >= a
         /\ RoundedUp(a, CENT) * CENT < a + CENT
BY SMT DEF RoundedUp, CENT

\* No setting is 0 (Config.load's defaults).
LEMMA ConfigNat ==
  /\ THRESHOLD \in Nat \ {0} /\ PADDING \in Nat \ {0} /\ COEFFICIENT \in Nat \ {0}
  /\ MAX_POSITION \in Nat \ {0} /\ MIN_SHARES \in Nat \ {0}
BY PricingAssumption

\* A padded ask is not below the ask, and above its exact value by less than
\* 1/10000.
LEMMA PaddedBounds ==
  ASSUME NEW ask \in Nat
  PROVE  /\ Padded(ask) \in Nat
         /\ Padded(ask) >= ask
         /\ Padded(ask) * UNIT < ask * (UNIT + PADDING) + UNIT
<1> DEFINE exact == ask * (UNIT + PADDING)
<1>1. exact \in Nat /\ ask * UNIT <= exact
  BY ConfigNat, SMT DEF UNIT
<1>2. /\ Padded(ask) \in Nat
      /\ Padded(ask) * UNIT >= exact
      /\ Padded(ask) * UNIT < exact + UNIT
  BY <1>1, RoundedUpUnit DEF Padded
<1>3. Padded(ask) >= ask
  BY <1>1, <1>2, SMT DEF UNIT
<1> QED
  BY <1>2, <1>3

-----------------------------------------------------------------------------
\* ---- Decisions ----

\* A trade is at least the minimum and at most its share of either depth.
LEMMA SizeBounds ==
  ASSUME NEW q \in Quotes, IsOpportunity(q)
  PROVE  /\ FinalSize(q) \in Nat
         /\ FinalSize(q) >= MIN_SHARES
         /\ \A leg \in Legs : FinalSize(q) * 100 <= q.size[leg] * COEFFICIENT
<1> DEFINE thin == Smaller(q.size["YES"], q.size["NO"])
<1>1. thin \in Nat /\ \A leg \in Legs : q.size[leg] \in Nat /\ thin <= q.size[leg]
  BY SMT DEF Quotes, Legs, Smaller
<1>2. AvailableShares(q) \in Nat /\ AvailableShares(q) * 100 <= thin * COEFFICIENT
  <2>1. thin * COEFFICIENT \in Nat
    BY <1>1, ConfigNat, SMT
  <2>2. AvailableShares(q) = (thin * COEFFICIENT) \div 100
    BY DEF AvailableShares
  <2> HIDE DEF thin
  <2> QED
    BY <2>1, <2>2, SMT
<1>3. RawCombined(q) \in Nat \ {0}
  BY SMT DEF IsOpportunity, AboveRedline, MIN_PRICE, RawCombined, Quotes, Legs
<1>4. Affordable(q) \in Int
  <2>1. MAX_POSITION * UNIT \in Nat
    BY ConfigNat, SMT DEF UNIT
  <2> QED
    BY <1>3, <2>1, SMT DEF Affordable
<1>5. FinalSize(q) >= MIN_SHARES
  BY DEF IsOpportunity
<1>6. FinalSize(q) \in Nat /\ FinalSize(q) <= AvailableShares(q)
  BY <1>2, <1>4, <1>5, ConfigNat, SMT DEF FinalSize, Smaller
<1>7. ASSUME NEW leg \in Legs PROVE thin * COEFFICIENT <= q.size[leg] * COEFFICIENT
  <2> HIDE DEF thin
  <2> QED
    BY <1>1, ConfigNat, ProductMonotone
<1>8. ASSUME NEW leg \in Legs PROVE FinalSize(q) * 100 <= q.size[leg] * COEFFICIENT
  <2>1. /\ thin * COEFFICIENT \in Int /\ q.size[leg] * COEFFICIENT \in Int
    <3> HIDE DEF thin
    <3> QED
      BY <1>1, ConfigNat, SMT
  <2> HIDE DEF thin
  <2> QED
    BY <1>2, <1>6, <1>7, <2>1, SMT
<1> QED
  BY <1>5, <1>6, <1>8

\* Under SafeMargin an opportunity's padded pair leaves Margin - 1 per share.
LEMMA PairLeavesMargin ==
  ASSUME NEW q \in Quotes, IsOpportunity(q), SafeMargin
  PROVE  PaddedCombined(q) \in Nat /\ PaddedCombined(q) <= UNIT - (Margin - 1) /\ Margin \in Nat
<1> DEFINE raw   == RawCombined(q)
           pair  == PaddedCombined(q)
           kept  == UNIT - Margin
<1>1. /\ q.ask["YES"] \in Nat /\ q.ask["NO"] \in Nat /\ raw \in Nat
      /\ raw = q.ask["YES"] + q.ask["NO"]
  BY SMT DEF Quotes, Legs, RawCombined
<1>2. pair \in Nat /\ pair * UNIT < raw * (UNIT + PADDING) + 2 * UNIT
  <2>1. /\ Padded(q.ask["YES"]) \in Nat
        /\ Padded(q.ask["YES"]) * UNIT < q.ask["YES"] * (UNIT + PADDING) + UNIT
    BY <1>1, PaddedBounds
  <2>2. /\ Padded(q.ask["NO"]) \in Nat
        /\ Padded(q.ask["NO"]) * UNIT < q.ask["NO"] * (UNIT + PADDING) + UNIT
    BY <1>1, PaddedBounds
  <2>3. raw * (UNIT + PADDING) = q.ask["YES"] * (UNIT + PADDING) + q.ask["NO"] * (UNIT + PADDING)
    <3>1. UNIT + PADDING \in Int
      BY ConfigNat, SMT DEF UNIT
    <3> HIDE DEF raw
    <3> QED
      BY <1>1, <3>1, Distribute
  <2>4. pair = Padded(q.ask["YES"]) + Padded(q.ask["NO"])
    BY DEF PaddedCombined
  <2>5. /\ q.ask["YES"] * (UNIT + PADDING) \in Int /\ q.ask["NO"] * (UNIT + PADDING) \in Int
    BY <1>1, ConfigNat, SMT DEF UNIT
  <2> HIDE DEF raw, pair
  <2> QED
    BY <2>1, <2>2, <2>3, <2>4, <2>5, SMT DEF UNIT
<1>3. raw * (UNIT + THRESHOLD) <= UNIT * UNIT
  <2>1. (UNIT - raw) * UNIT >= THRESHOLD * raw
    BY DEF IsOpportunity, RawProfitable
  <2>2. raw * (UNIT + THRESHOLD) = raw * UNIT + THRESHOLD * raw
    <3>1. UNIT \in Int /\ THRESHOLD \in Int
      BY ConfigNat, SMT DEF UNIT
    <3> HIDE DEF raw
    <3> QED
      BY <1>1, <3>1, Distribute
  <2>3. THRESHOLD * raw \in Int
    BY <1>1, ConfigNat, SMT
  <2> HIDE DEF raw
  <2> QED
    BY <1>1, <2>1, <2>2, <2>3, SMT DEF UNIT
<1>4. Margin \in Nat /\ Margin * (UNIT + THRESHOLD) <= UNIT * (THRESHOLD - PADDING)
  <2> DEFINE num == UNIT * (THRESHOLD - PADDING)
             den == UNIT + THRESHOLD
  <2>1. num \in Nat /\ den \in Nat \ {0}
    BY ConfigNat, SMT DEF UNIT, SafeMargin
  <2>2. Margin = num \div den
    BY DEF Margin
  <2> HIDE DEF num, den
  <2>3. num \div den \in Nat /\ (num \div den) * den <= num
    BY <2>1, SMT
  <2> QED
    BY <2>2, <2>3 DEF num, den
<1>5. raw * (UNIT + PADDING) <= UNIT * kept
  <2> DEFINE T == UNIT + THRESHOLD
             P == UNIT + PADDING
  <2>1. T \in Nat \ {0} /\ P \in Nat
    BY ConfigNat, SMT DEF UNIT
  <2>2. (raw * P) * T = (raw * T) * P
    <3> HIDE DEF raw, T, P
    <3> QED
      BY <1>1, <2>1, SMT
  <2>3. (raw * T) * P <= (UNIT * UNIT) * P
    <3>1. raw * T \in Nat
      <4> HIDE DEF raw, T
      <4> QED BY <1>1, <2>1, SMT
    <3>2. raw * T <= UNIT * UNIT
      BY <1>3
    <3>3. UNIT * UNIT \in Nat
      BY SMT DEF UNIT
    <3> HIDE DEF raw, T, P
    <3> QED
      BY <2>1, <3>1, <3>2, <3>3, ProductMonotone, SMT
  <2>4. (UNIT * kept) * T = UNIT * (UNIT * T) - UNIT * (Margin * T)
    <3> HIDE DEF T
    <3> QED
      BY <1>4, <2>1, SMT DEF UNIT
  <2>5. UNIT * (Margin * T) <= UNIT * (UNIT * (THRESHOLD - PADDING))
    <3>1. Margin * T \in Int
      <4> HIDE DEF T
      <4> QED BY <1>4, <2>1, SMT
    <3>2. Margin * T <= UNIT * (THRESHOLD - PADDING)
      BY <1>4
    <3> HIDE DEF T
    <3> QED
      BY <3>1, <3>2, ConfigNat, SMT DEF UNIT
  <2>6. UNIT * (UNIT * T) - UNIT * (UNIT * (THRESHOLD - PADDING)) = (UNIT * UNIT) * P
    BY ConfigNat, SMT DEF UNIT
  <2>7. (raw * P) * T <= (UNIT * kept) * T
    <3>1. /\ UNIT * (Margin * T) \in Int /\ UNIT * (UNIT * T) \in Int
          /\ UNIT * (UNIT * (THRESHOLD - PADDING)) \in Int /\ (raw * T) * P \in Int
          /\ (UNIT * UNIT) * P \in Int
      <4>1. Margin * T \in Int /\ (raw * T) * P \in Int
        <5> HIDE DEF raw, T, P
        <5> QED BY <1>1, <1>4, <2>1, SMT
      <4> QED
        BY <4>1, <2>1, ConfigNat, SMT DEF UNIT
    <3> HIDE DEF raw, T, P, kept
    <3> QED
      BY <2>2, <2>3, <2>4, <2>5, <2>6, <3>1, SMT
  <2>8. raw * P \in Int /\ UNIT * kept \in Int
    <3>1. UNIT * kept \in Int
      BY <1>4, SMT DEF UNIT
    <3> HIDE DEF raw, P
    <3> QED
      BY <1>1, <2>1, <3>1, SMT
  <2> HIDE DEF raw, T, kept
  <2>9. raw * P <= UNIT * kept
    BY <2>1, <2>7, <2>8, Cancel
  <2> QED
    BY <2>9
<1>6. pair * UNIT < UNIT * kept + 2 * UNIT
  <2>1. raw * (UNIT + PADDING) \in Int /\ kept \in Int
    BY <1>1, <1>4, ConfigNat, SMT DEF UNIT
  <2> HIDE DEF raw, pair, kept
  <2> QED
    BY <1>2, <1>5, <2>1, SMT DEF UNIT
<1> HIDE DEF pair
<1>7. pair <= UNIT - (Margin - 1)
  BY <1>2, <1>4, <1>6, SMT DEF UNIT
<1> QED
  BY <1>2, <1>4, <1>7 DEF pair

-----------------------------------------------------------------------------
\* ---- The two orders of an opportunity ----

\* What one leg pays lies less than a cent above price times size.
LEMMA LegAmounts ==
  ASSUME NEW price \in Nat, NEW size \in Nat
  PROVE  /\ MakerAmount(price, size) \in Nat
         /\ MakerAmount(price, size) * 100 >= price * size
         /\ MakerAmount(price, size) * 100 < price * size + CENT
<1> DEFINE cost  == price * size
           cents == RoundedUp(cost, CENT)
<1>1. cost \in Nat
  BY SMT
<1>2. cents \in Nat /\ cents * CENT >= cost /\ cents * CENT < cost + CENT
  BY <1>1, RoundedUpCent
<1>3. MakerAmount(price, size) = cents * UNIT
  BY DEF MakerAmount
<1> HIDE DEF cents, cost
<1>4. /\ MakerAmount(price, size) \in Nat
      /\ MakerAmount(price, size) * 100 >= cost
      /\ MakerAmount(price, size) * 100 < cost + CENT
  BY <1>1, <1>2, <1>3, SMT DEF CENT, UNIT
<1> QED
  BY <1>4 DEF cost

-----------------------------------------------------------------------------
\* ---- Monotonicity ----

\* A larger divisor gives a smaller quotient.
LEMMA QuotientAntitone ==
  ASSUME NEW n \in Nat, NEW a \in Nat \ {0}, NEW b \in Nat \ {0}, b <= a
  PROVE  n \div a \in Nat /\ n \div b \in Nat /\ n \div a <= n \div b
<1> DEFINE big   == n \div b
           small == n \div a
<1>1. /\ small \in Nat /\ small * a <= n
      /\ big \in Nat /\ n < big * b + b
  BY SMT
<1> HIDE DEF big, small
<1>2. b * small <= a * small
  BY <1>1, Scaled
<1>3. a * small = small * a /\ b * small = small * b /\ (big + 1) * b = big * b + b
  BY <1>1, SMT
<1>4. small * a \in Int /\ small * b \in Int /\ big * b \in Int /\ (big + 1) * b \in Int
  BY <1>1, SMT
<1>5. small * b < (big + 1) * b
  BY <1>1, <1>2, <1>3, <1>4, SMT
<1>6. small < big + 1
  <2> SUFFICES ASSUME big + 1 <= small PROVE FALSE
    BY <1>1, SMT
  <2>1. (big + 1) * b <= small * b
    BY <1>1, Scaled
  <2> QED
    BY <1>4, <1>5, <2>1, SMT
<1> QED
  BY <1>1, <1>6, SMT DEF big, small

\* A lower ask is not padded to a higher one.
LEMMA PaddedMonotone ==
  ASSUME NEW a \in Nat, NEW b \in Nat, a <= b
  PROVE  Padded(a) <= Padded(b)
<1> DEFINE x == a * (UNIT + PADDING)
           y == b * (UNIT + PADDING)
<1>1. UNIT + PADDING \in Nat
  BY ConfigNat, SMT DEF UNIT
<1>2. x \in Nat /\ y \in Nat
  BY <1>1, SMT
<1>3. x <= y
  BY <1>1, Scaled
<1>4. Padded(a) = RoundedUp(x, UNIT) /\ Padded(b) = RoundedUp(y, UNIT)
  BY DEF Padded
<1> HIDE DEF x, y
<1> QED
  BY <1>2, <1>3, <1>4, SMT DEF RoundedUp, UNIT

\* A better quote: lower asks, more depth.
LEMMA BetterQuoteTaken ==
  ASSUME NEW q \in Quotes, NEW r \in Quotes, IsOpportunity(r), AboveRedline(q),
         \A leg \in Legs : q.ask[leg] <= r.ask[leg] /\ q.size[leg] >= r.size[leg]
  PROVE  IsOpportunity(q)
<1>1. \A leg \in Legs : /\ q.ask[leg] \in Nat /\ r.ask[leg] \in Nat
                        /\ q.size[leg] \in Nat /\ r.size[leg] \in Nat
  BY DEF Quotes
<1>2. /\ RawCombined(q) \in Nat \ {0} /\ RawCombined(r) \in Nat \ {0}
      /\ RawCombined(q) <= RawCombined(r)
  BY <1>1, SMT DEF RawCombined, AboveRedline, IsOpportunity, MIN_PRICE, Legs
<1>3. RawProfitable(q)
  <2> DEFINE a == RawCombined(q)
             b == RawCombined(r)
  <2>1. b < UNIT /\ (UNIT - b) * UNIT >= THRESHOLD * b
    BY DEF IsOpportunity, RawProfitable
  <2>2. a * THRESHOLD <= b * THRESHOLD
    BY <1>2, ConfigNat, Scaled
  <2>3. THRESHOLD * a = a * THRESHOLD /\ THRESHOLD * b = b * THRESHOLD
        /\ a * THRESHOLD \in Int /\ b * THRESHOLD \in Int
    BY <1>2, ConfigNat, SMT
  <2>4. a \in Nat /\ b \in Nat /\ a <= b
    BY <1>2
  <2>5. RawProfitable(q) <=> a < UNIT /\ (UNIT - a) * UNIT >= THRESHOLD * a
    BY DEF RawProfitable
  <2> HIDE DEF a, b
  <2> QED
    BY <2>1, <2>2, <2>3, <2>4, <2>5, SMT DEF UNIT
<1>4. AvailableShares(q) \in Int /\ AvailableShares(r) \in Int /\ AvailableShares(r) <= AvailableShares(q)
  <2> DEFINE x == Smaller(q.size["YES"], q.size["NO"])
             y == Smaller(r.size["YES"], r.size["NO"])
  <2>1. x \in Nat /\ y \in Nat /\ y <= x
    BY <1>1, SMT DEF Smaller, Legs
  <2>2. /\ AvailableShares(q) = (x * COEFFICIENT) \div 100
        /\ AvailableShares(r) = (y * COEFFICIENT) \div 100
    BY DEF AvailableShares
  <2> HIDE DEF x, y
  <2>3. x * COEFFICIENT \in Nat /\ y * COEFFICIENT \in Nat /\ y * COEFFICIENT <= x * COEFFICIENT
    <3>1. x * COEFFICIENT \in Nat /\ y * COEFFICIENT \in Nat
      BY <2>1, ConfigNat, SMT
    <3> QED
      BY <2>1, <3>1, ConfigNat, Scaled
  <2> QED
    BY <2>2, <2>3, SMT
<1>5. Affordable(q) \in Int /\ Affordable(r) \in Int /\ Affordable(r) <= Affordable(q)
  <2>1. MAX_POSITION * UNIT \in Nat
    BY ConfigNat, SMT DEF UNIT
  <2> QED
    BY <1>2, <2>1, QuotientAntitone DEF Affordable
<1>6. FinalSize(q) >= MIN_SHARES
  BY <1>4, <1>5, ConfigNat, SMT DEF IsOpportunity, FinalSize, Smaller
<1>7. PaddedCombined(q) < UNIT
  <2>1. ASSUME NEW leg \in Legs
        PROVE  /\ Padded(q.ask[leg]) \in Nat /\ Padded(r.ask[leg]) \in Nat
               /\ Padded(q.ask[leg]) <= Padded(r.ask[leg])
    BY <1>1, PaddedBounds, PaddedMonotone
  <2>2. PaddedCombined(r) < UNIT
    BY DEF IsOpportunity
  <2> QED
    BY <2>1, <2>2, SMT DEF PaddedCombined, Legs, UNIT
<1> QED
  BY <1>3, <1>6, <1>7 DEF IsOpportunity

-----------------------------------------------------------------------------
\* ---- The position ----

\* The padding is below the redline, as the defaults have it: padding one ask
\* then adds less than the other one costs.
SmallPadding == PADDING <= MIN_PRICE

\* One padded leg costs no more than both legs did before padding.
LEMMA PaddedLegBelowPair ==
  ASSUME NEW q \in Quotes, IsOpportunity(q), SmallPadding, NEW leg \in Legs
  PROVE  Padded(q.ask[leg]) <= RawCombined(q)
<1> DEFINE a     == q.ask[leg]
           other == q.ask[CHOOSE l \in Legs : l # leg]
<1>1. \A l \in Legs : q.ask[l] \in Nat /\ q.ask[l] >= MIN_PRICE
  BY DEF Quotes, IsOpportunity, AboveRedline
<1>2. a \in Nat /\ other \in Nat /\ other >= MIN_PRICE /\ RawCombined(q) = a + other
  <2>1. CASE leg = "YES"
    <3>1. (CHOOSE l \in Legs : l # leg) = "NO"
      BY <2>1 DEF Legs
    <3> QED
      BY <1>1, <2>1, <3>1 DEF RawCombined, Legs
  <2>2. CASE leg = "NO"
    <3>1. (CHOOSE l \in Legs : l # leg) = "YES"
      BY <2>2 DEF Legs
    <3> QED
      BY <1>1, <2>2, <3>1, SMT DEF RawCombined, Legs
  <2> QED
    BY <2>1, <2>2 DEF Legs
<1>3. a + other < UNIT
  BY <1>2 DEF IsOpportunity, RawProfitable
<1>4. Padded(a) \in Nat /\ Padded(a) * UNIT < a * (UNIT + PADDING) + UNIT
  BY <1>2, PaddedBounds
<1> HIDE DEF a, other
<1>5. a <= 9200 /\ PADDING \in Nat /\ PADDING <= 800
  BY <1>2, <1>3, ConfigNat, SMT DEF UNIT, MIN_PRICE, SmallPadding
<1>6. a * PADDING <= 9200 * 800
  BY <1>2, <1>5, ProductMonotone
<1>7. a * (UNIT + PADDING) = a * UNIT + a * PADDING /\ a * PADDING \in Int
  BY <1>2, <1>5, SMT DEF UNIT
<1>8. Padded(a) <= a + other
  BY <1>2, <1>4, <1>6, <1>7, SMT DEF UNIT, MIN_PRICE
<1> QED
  BY <1>2, <1>8 DEF a

\* What is bought of an opportunity never costs more than the position before
\* padding.
LEMMA AffordablePair ==
  ASSUME NEW q \in Quotes, IsOpportunity(q)
  PROVE  RawCombined(q) \in Nat \ {0} /\ FinalSize(q) * RawCombined(q) <= MAX_POSITION * UNIT
<1> DEFINE raw    == RawCombined(q)
           budget == MAX_POSITION * UNIT
<1>1. raw \in Nat \ {0}
  BY SMT DEF IsOpportunity, AboveRedline, MIN_PRICE, RawCombined, Quotes, Legs
<1>2. budget \in Nat
  BY ConfigNat, SMT DEF UNIT
<1>3. Affordable(q) = budget \div raw
  BY DEF Affordable
<1>4. FinalSize(q) \in Nat
  BY SizeBounds
<1> HIDE DEF raw, budget
<1>5. Affordable(q) \in Nat /\ Affordable(q) * raw <= budget
  BY <1>1, <1>2, <1>3, SMT
<1>6. FinalSize(q) <= Affordable(q)
  <2>1. AvailableShares(q) \in Int
    <3>1. Smaller(q.size["YES"], q.size["NO"]) \in Nat
      BY SMT DEF Quotes, Legs, Smaller
    <3>2. Smaller(q.size["YES"], q.size["NO"]) * COEFFICIENT \in Nat
      BY <3>1, ConfigNat, SMT
    <3> QED
      BY <3>2, SMT DEF AvailableShares
  <2> QED
    BY <1>5, <2>1, SMT DEF FinalSize, Smaller
<1>7. FinalSize(q) * raw <= Affordable(q) * raw
  BY <1>1, <1>4, <1>5, <1>6, Scaled
<1>8. FinalSize(q) * raw \in Int /\ Affordable(q) * raw \in Int
  BY <1>1, <1>4, <1>5, SMT
<1>9. FinalSize(q) * raw <= budget
  BY <1>2, <1>5, <1>7, <1>8, SMT
<1> QED
  BY <1>1, <1>9 DEF raw, budget
=============================================================================

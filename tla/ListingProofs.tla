------------------------------ MODULE ListingProofs ------------------------------
(***************************************************************************)
(* What a fetch brings from a list that moves, and that the filters hold,  *)
(* for every list, page size, environment and number of changes.           *)
(***************************************************************************)
EXTENDS Listing, SequenceTheorems, FiniteSetTheorems, TLAPS

RawMarkets == Newcomers \cup (UNION {ToSet(list) : list \in Servers})

Results == {None} \cup {Market(raw) : raw \in RawMarkets}

\* ---- The inductive invariant ----

ListTypes ==
  /\ TypeOK
  /\ env \in Environments
  /\ server \in Seq(RawMarkets)
  /\ markets \in Seq(Results) /\ loaded \in Seq(Results)

\* Gamma lists a market once.
OnceListed == \A i, j \in 1..Len(server) : server[i] = server[j] => i = j

\* While the list stands still, what is fetched is what stands before the
\* offset.
FetchedSoFar ==
  fetching /\ steady =>
    /\ Len(markets) = offset
    /\ \A k \in 1..offset : markets[k] = ConvertMarket(server[k])

\* What stands before the offset was fetched, unless it was skipped or joined.
Passed ==
  \A i \in 1..Len(server) :
    i <= offset /\ server[i] \notin joined \cup skipped
      => ConvertMarket(server[i]) \in ToSet(markets)

\* What was fetched does not stand behind the offset, unless it was turned
\* back or joined.
NotAhead ==
  fetching =>
    \A k \in 1..Len(markets) : \A i \in 1..Len(server) :
      markets[k] # None /\ i > offset /\ markets[k].raw = server[i]
        => server[i] \in joined \cup turned

Twice(list, k, l) == k < l /\ list[k] = list[l] /\ list[k] # None

\* Nothing was fetched twice, with the same exceptions.
FetchedOnce ==
  fetching =>
    \A k, l \in 1..Len(markets) : Twice(markets, k, l) => markets[k].raw \in joined \cup turned

\* m passed the filters.
Genuine(m) == \E raw \in RawMarkets : m = Market(raw) /\ Accepted(raw)

Filtered ==
  /\ \A k \in 1..Len(markets) : markets[k] # None => Genuine(markets[k])
  /\ \A k \in 1..Len(loaded) : loaded[k] # None => Genuine(loaded[k])

ListInv ==
  ListTypes /\ OnceListed /\ FetchedSoFar /\ Passed /\ NotAhead /\ FetchedOnce /\ Filtered

-----------------------------------------------------------------------------
\* ---- Sequences ----

\* The elements of a sequence are those at its positions.
LEMMA ElementsOf ==
  ASSUME NEW S, NEW s \in Seq(S)
  PROVE  /\ Len(s) \in Nat /\ DOMAIN s = 1..Len(s)
         /\ \A i \in 1..Len(s) : s[i] \in S /\ s[i] \in ToSet(s)
         /\ \A x \in ToSet(s) : \E i \in 1..Len(s) : x = s[i]
<1>1. Len(s) \in Nat /\ DOMAIN s = 1..Len(s)
  BY LenProperties
<1>2. \A i \in 1..Len(s) : s[i] \in S
  BY ElementOfSeq
<1> QED
  BY <1>1, <1>2 DEF ToSet

\* Where the elements stand after one is inserted.
LEMMA InsertShape ==
  ASSUME NEW S, NEW s \in Seq(S), NEW e \in S, NEW i \in 1..Len(s) + 1
  PROVE  /\ InsertAt(s, i, e) \in Seq(S)
         /\ Len(InsertAt(s, i, e)) = Len(s) + 1
         /\ \A j \in 1..Len(s) + 1 :
              InsertAt(s, i, e)[j] = IF j < i THEN s[j] ELSE IF j = i THEN e ELSE s[j - 1]
<1> DEFINE front == SubSeq(s, 1, i - 1)
           back  == SubSeq(s, i, Len(s))
           left  == front \o <<e>>
<1>1. Len(s) \in Nat /\ i \in Nat /\ 1 <= i /\ i <= Len(s) + 1
  BY ElementsOf, SMT
<1>2. /\ front \in Seq(S) /\ Len(front) = i - 1
      /\ \A j \in 1..i - 1 : front[j] = s[j]
  <2>1. \A j \in 1..i - 1 : s[j] \in S
    BY <1>1, ElementsOf, SMT
  <2> QED
    BY <1>1, <2>1, SubSeqProperties, SMT
<1>3. /\ back \in Seq(S) /\ Len(back) = Len(s) - i + 1
      /\ \A j \in 1..Len(s) - i + 1 : back[j] = s[i + j - 1]
  <2>1. \A j \in i..Len(s) : s[j] \in S
    BY <1>1, ElementsOf, SMT
  <2> QED
    BY <1>1, <2>1, SubSeqProperties, SMT
<1>4. <<e>> \in Seq(S) /\ Len(<<e>>) = 1 /\ <<e>>[1] = e
  BY SMT
<1> HIDE DEF front, back
<1>5. /\ left \in Seq(S) /\ Len(left) = i
      /\ \A j \in 1..i : left[j] = IF j < i THEN s[j] ELSE e
  <2>1. /\ front \o <<e>> \in Seq(S) /\ Len(front \o <<e>>) = Len(front) + Len(<<e>>)
        /\ \A j \in 1..Len(front) + Len(<<e>>) :
             (front \o <<e>>)[j] = IF j <= Len(front) THEN front[j] ELSE <<e>>[j - Len(front)]
    BY <1>2, <1>4, ConcatProperties
  <2> QED
    BY <1>1, <1>2, <1>4, <2>1, SMT
<1> HIDE DEF left
<1>6. /\ left \o back \in Seq(S) /\ Len(left \o back) = Len(left) + Len(back)
      /\ \A j \in 1..Len(left) + Len(back) :
           (left \o back)[j] = IF j <= Len(left) THEN left[j] ELSE back[j - Len(left)]
  BY <1>3, <1>5, ConcatProperties
<1>7. InsertAt(s, i, e) = left \o back
  BY DEF InsertAt, left, front, back
<1> QED
  BY <1>1, <1>3, <1>5, <1>6, <1>7, SMT

\* Where they stand after one is removed.
LEMMA RemoveShape ==
  ASSUME NEW S, NEW s \in Seq(S), NEW i \in 1..Len(s)
  PROVE  /\ RemoveAt(s, i) \in Seq(S)
         /\ Len(RemoveAt(s, i)) = Len(s) - 1
         /\ \A j \in 1..Len(s) - 1 : RemoveAt(s, i)[j] = IF j < i THEN s[j] ELSE s[j + 1]
<1> DEFINE front == SubSeq(s, 1, i - 1)
           back  == SubSeq(s, i + 1, Len(s))
<1>1. Len(s) \in Nat /\ i \in Nat /\ 1 <= i /\ i <= Len(s)
  BY ElementsOf, SMT
<1>2. /\ front \in Seq(S) /\ Len(front) = i - 1
      /\ \A j \in 1..i - 1 : front[j] = s[j]
  <2>1. \A j \in 1..i - 1 : s[j] \in S
    BY <1>1, ElementsOf, SMT
  <2> QED
    BY <1>1, <2>1, SubSeqProperties, SMT
<1>3. /\ back \in Seq(S) /\ Len(back) = Len(s) - i
      /\ \A j \in 1..Len(s) - i : back[j] = s[i + j]
  <2>1. \A j \in i + 1..Len(s) : s[j] \in S
    BY <1>1, ElementsOf, SMT
  <2> QED
    BY <1>1, <2>1, SubSeqProperties, SMT
<1> HIDE DEF front, back
<1>4. /\ front \o back \in Seq(S) /\ Len(front \o back) = Len(front) + Len(back)
      /\ \A j \in 1..Len(front) + Len(back) :
           (front \o back)[j] = IF j <= Len(front) THEN front[j] ELSE back[j - Len(front)]
  BY <1>2, <1>3, ConcatProperties
<1>5. RemoveAt(s, i) = front \o back
  BY DEF RemoveAt, front, back
<1>6. Len(front) + Len(back) = Len(s) - 1
  BY <1>1, <1>2, <1>3, SMT
<1>7. ASSUME NEW j \in 1..Len(s) - 1
      PROVE  (front \o back)[j] = IF j < i THEN s[j] ELSE s[j + 1]
  <2>1. CASE j < i
    BY <1>1, <1>2, <1>4, <1>6, <2>1, SMT
  <2>2. CASE ~ (j < i)
    <3>1. j - (i - 1) \in 1..Len(s) - i /\ i + (j - (i - 1)) = j + 1
      BY <1>1, <2>2, SMT
    <3>2. (front \o back)[j] = back[j - (i - 1)]
      BY <1>1, <1>2, <1>4, <1>6, <2>2, SMT
    <3> QED
      BY <1>3, <2>2, <3>1, <3>2
  <2> QED
    BY <2>1, <2>2
<1> QED
  BY <1>4, <1>5, <1>6, <1>7

-----------------------------------------------------------------------------
\* ---- Pages and their conversion ----

\* Every market Gamma may list has the fields of a RawMarket.
LEMMA RawFields ==
  ASSUME NEW raw \in RawMarkets
  PROVE  IsRaw(raw)
<1>1. CASE raw \in Newcomers
  BY <1>1, RawAssumption
<1>2. CASE \E list \in Servers : raw \in ToSet(list)
  BY <1>2, RawAssumption
<1> QED
  BY <1>1, <1>2 DEF RawMarkets

LEMMA PageNat == LIMIT \in Nat \ {0}
BY PageAssumption

\* A conversion gives the market itself or nothing.
LEMMA ConvertedOne ==
  ASSUME NEW raw \in RawMarkets
  PROVE  /\ ConvertMarket(raw) \in Results
         /\ ConvertMarket(raw) # None =>
              /\ Accepted(raw) /\ ConvertMarket(raw) = Market(raw)
              /\ ConvertMarket(raw).raw = raw
         /\ Accepted(raw) => ConvertMarket(raw) = Market(raw)
<1>1. Market(raw) \in Results /\ None \in Results
  BY DEF Results
<1>2. Market(raw).raw = raw
  BY DEF Market
<1>3. CASE Accepted(raw)
  <2>1. ConvertMarket(raw) = Market(raw)
    BY <1>3 DEF ConvertMarket
  <2> QED
    BY <1>1, <1>2, <1>3, <2>1
<1>4. CASE ~ Accepted(raw)
  <2>1. ConvertMarket(raw) = None
    BY <1>4 DEF ConvertMarket
  <2> QED
    BY <1>1, <1>4, <2>1
<1> QED
  BY <1>3, <1>4

\* A conversion keeps positions.
LEMMA ConvertedShape ==
  ASSUME NEW raws \in Seq(RawMarkets)
  PROVE  /\ Converted(raws) \in Seq(Results)
         /\ Len(Converted(raws)) = Len(raws)
         /\ \A k \in 1..Len(raws) : Converted(raws)[k] = ConvertMarket(raws[k])
<1>1. Len(raws) \in Nat /\ \A k \in 1..Len(raws) : raws[k] \in RawMarkets
  BY ElementsOf
<1>2. Converted(raws) \in [1..Len(raws) -> Results]
  BY <1>1, ConvertedOne DEF Converted
<1>3. Converted(raws) \in Seq(Results)
  BY <1>1, <1>2, SeqDef
<1>4. DOMAIN Converted(raws) = 1..Len(raws)
  BY DEF Converted
<1>5. Len(Converted(raws)) \in Nat /\ DOMAIN Converted(raws) = 1..Len(Converted(raws))
  BY <1>3, LenProperties
<1>6. Len(Converted(raws)) = Len(raws)
  BY <1>1, <1>4, <1>5, SMT
<1> QED
  BY <1>3, <1>6 DEF Converted

\* A page is what stands behind the offset, up to LIMIT or to the end.
LEMMA PageShape ==
  ASSUME server \in Seq(RawMarkets), offset \in Nat
  PROVE  /\ Page \in Seq(RawMarkets) /\ Len(Page) \in Nat
         /\ \A k \in 1..Len(Page) : offset + k \in 1..Len(server) /\ Page[k] = server[offset + k]
         /\ ~ ShortPage => Len(Page) = LIMIT /\ offset + LIMIT <= Len(server)
         /\ ShortPage => offset + Len(Page) >= Len(server)
<1> DEFINE last == IF offset + LIMIT < Len(server) THEN offset + LIMIT ELSE Len(server)
<1>1. Len(server) \in Nat /\ LIMIT \in Nat \ {0}
  BY ElementsOf, PageNat
<1>2. /\ last \in Int /\ last <= Len(server) /\ last <= offset + LIMIT
      /\ last < offset + LIMIT => last = Len(server)
  BY <1>1, SMT
<1>3. Page = SubSeq(server, offset + 1, last)
  BY DEF Page
<1> HIDE DEF last
<1>4. \A i \in offset + 1..last : i \in 1..Len(server) /\ server[i] \in RawMarkets
  <2>1. \A i \in offset + 1..last : i \in 1..Len(server)
    BY <1>1, <1>2, SMT
  <2> QED
    BY <2>1, ElementsOf
<1>5. /\ Page \in Seq(RawMarkets)
      /\ Len(Page) = IF offset + 1 <= last THEN last - offset ELSE 0
      /\ \A k \in 1..last - offset : Page[k] = server[offset + k]
  <2>1. offset + 1 \in Int
    BY SMT
  <2>2. /\ SubSeq(server, offset + 1, last) \in Seq(RawMarkets)
        /\ Len(SubSeq(server, offset + 1, last)) = IF offset + 1 <= last THEN last - (offset + 1) + 1 ELSE 0
        /\ \A k \in 1..last - (offset + 1) + 1 :
             SubSeq(server, offset + 1, last)[k] = server[offset + 1 + k - 1]
    BY <1>2, <1>4, <2>1, SubSeqProperties
  <2>3. last - (offset + 1) + 1 = last - offset
        /\ \A k \in Int : offset + 1 + k - 1 = offset + k
    BY <1>2, SMT
  <2> QED
    BY <1>3, <2>2, <2>3, SMT
<1>6. \A k \in 1..Len(Page) : k \in 1..last - offset /\ offset + k \in offset + 1..last
  BY <1>2, <1>5, SMT
<1>7. Len(Page) \in Nat
  BY <1>2, <1>5, SMT
<1>8. ~ ShortPage => Len(Page) = LIMIT /\ offset + LIMIT <= Len(server)
  BY <1>1, <1>2, <1>5, SMT DEF ShortPage
<1>9. ShortPage => offset + Len(Page) >= Len(server)
  BY <1>1, <1>2, <1>5, SMT DEF ShortPage
<1> QED
  BY <1>4, <1>5, <1>6, <1>7, <1>8, <1>9

\* The markets after a page: the old ones, then the page's at the offset.
LEMMA Taken ==
  ASSUME ListTypes
  PROVE  /\ markets \o Converted(Page) \in Seq(Results)
         /\ Len(markets \o Converted(Page)) = Len(markets) + Len(Page)
         /\ \A k \in 1..Len(markets) : (markets \o Converted(Page))[k] = markets[k]
         /\ \A k \in 1..Len(Page) :
              (markets \o Converted(Page))[Len(markets) + k] = ConvertMarket(server[offset + k])
<1>1. markets \in Seq(Results) /\ Len(markets) \in Nat
  BY ElementsOf DEF ListTypes
<1>2. /\ Page \in Seq(RawMarkets) /\ Len(Page) \in Nat
      /\ \A k \in 1..Len(Page) : Page[k] = server[offset + k]
  BY PageShape DEF ListTypes, TypeOK
<1>3. /\ Converted(Page) \in Seq(Results)
      /\ Len(Converted(Page)) = Len(Page)
      /\ \A k \in 1..Len(Page) : Converted(Page)[k] = ConvertMarket(server[offset + k])
  BY <1>2, ConvertedShape
<1> DEFINE all  == markets \o Converted(Page)
           page == Converted(Page)
<1>4. /\ all \in Seq(Results) /\ Len(all) = Len(markets) + Len(page)
      /\ \A k \in 1..Len(markets) + Len(page) :
           all[k] = IF k <= Len(markets) THEN markets[k] ELSE page[k - Len(markets)]
  BY <1>1, <1>3, ConcatProperties
<1>5. Len(all) = Len(markets) + Len(Page)
  BY <1>3, <1>4
<1> HIDE DEF all, page
<1>6. ASSUME NEW k \in 1..Len(markets) PROVE all[k] = markets[k]
  <2>1. k \in 1..Len(markets) + Len(page) /\ k <= Len(markets)
    BY <1>1, <1>2, <1>3, SMT DEF page
  <2> QED
    BY <1>4, <2>1
<1>7. ASSUME NEW k \in 1..Len(Page) PROVE all[Len(markets) + k] = page[k]
  <2>1. /\ Len(markets) + k \in 1..Len(markets) + Len(page) /\ ~ (Len(markets) + k <= Len(markets))
        /\ Len(markets) + k - Len(markets) = k
    BY <1>1, <1>2, <1>3, SMT DEF page
  <2> QED
    BY <1>4, <2>1
<1> QED
  BY <1>3, <1>4, <1>5, <1>6, <1>7 DEF all, page

\* A position after a page is an old one or one of the page.
LEMMA TakenCases ==
  ASSUME ListTypes, NEW k \in 1..Len(markets \o Converted(Page))
  PROVE  \/ k \in 1..Len(markets) /\ (markets \o Converted(Page))[k] = markets[k]
         \/ \E i \in 1..Len(Page) :
              /\ k = Len(markets) + i
              /\ offset + i \in 1..Len(server) /\ server[offset + i] \in RawMarkets
              /\ (markets \o Converted(Page))[k] = ConvertMarket(server[offset + i])
<1>1. Len(markets) \in Nat
  BY ElementsOf DEF ListTypes
<1>2. /\ Len(Page) \in Nat
      /\ \A i \in 1..Len(Page) : offset + i \in 1..Len(server)
  BY PageShape DEF ListTypes, TypeOK
<1>3. \A i \in 1..Len(server) : server[i] \in RawMarkets
  BY ElementsOf DEF ListTypes
<1>4. CASE k <= Len(markets)
  BY <1>1, <1>4, Taken, SMT
<1>5. CASE ~ (k <= Len(markets))
  <2>1. k - Len(markets) \in 1..Len(Page) /\ k = Len(markets) + (k - Len(markets))
    BY <1>1, <1>2, <1>5, Taken, SMT
  <2> QED
    BY <1>2, <1>3, <2>1, Taken
<1> QED
  BY <1>4, <1>5

-----------------------------------------------------------------------------
\* ---- The invariant holds ----

\* The environment never changes, so what passes the filters does not either.
LEMMA EnvStays ==
  ASSUME env' = env
  PROVE  /\ \A raw : Accepted(raw)' <=> Accepted(raw)
         /\ \A raw : ConvertMarket(raw)' = ConvertMarket(raw)
         /\ \A m : Genuine(m)' <=> Genuine(m)
<1>1. cfg' = cfg
  BY DEF cfg
<1>2. \A raw : InWindow(raw)' <=> InWindow(raw)
  BY <1>1 DEF InWindow
<1>3. \A raw : LiquidEnough(raw)' <=> LiquidEnough(raw)
  BY <1>1 DEF LiquidEnough
<1>4. \A raw : Accepted(raw)' <=> Accepted(raw)
  BY <1>1, <1>2, <1>3 DEF Accepted
<1>5. \A raw : ConvertMarket(raw)' = ConvertMarket(raw)
  BY <1>4 DEF ConvertMarket
<1>6. \A m : Genuine(m)' <=> Genuine(m)
  BY <1>4 DEF Genuine
<1> QED
  BY <1>4, <1>5, <1>6

\* The settings a Config holds, whatever the environment.
LEMMA Settings ==
  ASSUME env \in Environments
  PROVE  /\ cfg.max_days \in Int /\ cfg.max_days >= 1
         /\ cfg.max_liquidity \in Int /\ cfg.max_liquidity # 0
         /\ cfg.min_liquidity \in Int
         /\ LET days == env.MAX_DAYS_UNTIL_RESOLUTION
            IN days \notin Odd /\ days > 0 => days \in Int /\ cfg.max_days = days
         /\ LET max == env.MAX_LIQUIDITY_USD
            IN max \notin Odd /\ max > 0 => max \in Int /\ cfg.max_liquidity = max
         /\ LET min == env.MIN_LIQUIDITY_USD
            IN min \notin Odd => min \in Int /\ cfg.min_liquidity = min
         /\ cfg.exclude_crypto = env.EXCLUDE_CRYPTO_MINUTES
<1>1. /\ env.MIN_LIQUIDITY_USD \in Int \cup Odd
      /\ env.MAX_LIQUIDITY_USD \in Int \cup Odd
      /\ env.MAX_DAYS_UNTIL_RESOLUTION \in Int \cup Odd
  BY EnvironmentAssumption DEF Dates
<1>2. /\ cfg.min_liquidity = Dec(env.MIN_LIQUIDITY_USD)
      /\ cfg.max_liquidity = OrDefault(Dec(env.MAX_LIQUIDITY_USD), UNLIMITED)
      /\ cfg.max_days = IF env.MAX_DAYS_UNTIL_RESOLUTION \in Odd THEN 3
                        ELSE IF env.MAX_DAYS_UNTIL_RESOLUTION < 1 THEN 1
                             ELSE env.MAX_DAYS_UNTIL_RESOLUTION
      /\ cfg.exclude_crypto = env.EXCLUDE_CRYPTO_MINUTES
  BY DEF cfg
<1>3. ASSUME NEW setting \in Int \cup Odd
      PROVE  Dec(setting) \in Int /\ (setting \notin Odd => setting \in Int /\ Dec(setting) = setting)
  BY DEF Dec
<1>4. cfg.max_days \in Int /\ cfg.max_days >= 1
  BY <1>1, <1>2, SMT
<1>5. LET days == env.MAX_DAYS_UNTIL_RESOLUTION
      IN days \notin Odd /\ days > 0 => days \in Int /\ cfg.max_days = days
  BY <1>1, <1>2, SMT
<1>6. /\ cfg.max_liquidity \in Int /\ cfg.max_liquidity # 0
      /\ LET max == env.MAX_LIQUIDITY_USD
         IN max \notin Odd /\ max > 0 => max \in Int /\ cfg.max_liquidity = max
  <2>1. /\ Dec(env.MAX_LIQUIDITY_USD) \in Int
        /\ env.MAX_LIQUIDITY_USD \notin Odd =>
             env.MAX_LIQUIDITY_USD \in Int /\ Dec(env.MAX_LIQUIDITY_USD) = env.MAX_LIQUIDITY_USD
    BY <1>1, <1>3
  <2> QED
    BY <1>2, <2>1, SMT DEF OrDefault, UNLIMITED
<1> QED
  BY <1>1, <1>2, <1>3, <1>4, <1>5, <1>6

LEMMA InitiallyListed ==
  ASSUME Init
  PROVE  ListInv
<1>1. server \in Seq(RawMarkets) /\ IsInjective(server)
  <2>1. server \in Seq(ToSet(server)) /\ IsInjective(server)
    BY RawAssumption DEF Init
  <2>2. ToSet(server) \subseteq RawMarkets
    BY DEF Init, RawMarkets
  <2> QED
    BY <2>1, <2>2, SeqMonotonic
<1>2. OnceListed
  BY <1>1, ElementsOf DEF OnceListed, IsInjective
<1>3. <<>> \in Seq(Results) /\ Len(<<>>) = 0
  BY EmptySeq
<1>4. ListTypes
  <2>1. env \in Environments
    BY DEF Init
  <2>2. TypeOK
    <3>1. Len(server) \in Nat
      BY <1>1, ElementsOf
    <3>2. cfg.max_days >= 1 /\ cfg.max_liquidity # 0
      BY <2>1, Settings
    <3>3. refreshes \in 0..REFRESHES /\ changes \in 0..CHANGES /\ failures \in 0..FAILURES
      <4>1. REFRESHES \in Nat /\ CHANGES \in Nat /\ FAILURES \in Nat
        BY BoundAssumption
      <4> QED
        BY <4>1, SMT DEF Init
    <3>4. offset \in Nat /\ offset <= Len(server) /\ Len(markets) >= offset
      BY <1>3, <3>1, SMT DEF Init
    <3> QED
      BY <3>2, <3>3, <3>4 DEF Init, TypeOK
  <2> QED
    BY <1>1, <1>3, <2>1, <2>2 DEF ListTypes, Init
<1>5. FetchedSoFar /\ NotAhead /\ FetchedOnce
  BY DEF Init, FetchedSoFar, NotAhead, FetchedOnce
<1>6. Passed
  <2>1. ~ \E i \in 1..Len(server) : i <= 0
    BY <1>1, ElementsOf, SMT
  <2> QED
    BY <2>1 DEF Init, Passed
<1>7. Filtered
  <2>1. ~ \E k : k \in 1..0
    BY SMT
  <2> QED
    BY <1>3, <2>1 DEF Init, Filtered
<1> QED
  BY <1>2, <1>4, <1>5, <1>6, <1>7 DEF ListInv

LEMMA BeginListed ==
  ASSUME ListInv, Begin
  PROVE  ListInv'
<1> USE DEF ListInv
<1>1. /\ server' = server /\ env' = env /\ loaded' = loaded /\ hung' = hung
      /\ markets' = <<>> /\ offset' = 0 /\ fetching' = TRUE /\ steady' = TRUE
      /\ joined' = {} /\ skipped' = {} /\ turned' = {} /\ error' = error
      /\ refreshes < REFRESHES /\ refreshes' = refreshes + 1
      /\ changes' = changes /\ failures' = failures /\ hung = FALSE
  BY DEF Begin, ListTypes, TypeOK
<1>2. <<>> \in Seq(Results) /\ Len(<<>>) = 0
  BY EmptySeq
<1>3. Len(server) \in Nat
  BY ElementsOf DEF ListTypes
<1>4. ListTypes'
  <2>1. cfg' = cfg
    BY <1>1 DEF cfg
  <2>2. refreshes' \in 0..REFRESHES
    BY <1>1, BoundAssumption, SMT DEF ListTypes, TypeOK
  <2> QED
    BY <1>1, <1>2, <1>3, <2>1, <2>2 DEF ListTypes, TypeOK
<1>5. OnceListed'
  BY <1>1 DEF OnceListed
<1>6. ~ \E k : k \in 1..0
  BY SMT
<1>7. FetchedSoFar' /\ NotAhead' /\ FetchedOnce'
  BY <1>1, <1>2, <1>6 DEF FetchedSoFar, NotAhead, FetchedOnce
<1>8. Passed'
  <2>1. ~ \E i \in 1..Len(server) : i <= 0
    BY <1>3, SMT
  <2> QED
    BY <1>1, <2>1 DEF Passed
<1>9. Filtered'
  BY <1>1, <1>2, <1>6, EnvStays DEF Filtered
<1> QED
  BY <1>4, <1>5, <1>7, <1>8, <1>9

\* A failed fetch leaves all but the flags.
LEMMA AbandonListed ==
  ASSUME ListInv, PageFails \/ TimesOut \/ Hang \/ UNCHANGED vars
  PROVE  ListInv'
<1> USE DEF ListInv
<1>1. /\ server' = server /\ env' = env /\ loaded' = loaded /\ markets' = markets
      /\ offset' = offset /\ UNCHANGED history /\ refreshes' = refreshes /\ changes' = changes
      /\ fetching' \in BOOLEAN /\ hung' \in BOOLEAN /\ error' \in BOOLEAN
      /\ (fetching' => fetching) /\ (hung' => fetching')
      /\ failures' \in 0..FAILURES
  <2>1. CASE PageFails
    <3>1. failures' \in 0..FAILURES
      BY <2>1, BoundAssumption, SMT DEF PageFails, ListTypes, TypeOK
    <3> QED
      BY <2>1, <3>1 DEF PageFails, Abandon, Kept, ListTypes, TypeOK
  <2>2. CASE TimesOut
    BY <2>2 DEF TimesOut, Abandon, Kept, ListTypes, TypeOK, bounds
  <2>3. CASE Hang
    <3>1. failures' \in 0..FAILURES
      BY <2>3, BoundAssumption, SMT DEF Hang, ListTypes, TypeOK
    <3> QED
      BY <2>3, <3>1 DEF Hang, ListTypes, TypeOK
  <2>4. CASE UNCHANGED vars
    BY <2>4 DEF vars, fetch, bounds, ListTypes, TypeOK
  <2> QED
    BY <2>1, <2>2, <2>3, <2>4
<1>2. UNCHANGED <<steady, joined, skipped, turned>>
  BY <1>1 DEF history
<1>3. ListTypes'
  <2>1. cfg' = cfg
    BY <1>1 DEF cfg
  <2> QED
    BY <1>1, <1>2, <2>1 DEF ListTypes, TypeOK
<1>4. OnceListed' /\ FetchedSoFar' /\ Passed' /\ NotAhead' /\ FetchedOnce' /\ Filtered'
  BY <1>1, <1>2, EnvStays
     DEF OnceListed, FetchedSoFar, Passed, NotAhead, FetchedOnce, Twice, Filtered
<1> QED
  BY <1>3, <1>4

\* Nothing is in a page and before it, or twice in a page, with the exceptions
\* that hold so far.
LEMMA TakenOnce ==
  ASSUME ListInv, fetching
  PROVE  LET all == markets \o Converted(Page)
         IN \A k, l \in 1..Len(all) : Twice(all, k, l) => all[k].raw \in joined \cup turned
<1> USE DEF ListInv
<1> DEFINE all == markets \o Converted(Page)
<1>1. /\ Len(server) \in Nat /\ offset \in Nat /\ Len(markets) \in Nat /\ Len(Page) \in Nat
  BY ElementsOf, PageShape DEF ListTypes, TypeOK
<1>2. ASSUME NEW k \in 1..Len(all)
      PROVE  \/ k \in 1..Len(markets) /\ all[k] = markets[k]
             \/ \E i \in 1..Len(Page) : /\ k = Len(markets) + i
                                        /\ offset + i \in 1..Len(server)
                                        /\ server[offset + i] \in RawMarkets
                                        /\ all[k] = ConvertMarket(server[offset + i])
  BY TakenCases
<1> HIDE DEF all
<1> SUFFICES ASSUME NEW k \in 1..Len(all), NEW l \in 1..Len(all), Twice(all, k, l)
             PROVE  all[k].raw \in joined \cup turned
  BY DEF all
<1> USE DEF Twice
<1>3. CASE k \in 1..Len(markets) /\ all[k] = markets[k]
  <2>1. CASE l \in 1..Len(markets) /\ all[l] = markets[l]
    BY <1>3, <2>1 DEF FetchedOnce
  <2>2. ASSUME NEW j \in 1..Len(Page), offset + j \in 1..Len(server), server[offset + j] \in RawMarkets,
               all[l] = ConvertMarket(server[offset + j])
        PROVE  markets[k].raw \in joined \cup turned
    <3>1. markets[k] # None /\ markets[k].raw = server[offset + j]
      BY <1>3, <2>2, ConvertedOne
    <3>2. offset + j > offset
      BY <1>1, SMT
    <3> QED
      BY <1>3, <2>2, <3>1, <3>2 DEF NotAhead
  <2> QED
    BY <1>2, <1>3, <2>1, <2>2
<1>4. ASSUME NEW i \in 1..Len(Page), k = Len(markets) + i,
             offset + i \in 1..Len(server), server[offset + i] \in RawMarkets,
             all[k] = ConvertMarket(server[offset + i])
      PROVE  FALSE
  <2>1. ~ (l \in 1..Len(markets))
    BY <1>1, <1>4, SMT
  <2>2. PICK j \in 1..Len(Page) : /\ l = Len(markets) + j
                                  /\ offset + j \in 1..Len(server)
                                  /\ server[offset + j] \in RawMarkets
                                  /\ all[l] = ConvertMarket(server[offset + j])
    BY <1>2, <2>1
  <2>3. server[offset + i] = server[offset + j]
    BY <1>4, <2>2, ConvertedOne
  <2>4. offset + i = offset + j
    BY <1>4, <2>2, <2>3 DEF OnceListed
  <2> QED
    BY <1>1, <1>4, <2>2, <2>4, SMT
<1> QED
  BY <1>2, <1>3, <1>4

\* What a page adds has passed the filters.
LEMMA TakenGenuine ==
  ASSUME ListInv
  PROVE  LET all == markets \o Converted(Page)
         IN \A k \in 1..Len(all) : all[k] # None => Genuine(all[k])
<1> USE DEF ListInv
<1> DEFINE all == markets \o Converted(Page)
<1> SUFFICES ASSUME NEW k \in 1..Len(all), all[k] # None
             PROVE  Genuine(all[k])
  OBVIOUS
<1>1. CASE k \in 1..Len(markets) /\ all[k] = markets[k]
  BY <1>1 DEF Filtered
<1>2. ASSUME NEW j \in 1..Len(Page), server[offset + j] \in RawMarkets,
             all[k] = ConvertMarket(server[offset + j])
      PROVE  Genuine(all[k])
  BY <1>2, ConvertedOne DEF Genuine
<1> QED
  BY <1>1, <1>2, TakenCases

\* A page that is not the last one.
LEMMA TakePageListed ==
  ASSUME ListInv, TakePage
  PROVE  ListInv'
<1> USE DEF ListInv
<1> DEFINE all == markets \o Converted(Page)
<1>1. /\ server' = server /\ env' = env /\ loaded' = loaded /\ hung' = hung
      /\ fetching = TRUE /\ fetching' = TRUE /\ error' = error
      /\ markets' = all /\ offset' = offset + LIMIT
      /\ steady' = steady /\ joined' = joined /\ skipped' = skipped /\ turned' = turned
      /\ refreshes' = refreshes /\ changes' = changes /\ failures' = failures
      /\ ~ ShortPage
  BY DEF TakePage, Advanced, history, bounds, ListTypes, TypeOK
<1>2. /\ Len(server) \in Nat /\ offset \in Nat /\ Len(markets) \in Nat /\ LIMIT \in Nat \ {0}
      /\ Len(markets) >= offset
      /\ \A i \in 1..Len(server) : server[i] \in RawMarkets
  BY ElementsOf, PageNat DEF ListTypes, TypeOK
<1>3. Len(Page) = LIMIT /\ offset + LIMIT <= Len(server)
  BY <1>1, PageShape DEF ListTypes, TypeOK
<1>4. /\ all \in Seq(Results) /\ Len(all) = Len(markets) + LIMIT
      /\ \A k \in 1..Len(markets) : all[k] = markets[k]
      /\ \A k \in 1..LIMIT : all[Len(markets) + k] = ConvertMarket(server[offset + k])
  BY <1>3, Taken
<1>5. ASSUME NEW k \in 1..Len(all)
      PROVE  \/ k \in 1..Len(markets) /\ all[k] = markets[k]
             \/ \E i \in 1..LIMIT : /\ k = Len(markets) + i
                                    /\ offset + i \in 1..Len(server)
                                    /\ server[offset + i] \in RawMarkets
                                    /\ all[k] = ConvertMarket(server[offset + i])
  BY <1>3, TakenCases
<1> HIDE DEF all
<1>6. ListTypes'
  <2>1. cfg' = cfg
    BY <1>1 DEF cfg
  <2>2. offset' \in Nat /\ offset' <= Len(server)
    BY <1>1, <1>2, <1>3, SMT
  <2>3. Len(markets') >= offset'
    BY <1>1, <1>2, <1>4, SMT
  <2> QED
    BY <1>1, <1>4, <2>1, <2>2, <2>3 DEF ListTypes, TypeOK
<1>7. OnceListed'
  BY <1>1 DEF OnceListed
<1>8. FetchedSoFar'
  <2> SUFFICES ASSUME steady
               PROVE  /\ Len(all) = offset + LIMIT
                      /\ \A k \in 1..offset + LIMIT : all[k] = ConvertMarket(server[k])
    BY <1>1, EnvStays DEF FetchedSoFar
  <2>1. Len(markets) = offset /\ \A k \in 1..offset : markets[k] = ConvertMarket(server[k])
    BY <1>1 DEF FetchedSoFar
  <2>2. Len(all) = offset + LIMIT
    BY <1>4, <2>1
  <2>3. ASSUME NEW k \in 1..offset + LIMIT PROVE all[k] = ConvertMarket(server[k])
    BY <1>5, <2>1, <2>2
  <2> QED
    BY <2>2, <2>3
<1>9. Passed'
  <2> SUFFICES ASSUME NEW i \in 1..Len(server), i <= offset + LIMIT, server[i] \notin joined \cup skipped
               PROVE  ConvertMarket(server[i]) \in ToSet(all)
    BY <1>1, EnvStays DEF Passed
  <2>1. CASE i <= offset
    <3>1. ConvertMarket(server[i]) \in ToSet(markets)
      BY <2>1 DEF Passed
    <3>2. PICK k \in 1..Len(markets) : ConvertMarket(server[i]) = markets[k]
      BY <3>1, ElementsOf DEF ListTypes
    <3>3. k \in 1..Len(all) /\ all[k] = markets[k]
      BY <1>2, <1>4, SMT
    <3> QED
      BY <1>4, <3>2, <3>3, ElementsOf
  <2>2. CASE ~ (i <= offset)
    <3>1. i - offset \in 1..LIMIT /\ offset + (i - offset) = i
      BY <1>2, <2>2, SMT
    <3>2. all[Len(markets) + (i - offset)] = ConvertMarket(server[i])
      BY <1>4, <3>1
    <3>3. Len(markets) + (i - offset) \in 1..Len(all)
      BY <1>2, <1>4, <3>1, SMT
    <3> QED
      BY <1>4, <3>2, <3>3, ElementsOf
  <2> QED
    BY <2>1, <2>2
<1>10. NotAhead'
  <2> SUFFICES ASSUME NEW k \in 1..Len(all), NEW i \in 1..Len(server),
                      all[k] # None, i > offset + LIMIT, all[k].raw = server[i]
               PROVE  server[i] \in joined \cup turned
    BY <1>1 DEF NotAhead
  <2>1. CASE k \in 1..Len(markets) /\ all[k] = markets[k]
    <3>1. i > offset
      BY <1>2, SMT
    <3> QED
      BY <1>1, <2>1, <3>1 DEF NotAhead
  <2>2. ASSUME NEW j \in 1..LIMIT, offset + j \in 1..Len(server), server[offset + j] \in RawMarkets,
               all[k] = ConvertMarket(server[offset + j])
        PROVE  FALSE
    <3>1. server[i] = server[offset + j]
      BY <2>2, ConvertedOne
    <3>2. i = offset + j
      BY <2>2, <3>1 DEF OnceListed
    <3> QED
      BY <1>2, <3>2, SMT
  <2> QED
    BY <1>5, <2>1, <2>2
<1>11. FetchedOnce'
  BY <1>1, TakenOnce DEF FetchedOnce, Twice, all
<1>12. Filtered'
  BY <1>1, TakenGenuine, EnvStays DEF Filtered, all
<1> QED
  BY <1>6, <1>7, <1>8, <1>9, <1>10, <1>11, <1>12

\* The last page: what is fetched becomes the list.
LEMMA TakeLastListed ==
  ASSUME ListInv, TakeLastPage
  PROVE  ListInv'
<1> USE DEF ListInv
<1> DEFINE all == markets \o Converted(Page)
<1>1. /\ server' = server /\ env' = env /\ loaded' = all /\ hung' = FALSE
      /\ fetching = TRUE /\ fetching' = FALSE /\ error' = FALSE
      /\ markets' = all /\ offset' = offset
      /\ steady' = steady /\ joined' = joined /\ skipped' = skipped /\ turned' = turned
      /\ refreshes' = refreshes /\ changes' = changes /\ failures' = failures
  BY DEF TakeLastPage, history, bounds, ListTypes, TypeOK
<1>2. Len(server) \in Nat /\ offset \in Nat /\ Len(markets) \in Nat /\ Len(markets) >= offset
      /\ Len(Page) \in Nat
  BY ElementsOf, PageShape DEF ListTypes, TypeOK
<1>3. /\ all \in Seq(Results) /\ Len(all) = Len(markets) + Len(Page)
      /\ \A k \in 1..Len(markets) : all[k] = markets[k]
  BY Taken
<1>4. Filtered'
  BY <1>1, TakenGenuine, EnvStays DEF Filtered
<1> HIDE DEF all
<1>5. ListTypes'
  <2>1. cfg' = cfg
    BY <1>1 DEF cfg
  <2>2. Len(markets') >= offset'
    BY <1>1, <1>2, <1>3, SMT
  <2> QED
    BY <1>1, <1>3, <2>1, <2>2 DEF ListTypes, TypeOK
<1>6. OnceListed' /\ FetchedSoFar' /\ NotAhead' /\ FetchedOnce'
  BY <1>1 DEF OnceListed, FetchedSoFar, NotAhead, FetchedOnce
<1>7. Passed'
  <2> SUFFICES ASSUME NEW i \in 1..Len(server), i <= offset, server[i] \notin joined \cup skipped
               PROVE  ConvertMarket(server[i]) \in ToSet(all)
    BY <1>1, EnvStays DEF Passed
  <2>1. ConvertMarket(server[i]) \in ToSet(markets)
    BY DEF Passed
  <2>2. PICK k \in 1..Len(markets) : ConvertMarket(server[i]) = markets[k]
    BY <2>1, ElementsOf DEF ListTypes
  <2>3. k \in 1..Len(all) /\ all[k] = markets[k]
    BY <1>2, <1>3, SMT
  <2> QED
    BY <1>3, <2>2, <2>3, ElementsOf
<1> QED
  BY <1>4, <1>5, <1>6, <1>7

\* A market joins Gamma's list.
LEMMA JoinListed ==
  ASSUME ListInv, NEW raw \in Newcomers, NEW i \in 1..Len(server) + 1, Join(raw, i)
  PROVE  ListInv'
<1> USE DEF ListInv
<1> DEFINE longer == InsertAt(server, i, raw)
<1>1. /\ server' = longer /\ env' = env /\ UNCHANGED <<fetching, hung, offset, markets, error, loaded>>
      /\ steady' = FALSE /\ joined' = joined \cup {raw} /\ skipped' = skipped
      /\ turned' = turned \cup (IF i <= offset THEN BeforeOffset ELSE {})
      /\ refreshes' = refreshes /\ failures' = failures
      /\ changes < CHANGES /\ changes' = changes + 1
      /\ raw \notin ToSet(server)
  BY DEF Join, fetch
<1>2. raw \in RawMarkets
  BY DEF RawMarkets
<1>3. /\ Len(server) \in Nat /\ offset \in Nat /\ i \in Nat
      /\ \A j \in 1..Len(server) : server[j] \in ToSet(server)
  BY ElementsOf, SMT DEF ListTypes, TypeOK
<1>4. /\ longer \in Seq(RawMarkets) /\ Len(longer) = Len(server) + 1
      /\ \A j \in 1..Len(server) + 1 :
           longer[j] = IF j < i THEN server[j] ELSE IF j = i THEN raw ELSE server[j - 1]
  BY <1>2, InsertShape DEF ListTypes
<1> HIDE DEF longer
<1>5. ASSUME NEW j \in 1..Len(longer)
      PROVE  \/ j = i /\ longer[j] = raw
             \/ \E p \in 1..Len(server) : /\ longer[j] = server[p]
                                          /\ p = IF j < i THEN j ELSE j - 1
  <2>1. CASE j < i
    <3>1. j \in 1..Len(server)
      BY <1>3, <2>1, SMT
    <3> QED
      BY <1>4, <2>1, <3>1
  <2>2. CASE j = i
    BY <1>3, <1>4, <2>2, SMT
  <2>3. CASE j > i
    <3>1. j - 1 \in 1..Len(server) /\ ~ (j < i) /\ j # i
      BY <1>3, <1>4, <2>3, SMT
    <3> QED
      BY <1>4, <3>1
  <2> QED
    BY <1>3, <1>4, <2>1, <2>2, <2>3, SMT
<1>6. ListTypes'
  <2>1. cfg' = cfg
    BY <1>1 DEF cfg
  <2>2. changes' \in 0..CHANGES
    BY <1>1, BoundAssumption, SMT DEF ListTypes, TypeOK
  <2> QED
    BY <1>1, <1>4, <2>1, <2>2 DEF ListTypes, TypeOK
<1>7. OnceListed'
  <2> SUFFICES ASSUME NEW j \in 1..Len(longer), NEW k \in 1..Len(longer), longer[j] = longer[k]
               PROVE  j = k
    BY <1>1 DEF OnceListed
  <2>1. ASSUME NEW p \in 1..Len(server), NEW q \in 1..Len(server), server[p] = server[q],
               p = IF j < i THEN j ELSE j - 1, q = IF k < i THEN k ELSE k - 1, j # i, k # i
        PROVE  j = k
    <3>1. p = q
      BY <2>1 DEF OnceListed
    <3> QED
      BY <1>3, <2>1, <3>1, <1>4, SMT
  <2>2. ASSUME NEW p \in 1..Len(server) PROVE server[p] # raw
    BY <1>1, <1>3
  <2>3. CASE j = i
    BY <1>3, <1>4, <1>5, <2>2, <2>3, SMT
  <2>4. CASE k = i
    BY <1>3, <1>4, <1>5, <2>2, <2>4, SMT
  <2> QED
    BY <1>5, <2>1, <2>3, <2>4
<1>8. FetchedSoFar'
  BY <1>1 DEF FetchedSoFar
<1>9. Passed'
  <2> SUFFICES ASSUME NEW j \in 1..Len(longer), j <= offset,
                      longer[j] \notin (joined \cup {raw}) \cup skipped
               PROVE  ConvertMarket(longer[j]) \in ToSet(markets)
    BY <1>1, EnvStays DEF Passed
  <2>1. PICK p \in 1..Len(server) : longer[j] = server[p] /\ p = IF j < i THEN j ELSE j - 1
    BY <1>5
  <2>2. p <= offset
    BY <1>3, <1>4, <2>1, SMT
  <2> QED
    BY <2>1, <2>2 DEF Passed
<1>10. NotAhead'
  <2> SUFFICES ASSUME fetching, NEW k \in 1..Len(markets), NEW j \in 1..Len(longer),
                      markets[k] # None, j > offset, markets[k].raw = longer[j], j # i
               PROVE  longer[j] \in joined' \cup turned'
    <3>1. \A j \in 1..Len(longer) : j = i => longer[j] \in joined'
      BY <1>1, <1>3, <1>4, SMT
    <3> QED
      BY <1>1, <3>1 DEF NotAhead
  <2>1. PICK p \in 1..Len(server) : longer[j] = server[p] /\ p = IF j < i THEN j ELSE j - 1
    BY <1>5
  <2>2. CASE p > offset
    <3>1. server[p] \in joined \cup turned
      BY <2>1, <2>2 DEF NotAhead
    <3> QED
      BY <1>1, <2>1, <3>1
  <2>3. CASE ~ (p > offset)
    <3>1. p = offset /\ i <= offset
      BY <1>3, <1>4, <2>1, <2>3, SMT
    <3>2. server[p] \in BeforeOffset
      BY <1>3, <3>1 DEF BeforeOffset
    <3> QED
      BY <1>1, <2>1, <3>1, <3>2
  <2> QED
    BY <2>2, <2>3
<1>11. FetchedOnce'
  BY <1>1 DEF FetchedOnce, Twice
<1>12. Filtered'
  BY <1>1, EnvStays DEF Filtered
<1> QED
  BY <1>6, <1>7, <1>8, <1>9, <1>10, <1>11, <1>12

\* A market leaves Gamma's list.
LEMMA LeaveListed ==
  ASSUME ListInv, NEW i \in 1..Len(server), Leave(i)
  PROVE  ListInv'
<1> USE DEF ListInv
<1> DEFINE shorter == RemoveAt(server, i)
<1>1. /\ server' = shorter /\ env' = env /\ UNCHANGED <<fetching, hung, offset, markets, error, loaded>>
      /\ steady' = FALSE /\ joined' = joined /\ turned' = turned
      /\ skipped' = skipped \cup (IF i <= offset THEN AtOffset ELSE {})
      /\ refreshes' = refreshes /\ failures' = failures
      /\ changes < CHANGES /\ changes' = changes + 1
  BY DEF Leave, fetch
<1>2. Len(server) \in Nat /\ offset \in Nat /\ i \in Nat /\ i >= 1 /\ i <= Len(server)
  BY ElementsOf, SMT DEF ListTypes, TypeOK
<1>3. /\ shorter \in Seq(RawMarkets) /\ Len(shorter) = Len(server) - 1
      /\ \A j \in 1..Len(server) - 1 : shorter[j] = IF j < i THEN server[j] ELSE server[j + 1]
  BY RemoveShape DEF ListTypes
<1> HIDE DEF shorter
<1>4. ASSUME NEW j \in 1..Len(shorter)
      PROVE  \E p \in 1..Len(server) : /\ shorter[j] = server[p]
                                       /\ p = IF j < i THEN j ELSE j + 1
  <2>1. j \in 1..Len(server) /\ j + 1 \in 1..Len(server) /\ j \in 1..Len(server) - 1
    BY <1>2, <1>3, SMT
  <2> QED
    BY <1>3, <2>1
<1>5. ListTypes'
  <2>1. cfg' = cfg
    BY <1>1 DEF cfg
  <2>2. changes' \in 0..CHANGES
    BY <1>1, BoundAssumption, SMT DEF ListTypes, TypeOK
  <2> QED
    BY <1>1, <1>3, <2>1, <2>2 DEF ListTypes, TypeOK
<1>6. OnceListed'
  <2> SUFFICES ASSUME NEW j \in 1..Len(shorter), NEW k \in 1..Len(shorter), shorter[j] = shorter[k]
               PROVE  j = k
    BY <1>1 DEF OnceListed
  <2>1. PICK p \in 1..Len(server) : shorter[j] = server[p] /\ p = IF j < i THEN j ELSE j + 1
    BY <1>4
  <2>2. PICK q \in 1..Len(server) : shorter[k] = server[q] /\ q = IF k < i THEN k ELSE k + 1
    BY <1>4
  <2>3. p = q
    BY <2>1, <2>2 DEF OnceListed
  <2> QED
    BY <1>2, <1>3, <2>1, <2>2, <2>3, SMT
<1>7. FetchedSoFar'
  BY <1>1 DEF FetchedSoFar
<1>8. Passed'
  <2> SUFFICES ASSUME NEW j \in 1..Len(shorter), j <= offset, shorter[j] \notin joined \cup skipped'
               PROVE  ConvertMarket(shorter[j]) \in ToSet(markets)
    BY <1>1, EnvStays DEF Passed
  <2>1. PICK p \in 1..Len(server) : shorter[j] = server[p] /\ p = IF j < i THEN j ELSE j + 1
    BY <1>4
  <2>2. CASE p <= offset
    BY <1>1, <2>1, <2>2 DEF Passed
  <2>3. CASE ~ (p <= offset)
    <3>1. p = offset + 1 /\ i <= offset
      BY <1>2, <1>3, <2>1, <2>3, SMT
    <3>2. server[p] \in AtOffset
      BY <3>1 DEF AtOffset
    <3> QED
      BY <1>1, <2>1, <3>1, <3>2
  <2> QED
    BY <2>2, <2>3
<1>9. NotAhead'
  <2> SUFFICES ASSUME fetching, NEW k \in 1..Len(markets), NEW j \in 1..Len(shorter),
                      markets[k] # None, j > offset, markets[k].raw = shorter[j]
               PROVE  shorter[j] \in joined \cup turned
    BY <1>1 DEF NotAhead
  <2>1. PICK p \in 1..Len(server) : shorter[j] = server[p] /\ p = IF j < i THEN j ELSE j + 1
    BY <1>4
  <2>2. p > offset
    BY <1>2, <1>3, <2>1, SMT
  <2> QED
    BY <2>1, <2>2 DEF NotAhead
<1>10. FetchedOnce'
  BY <1>1 DEF FetchedOnce, Twice
<1>11. Filtered'
  BY <1>1, EnvStays DEF Filtered
<1> QED
  BY <1>5, <1>6, <1>7, <1>8, <1>9, <1>10, <1>11

\* The invariant is inductive.
LEMMA ListInvariance == Spec => []ListInv
<1>1. Init => ListInv
  BY InitiallyListed
<1>2. ListInv /\ [Next]_vars => ListInv'
  <2> SUFFICES ASSUME ListInv, [Next]_vars PROVE ListInv'
    OBVIOUS
  <2>1. CASE Begin
    BY <2>1, BeginListed
  <2>2. CASE TakePage
    BY <2>2, TakePageListed
  <2>3. CASE TakeLastPage
    BY <2>3, TakeLastListed
  <2>4. CASE PageFails \/ TimesOut \/ Hang \/ UNCHANGED vars
    BY <2>4, AbandonListed
  <2>5. ASSUME NEW raw \in Newcomers, NEW i \in 1..Len(server) + 1, Join(raw, i) PROVE ListInv'
    BY <2>5, JoinListed
  <2>6. ASSUME NEW i \in 1..Len(server), Leave(i) PROVE ListInv'
    BY <2>6, LeaveListed
  <2> QED
    BY <2>1, <2>2, <2>3, <2>4, <2>5, <2>6 DEF Next, Fetch
<1> QED
  BY <1>1, <1>2, PTL DEF Spec

-----------------------------------------------------------------------------
\* ---- Results ----

\* The types; the settings in force are in range whatever the environment; the
\* offset stays within a list that stands still.
THEOREM ListingTypes == Spec => []TypeOK
<1>1. ListInv => TypeOK
  BY DEF ListInv, ListTypes
<1> QED
  BY <1>1, ListInvariance, PTL

\* Only a last page, a failure or a timeout ends a fetch.
LEMMA HowFetchEnds ==
  ASSUME ListInv, [Next]_vars, Ends
  PROVE  \/ TakeLastPage
         \/ error' = TRUE /\ loaded' = loaded
<1>1. fetching = TRUE /\ ~ fetching'
  BY DEF Ends, ListInv, ListTypes, TypeOK
<1>2. CASE PageFails \/ TimesOut
  BY <1>2 DEF PageFails, TimesOut, Abandon, Kept
<1>3. ~ (Begin \/ TakePage \/ Hang \/ UNCHANGED vars)
  BY <1>1 DEF Begin, TakePage, Hang, vars, fetch
<1>4. \A raw, i : ~ Join(raw, i) /\ ~ Leave(i)
  BY <1>1 DEF Join, Leave, fetch
<1> QED
  BY <1>2, <1>3, <1>4 DEF Next, Fetch

\* A fetch of a list that stands still brings exactly its accepted markets, in
\* order, however many pages it takes; one that fails brings nothing.
THEOREM FetchedExactly == Spec => FetchIsExact
<1>1. ASSUME ListInv, [Next]_vars, Ends, steady
      PROVE  loaded' = IF error' THEN loaded ELSE Converted(server)
  <2>1. CASE error' = TRUE /\ loaded' = loaded
    BY <2>1
  <2>2. CASE TakeLastPage
    <3> DEFINE all == markets \o Converted(Page)
    <3>1. error' = FALSE /\ loaded' = all /\ fetching = TRUE
      BY <2>2 DEF TakeLastPage, ListInv, ListTypes, TypeOK, Ends
    <3>2. ShortPage
      BY <2>2 DEF TakeLastPage
    <3>3. /\ ListTypes /\ Len(markets) = offset /\ offset \in Nat
          /\ \A k \in 1..offset : markets[k] = ConvertMarket(server[k])
          /\ server \in Seq(RawMarkets) /\ Len(server) \in Nat /\ offset <= Len(server)
      BY <1>1, <3>1, ElementsOf DEF ListInv, ListTypes, TypeOK, FetchedSoFar
    <3>4. /\ Len(Page) \in Nat /\ offset + Len(Page) >= Len(server)
          /\ \A k \in 1..Len(Page) : offset + k \in 1..Len(server)
      BY <3>2, <3>3, PageShape
    <3>5. offset + Len(Page) = Len(server)
      <4>1. CASE Len(Page) = 0
        BY <3>3, <3>4, <4>1, SMT
      <4>2. CASE Len(Page) # 0
        <5>1. Len(Page) \in 1..Len(Page)
          BY <3>4, <4>2, SMT
        <5>2. offset + Len(Page) \in 1..Len(server)
          BY <3>4, <5>1
        <5> QED
          BY <3>3, <3>4, <5>2, SMT
      <4> QED
        BY <4>1, <4>2
    <3>6. all \in Seq(Results) /\ Len(all) = Len(server)
      BY <3>3, <3>5, Taken
    <3>7. ASSUME NEW k \in 1..Len(all) PROVE all[k] = ConvertMarket(server[k])
      BY <3>3, <3>7, TakenCases
    <3>8. /\ Converted(server) \in Seq(Results) /\ Len(Converted(server)) = Len(server)
          /\ \A k \in 1..Len(server) : Converted(server)[k] = ConvertMarket(server[k])
      BY <3>3, ConvertedShape
    <3> HIDE DEF all
    <3>9. all = Converted(server)
      BY <3>6, <3>7, <3>8, SeqEqual
    <3> QED
      BY <3>1, <3>9
  <2> QED
    BY <1>1, <2>1, <2>2, HowFetchEnds
<1>2. ListInv /\ [Next]_vars => [Ends /\ steady => loaded' = IF error' THEN loaded ELSE Converted(server)]_vars
  BY <1>1
<1> QED
  BY <1>2, ListInvariance, PTL DEF Spec, FetchIsExact

\* Whatever joins and leaves between the pages, only a market at the offset
\* can be missed.
THEOREM OnlySkippedMissed == Spec => MissedOnlyIfSkipped
<1>1. ASSUME ListInv, [Next]_vars, Ends, ~ error',
             NEW raw \in ToSet(server) \ (joined \cup skipped), Accepted(raw)
      PROVE  Market(raw) \in ToSet(loaded')
  <2>1. TakeLastPage
    BY <1>1, HowFetchEnds
  <2> DEFINE all == markets \o Converted(Page)
  <2>2. loaded' = all /\ ShortPage
    BY <2>1 DEF TakeLastPage
  <2>3. ListTypes /\ server \in Seq(RawMarkets) /\ markets \in Seq(Results) /\ offset \in Nat
    BY <1>1 DEF ListInv, ListTypes, TypeOK
  <2>4. PICK i \in 1..Len(server) : raw = server[i]
    BY <2>3, ElementsOf
  <2>5. raw \in RawMarkets /\ ConvertMarket(raw) = Market(raw)
    BY <1>1, <2>3, <2>4, ElementsOf, ConvertedOne
  <2>6. /\ all \in Seq(Results) /\ Len(all) = Len(markets) + Len(Page)
        /\ \A k \in 1..Len(markets) : all[k] = markets[k]
        /\ \A k \in 1..Len(Page) : all[Len(markets) + k] = ConvertMarket(server[offset + k])
    BY <2>3, Taken
  <2>7. Len(markets) \in Nat /\ Len(server) \in Nat
    BY <2>3, ElementsOf
  <2>8. Len(Page) \in Nat /\ offset + Len(Page) >= Len(server)
    BY <2>2, <2>3, PageShape
  <2> HIDE DEF all
  <2>9. \E k \in 1..Len(all) : all[k] = ConvertMarket(raw)
    <3>1. CASE i <= offset
      <4>1. ConvertMarket(raw) \in ToSet(markets)
        BY <1>1, <2>4, <3>1 DEF ListInv, Passed
      <4>2. PICK k \in 1..Len(markets) : ConvertMarket(raw) = markets[k]
        BY <2>3, <4>1, ElementsOf
      <4>3. k \in 1..Len(all) /\ all[k] = markets[k]
        BY <2>6, <2>7, <2>8, SMT
      <4> QED
        BY <4>2, <4>3
    <3>2. CASE ~ (i <= offset)
      <4>1. i - offset \in 1..Len(Page) /\ offset + (i - offset) = i
        BY <2>3, <2>7, <2>8, <3>2, SMT
      <4>2. all[Len(markets) + (i - offset)] = ConvertMarket(server[i])
        BY <2>6, <4>1
      <4>3. Len(markets) + (i - offset) \in 1..Len(all)
        BY <2>6, <2>7, <2>8, <4>1, SMT
      <4> QED
        BY <2>4, <4>2, <4>3
    <3> QED
      BY <3>1, <3>2
  <2> QED
    BY <2>2, <2>5, <2>6, <2>9, ElementsOf
<1>2. ListInv /\ [Next]_vars =>
        [Ends /\ ~ error' =>
           \A raw \in ToSet(server) \ (joined \cup skipped) :
             Accepted(raw) => Market(raw) \in ToSet(loaded')]_vars
  BY <1>1
<1> QED
  BY <1>2, ListInvariance, PTL DEF Spec, MissedOnlyIfSkipped

\* Whatever joins and leaves, only a market that joined or was turned back can
\* be loaded twice.
THEOREM OnlyTurnedDoubled == Spec => DoubledOnlyIfTurned
<1>1. ASSUME ListInv, [Next]_vars, Ends, ~ error',
             NEW i \in 1..Len(loaded'), NEW j \in 1..Len(loaded'),
             i < j, loaded'[i] = loaded'[j], loaded'[i] # None
      PROVE  loaded'[i].raw \in joined \cup turned
  <2>1. TakeLastPage
    BY <1>1, HowFetchEnds
  <2>2. fetching /\ loaded' = markets \o Converted(Page)
    BY <2>1 DEF TakeLastPage
  <2> QED
    BY <1>1, <2>2, TakenOnce DEF Twice
<1>2. ListInv /\ [Next]_vars =>
        [Ends /\ ~ error' =>
           \A i, j \in 1..Len(loaded') :
             i < j /\ loaded'[i] = loaded'[j] /\ loaded'[i] # None
               => loaded'[i].raw \in joined \cup turned]_vars
  BY <1>1
<1> QED
  BY <1>2, ListInvariance, PTL DEF Spec, DoubledOnlyIfTurned

\* When a second price parses, it is the second of the two, and the first price
\* that parses is the first.
LEMMA SecondIsSecond ==
  ASSUME NEW raw \in RawMarkets, Len(raw.prices) <= 2, Nth(raw, 2) # {}
  PROVE  Len(raw.prices) = 2 /\ Nth(raw, 1) \subseteq {1} /\ Nth(raw, 2) \subseteq {2}
<1> DEFINE Before(i) == {j \in Readable(raw) : j < i}
           len       == Len(raw.prices)
<1>1. len \in Nat /\ len <= 2 /\ Readable(raw) \subseteq 1..len
  <2>1. raw.prices \in Seq(Int \cup {Unreadable}) /\ Len(raw.prices) <= 2
    BY RawFields DEF IsRaw
  <2>2. Len(raw.prices) \in Nat /\ DOMAIN raw.prices = 1..Len(raw.prices)
    BY <2>1, LenProperties
  <2> QED
    BY <2>1, <2>2 DEF Readable
<1> HIDE DEF len
<1>2. len \in 0..2 /\ Readable(raw) \subseteq 1..len
  BY <1>1, SMT
<1>3. \A i \in Readable(raw) : i \in 1..2 /\ i <= len
  BY <1>2, SMT
<1>4. ASSUME NEW i \in Nth(raw, 2) PROVE i = 2 /\ 1 \in Readable(raw) /\ 2 \in Readable(raw)
  <2>1. i \in Readable(raw) /\ Cardinality(Before(i)) = 1
    BY <1>4 DEF Nth
  <2>2. Before(i) # {}
    <3> SUFFICES ASSUME Before(i) = {} PROVE FALSE
      OBVIOUS
    <3>1. Cardinality({}) = 1
      BY <2>1, Zenon
    <3>2. Cardinality({}) = 0
      BY FS_EmptySet, Zenon
    <3> QED
      BY <3>1, <3>2, SMT
  <2>3. PICK j \in Readable(raw) : j < i
    BY <2>2
  <2>4. i \in 1..2 /\ j \in 1..2
    <3>1. i \in Readable(raw) /\ j \in Readable(raw)
      BY <2>1, <2>3
    <3> QED
      BY <3>1, <1>3, Zenon
  <2>5. i = 2 /\ j = 1
    BY <2>3, <2>4, SMT
  <2> QED
    BY <2>1, <2>3, <2>5
<1>5. 1 \in Readable(raw) /\ 2 \in Readable(raw) /\ Nth(raw, 2) \subseteq {2}
  BY <1>4
<1>6. Len(raw.prices) = 2
  <2>1. len = 2
    BY <1>2, <1>3, <1>5, SMT
  <2> QED
    BY <2>1 DEF len
<1>7. ASSUME NEW i \in Nth(raw, 1) PROVE i = 1
  <2>1. i \in Readable(raw) /\ Cardinality(Before(i)) = 0
    BY <1>7 DEF Nth
  <2>2. IsFiniteSet(Before(i))
    <3>1. 1 \in Int /\ 2 \in Int /\ Before(i) \subseteq 1..2
      BY <1>3
    <3>2. IsFiniteSet(1..2)
      BY <3>1, FS_Interval
    <3> QED
      BY <3>1, <3>2, FS_Subset
  <2>3. Before(i) = {}
    BY <2>1, <2>2, FS_EmptySet
  <2>4. ~ (1 < i) /\ i \in 1..2
    BY <1>3, <1>5, <2>1, <2>3
  <2> QED
    BY <2>4, SMT
<1> QED
  BY <1>5, <1>6, <1>7

\* Two prices that are set are the two that were given.
LEMMA BothPricesOwn ==
  ASSUME NEW raw \in RawMarkets, Len(raw.prices) <= 2, Price(raw, 1) # 0, Price(raw, 2) # 0
  PROVE  raw.prices = <<Price(raw, 1), Price(raw, 2)>>
<1>1. Nth(raw, 1) # {} /\ Nth(raw, 2) # {}
  BY DEF Price
<1>2. Len(raw.prices) = 2 /\ Nth(raw, 1) = {1} /\ Nth(raw, 2) = {2}
  BY <1>1, SecondIsSecond
<1>3. Price(raw, 1) = raw.prices[1] /\ Price(raw, 2) = raw.prices[2]
  BY <1>2 DEF Price
<1>4. raw.prices \in Seq(Int \cup {Unreadable})
  BY RawFields DEF IsRaw
<1> QED
  BY <1>2, <1>3, <1>4, SMT

\* A market with no more prices than two that REST makes ready was given both:
\* skipping those that do not parse never hands one to the wrong token then.
THEOREM PricesOwn == Spec => []ReadyPricesAreOwn
<1>1. ASSUME ListInv, NEW m \in ToSet(loaded), m # None, Len(m.raw.prices) <= 2,
             m.price["YES"] # 0, m.price["NO"] # 0
      PROVE  m.raw.prices = <<m.price["YES"], m.price["NO"]>>
  <2>1. PICK k \in 1..Len(loaded) : m = loaded[k]
    BY <1>1, ElementsOf DEF ListInv, ListTypes
  <2>2. PICK raw \in RawMarkets : m = Market(raw)
    BY <1>1, <2>1 DEF ListInv, Filtered, Genuine
  <2>3. m.raw = raw /\ m.price["YES"] = Price(raw, 1) /\ m.price["NO"] = Price(raw, 2)
    BY <2>2 DEF Market
  <2> QED
    BY <1>1, <2>3, BothPricesOwn
<1>2. ListInv => ReadyPricesAreOwn
  BY <1>1 DEF ReadyPricesAreOwn
<1> QED
  BY <1>2, ListInvariance, PTL

\* A market that passes the filters is one the settings promise.
LEMMA AcceptedIsPromised ==
  ASSUME env \in Environments, NEW raw \in RawMarkets, Accepted(raw)
  PROVE  Promised(raw)
<1> DEFINE min  == env.MIN_LIQUIDITY_USD
           max  == env.MAX_LIQUIDITY_USD
           days == env.MAX_DAYS_UNTIL_RESOLUTION
<1>1. /\ raw.group_end \in Int \cup Odd /\ raw.end \in Int \cup Odd
      /\ raw.liquidity \in Int \cup {Unreadable}
  BY RawFields DEF IsRaw, Dates
<1>2. Liquidity(raw) \in Int
  BY <1>1 DEF Liquidity
<1>3. min \notin Odd => Liquidity(raw) >= min
  BY Settings DEF Accepted, LiquidEnough
<1>4. max \notin Odd /\ max > 0 => Liquidity(raw) <= max
  BY Settings DEF Accepted, LiquidEnough
<1>5. ~ (env.EXCLUDE_CRYPTO_MINUTES /\ raw.crypto)
  BY Settings DEF Accepted
<1>6. ASSUME days \notin Odd, days > 0, NEW date \in Int \cup Odd, date \notin Odd, EndDate(raw) = date
      PROVE  date < (days * 24 + 1) * 60
  <2>1. date \in Int /\ date \notin {None, Empty} /\ date # Unreadable
    BY <1>6 DEF Odd
  <2>2. Hours(date) \in -24..cfg.max_days * 24
    BY <1>6, <2>1 DEF Accepted, InWindow
  <2>3. cfg.max_days = days /\ days \in Int
    BY <1>6, Settings
  <2> HIDE DEF days
  <2>4. CASE date >= 0
    BY <2>1, <2>2, <2>3, <2>4, SMT DEF Hours
  <2>5. CASE date < 0
    BY <1>6, <2>1, <2>3, <2>5, SMT
  <2> QED
    BY <2>1, <2>4, <2>5, SMT
<1>7. days \notin Odd /\ days > 0 =>
        /\ raw.group_end \notin Odd => raw.group_end < (days * 24 + 1) * 60
        /\ raw.group_end = None /\ raw.end \notin Odd => raw.end < (days * 24 + 1) * 60
  BY <1>1, <1>6 DEF EndDate, Odd
<1> QED
  BY <1>3, <1>4, <1>5, <1>7 DEF Promised

\* Every market that is loaded is within the settings, for every environment.
THEOREM FiltersKept == Spec => []FiltersHold
<1>1. ASSUME ListInv, NEW m \in ToSet(loaded), m # None PROVE Promised(m.raw)
  <2>1. PICK k \in 1..Len(loaded) : m = loaded[k]
    BY <1>1, ElementsOf DEF ListInv, ListTypes
  <2>2. PICK raw \in RawMarkets : m = Market(raw) /\ Accepted(raw)
    BY <1>1, <2>1 DEF ListInv, Filtered, Genuine
  <2>3. m.raw = raw
    BY <2>2 DEF Market
  <2> QED
    BY <1>1, <2>2, <2>3, AcceptedIsPromised DEF ListInv, ListTypes
<1>2. ListInv => FiltersHold
  BY <1>1 DEF FiltersHold
<1> QED
  BY <1>2, ListInvariance, PTL
=============================================================================

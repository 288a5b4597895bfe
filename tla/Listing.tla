--------------------------------- MODULE Listing ---------------------------------
(***************************************************************************)
(* Where the market list comes from: Config.load (src/src/config.rs) reads *)
(* the filters once, GammaClient.fetch_active_markets (src/src/api/        *)
(* gamma.rs) asks for page after page by offset and converts what it gets, *)
(* do_refresh (src/src/main.rs) keeps the list or, on any error, the one   *)
(* it had.  The list at Gamma changes between two pages.                   *)
(*                                                                         *)
(* Times are minutes from the fetch, which is short beside the window.     *)
(***************************************************************************)
EXTENDS Integers, Sequences, FiniteSets, SequencesExt

CONSTANTS
  Servers,      \* lists Gamma may hold at the start
  Newcomers,    \* markets that may join it later
  Environments, \* what Config.load may find in the environment
  LIMIT,        \* markets per page (100)
  REFRESHES,    \* bound: fetches begun
  CHANGES,      \* bound: markets that join or leave
  FAILURES,     \* bound: pages that fail
  None,         \* a field or setting that is missing
  Unreadable,   \* one that does not parse
  Empty         \* a date given as ""

ASSUME PageAssumption == LIMIT \in Nat \ {0}
ASSUME BoundAssumption == {REFRESHES, CHANGES, FAILURES} \subseteq Nat

Legs == {"YES", "NO"}

Odd   == {None, Unreadable, Empty}
Dates == Int \cup Odd   \* a date, or a number of the environment

\* A RawMarket.  complete: it has an id and at least two token ids that parse;
\* crypto: is_crypto_minute holds of its question and slug.  Nothing ties the
\* number of prices to the number of tokens.
IsRaw(raw) ==
  /\ DOMAIN raw = {"id", "complete", "active", "prices", "group_end", "end", "liquidity", "crypto"}
  /\ {raw.complete, raw.active, raw.crypto} \subseteq BOOLEAN
  /\ raw.prices \in Seq(Int \cup {Unreadable})
  /\ raw.group_end \in Dates /\ raw.end \in Dates
  /\ raw.liquidity \in Int \cup {Unreadable}

ASSUME RawAssumption ==
  /\ \A list \in Servers :
       list \in Seq(ToSet(list)) /\ IsInjective(list) /\ \A raw \in ToSet(list) : IsRaw(raw)
  /\ \A raw \in Newcomers : IsRaw(raw) /\ \A list \in Servers : raw \notin ToSet(list)

ASSUME EnvironmentAssumption ==
  Environments \subseteq [MIN_LIQUIDITY_USD : Dates, MAX_LIQUIDITY_USD : Dates,
                          MAX_DAYS_UNTIL_RESOLUTION : Dates, EXCLUDE_CRYPTO_MINUTES : BOOLEAN]

VARIABLES
  env,        \* the environment Config.load found; never changes
  server,     \* Gamma's list (external)
  fetching,   \* is a refresh between two pages?
  hung,       \* has the request been sent into a silence? (network)
  offset,     \* of the next page
  markets,    \* converted so far
  error,      \* did the last fetch return Err?
  loaded,     \* the list do_refresh last kept
  steady,     \* history: has the list stood still since the fetch began?
  joined,     \* history: markets that joined since then
  skipped,    \* history: markets that moved up from the offset to before it
  turned,     \* history: markets that moved back from before the offset to it
  refreshes, changes, failures   \* counters of the bounds

fetch   == <<fetching, hung, offset, markets, error, loaded>>
history == <<steady, joined, skipped, turned>>
bounds  == <<refreshes, changes, failures>>
vars    == <<env, server, fetch, history, bounds>>

-----------------------------------------------------------------------------
\* ---- Config.load ----

UNLIMITED == 1000000000

\* dec: missing and unreadable numbers are 0.
Dec(setting) == IF setting \in Odd THEN 0 ELSE setting

OrDefault(value, default) == IF value = 0 THEN default ELSE value

\* EXCLUDE_CRYPTO_MINUTES is on when it says "true" in any case.
cfg ==
  [min_liquidity  |-> Dec(env.MIN_LIQUIDITY_USD),
   max_liquidity  |-> OrDefault(Dec(env.MAX_LIQUIDITY_USD), UNLIMITED),
   max_days       |-> LET days == env.MAX_DAYS_UNTIL_RESOLUTION
                      IN IF days \in Odd THEN 3 ELSE IF days < 1 THEN 1 ELSE days,
   exclude_crypto |-> env.EXCLUDE_CRYPTO_MINUTES]

-----------------------------------------------------------------------------
\* ---- convert_market ----

\* The indices of the prices that parse.
Readable(raw) == {i \in DOMAIN raw.prices : raw.prices[i] # Unreadable}

\* The index of the n-th of them: the others are skipped, and the next one takes
\* their place.
Nth(raw, n) ==
  {i \in Readable(raw) : Cardinality({j \in Readable(raw) : j < i}) = n - 1}

\* Mutated Price: a price beside the only one that parses is its complement to a
\* dollar.
PriceCompleted(raw, n) ==
  IF Nth(raw, n) # {} THEN raw.prices[CHOOSE i \in Nth(raw, n) : TRUE]
                      ELSE 10000 - raw.prices[CHOOSE i \in Nth(raw, 1) : TRUE]

Price(raw, n) ==
  IF Nth(raw, n) # {} THEN raw.prices[CHOOSE i \in Nth(raw, n) : TRUE] ELSE 0

\* num_hours truncates towards zero.
Hours(minutes) == IF minutes >= 0 THEN minutes \div 60 ELSE - ((- minutes) \div 60)

\* Mutated EndDate: the event's date before the group item's.
EndDateOfEvent(raw) == IF raw.end # None THEN raw.end ELSE raw.group_end

EndDate(raw) == IF raw.group_end # None THEN raw.group_end ELSE raw.end

\* Without a date, or with "", there is nothing to test.
InWindow(raw) ==
  \/ EndDate(raw) \in {None, Empty}
  \/ /\ EndDate(raw) # Unreadable
     /\ Hours(EndDate(raw)) \in -24 .. cfg.max_days * 24

Liquidity(raw) == IF raw.liquidity = Unreadable THEN 0 ELSE raw.liquidity

LiquidEnough(raw) ==
  /\ Liquidity(raw) >= cfg.min_liquidity
  /\ cfg.max_liquidity > 0 => Liquidity(raw) <= cfg.max_liquidity

Accepted(raw) ==
  /\ raw.complete /\ raw.active
  /\ InWindow(raw)
  /\ LiquidEnough(raw)
  /\ ~ (cfg.exclude_crypto /\ raw.crypto)

\* A Market: the fields that are copied, and the prices of its two tokens.
Market(raw) == [raw |-> raw, price |-> [YES |-> Price(raw, 1), NO |-> Price(raw, 2)]]

ConvertMarket(raw) == IF Accepted(raw) THEN Market(raw) ELSE None

\* The markets of a page.  A refused one leaves None in its place here, where
\* the code pushes nothing.
Converted(raws) == [i \in 1..Len(raws) |-> ConvertMarket(raws[i])]

-----------------------------------------------------------------------------
\* ---- fetch_active_markets, called by do_refresh ----

Init ==
  /\ env \in Environments
  /\ server \in Servers
  /\ fetching = FALSE /\ hung = FALSE /\ offset = 0 /\ markets = <<>> /\ error = FALSE /\ loaded = <<>>
  /\ steady = TRUE /\ joined = {} /\ skipped = {} /\ turned = {}
  /\ refreshes = 0 /\ changes = 0 /\ failures = 0

Begin ==
  /\ ~ fetching
  /\ refreshes < REFRESHES
  /\ refreshes' = refreshes + 1
  /\ fetching' = TRUE /\ offset' = 0 /\ markets' = <<>>
  /\ steady' = TRUE /\ joined' = {} /\ skipped' = {} /\ turned' = {}
  /\ UNCHANGED <<env, server, hung, error, loaded, changes, failures>>

\* What Gamma answers to limit=LIMIT&offset=offset.
Page == SubSeq(server, offset + 1, IF offset + LIMIT < Len(server) THEN offset + LIMIT
                                                                   ELSE Len(server))

\* Mutated ShortPage: a full page is taken for the last one.
ShortAtOnce == Len(Page) <= LIMIT

ShortPage == Len(Page) < LIMIT

\* Mutated Advanced: one market too far.
AdvancedPast == offset + LIMIT + 1

\* Mutated Advanced: pages overlap by one market.
AdvancedShort == offset + LIMIT - 1

Advanced == offset + LIMIT

TakePage ==
  /\ fetching /\ ~ hung /\ ~ ShortPage
  /\ markets' = markets \o Converted(Page)
  /\ offset' = Advanced
  /\ UNCHANGED <<env, server, fetching, hung, error, loaded, history, bounds>>

TakeLastPage ==
  /\ fetching /\ ~ hung /\ ShortPage
  /\ markets' = markets \o Converted(Page)
  /\ loaded' = markets'
  /\ fetching' = FALSE /\ error' = FALSE
  /\ UNCHANGED <<env, server, hung, offset, history, bounds>>

\* Mutated Kept: what was fetched before the error is used.
KeptPartly == markets

\* "refresh error": do_refresh returns, the old list stands.
Kept == loaded

Abandon ==
  /\ fetching' = FALSE /\ error' = TRUE
  /\ loaded' = Kept

\* The connection breaks, the status is no success, or the body does not
\* decode.
PageFails ==
  /\ fetching /\ ~ hung
  /\ failures < FAILURES
  /\ failures' = failures + 1
  /\ Abandon
  /\ UNCHANGED <<env, server, hung, offset, markets, history, refreshes, changes>>

\* Mutated HasTimeout: a client with no timeout, as reqwest's default.
HasTimeoutNot == FALSE

HasTimeout == TRUE

\* The client gives a request 30 s.
TimesOut ==
  /\ fetching /\ hung
  /\ HasTimeout
  /\ hung' = FALSE
  /\ Abandon
  /\ UNCHANGED <<env, server, offset, markets, history, bounds>>

-----------------------------------------------------------------------------
\* ---- Gamma (external) ----

\* The market at the offset, and the one before it.
AtOffset     == {server[i] : i \in {offset + 1} \cap 1..Len(server)}
BeforeOffset == {server[i] : i \in {offset} \cap 1..Len(server)}

Join(raw, i) ==
  /\ changes < CHANGES
  /\ changes' = changes + 1
  /\ raw \notin ToSet(server)
  /\ server' = InsertAt(server, i, raw)
  /\ steady' = FALSE
  /\ joined' = joined \cup {raw}
  /\ turned' = turned \cup (IF i <= offset THEN BeforeOffset ELSE {})
  /\ UNCHANGED <<env, fetch, skipped, refreshes, failures>>

Leave(i) ==
  /\ changes < CHANGES
  /\ changes' = changes + 1
  /\ server' = RemoveAt(server, i)
  /\ steady' = FALSE
  /\ skipped' = skipped \cup (IF i <= offset THEN AtOffset ELSE {})
  /\ UNCHANGED <<env, fetch, joined, turned, refreshes, failures>>

\* The request gets no answer.
Hang ==
  /\ fetching /\ ~ hung
  /\ failures < FAILURES
  /\ failures' = failures + 1
  /\ hung' = TRUE
  /\ UNCHANGED <<env, server, fetching, offset, markets, error, loaded, history, refreshes, changes>>

Fetch == TakePage \/ TakeLastPage

Next ==
  \/ Begin \/ Fetch \/ PageFails \/ TimesOut \/ Hang
  \/ \E raw \in Newcomers, i \in 1..Len(server) + 1 : Join(raw, i)
  \/ \E i \in 1..Len(server) : Leave(i)

Spec == Init /\ [][Next]_vars

\* An answer that was not lost arrives, and time passes.
FairSpec == Spec /\ WF_vars(Fetch) /\ WF_vars(TimesOut)

-----------------------------------------------------------------------------
\* ---- Properties ----

Ends == fetching /\ ~ fetching'

\* The variables have their types; the offset never runs past the end of a
\* list that stands still (gamma.rs:61-96).
TypeOK ==
  /\ cfg.max_days >= 1 /\ cfg.max_liquidity # 0
  /\ fetching \in BOOLEAN /\ hung \in BOOLEAN /\ (hung => fetching) /\ error \in BOOLEAN /\ steady \in BOOLEAN
  /\ offset \in Nat
  /\ fetching /\ steady => offset <= Len(server)
  /\ Len(markets) >= offset
  /\ refreshes \in 0..REFRESHES /\ changes \in 0..CHANGES /\ failures \in 0..FAILURES

\* A fetch is all or nothing: from a list that stands still it brings every
\* market that passes the filters, once and in Gamma's order, however many
\* pages that takes, and on any error nothing at all (gamma.rs:64-97, main.rs:
\* 197-200).
FetchIsExact ==
  [][Ends /\ steady => loaded' = IF error' THEN loaded ELSE Converted(server)]_vars

\* "Fetch all active binary markets matching configured filters" (gamma.rs:57)
\* from a list that moves between the pages: a market that is listed all the
\* while is missed only if it stood right at the offset when one before it
\* left.  Joins never cost a market.
MissedOnlyIfSkipped ==
  [][Ends /\ ~ error' =>
       \A raw \in ToSet(server) \ (joined \cup skipped) :
         Accepted(raw) => Market(raw) \in ToSet(loaded')]_vars

\* The other half: a market is loaded twice only if it joined meanwhile or
\* was turned back over the offset by one that did (gamma.rs:68-96; a market
\* listed twice is subscribed to twice).  Leaves never double a market.
DoubledOnlyIfTurned ==
  [][Ends /\ ~ error' =>
       \A i, j \in 1..Len(loaded') :
         i < j /\ loaded'[i] = loaded'[j] /\ loaded'[i] # None
           => loaded'[i].raw \in joined \cup turned]_vars

\* Prices that are skipped shift the rest (gamma.rs:119-123, 169-179), yet do
\* not make a market ready by REST as long as Gamma gives no more prices than
\* the two tokens have, which nothing checks: where both prices are set, not
\* zero, they are then the ones Gamma gave for those tokens.
ReadyPricesAreOwn ==
  \A m \in ToSet(loaded) \ {None} :
    /\ Len(m.raw.prices) <= 2
    /\ m.price["YES"] # 0 /\ m.price["NO"] # 0
    => m.raw.prices = <<m.price["YES"], m.price["NO"]>>

\* What the settings promise (src/README.md:94-96, 102) of every market that is
\* loaded, whatever the environment leaves out or garbles: liquidity between
\* the limits that are set, and an end within the days that are set, to the
\* hour.  A group item's date is the market's own; "" switches the test off.
Promised(raw) ==
  LET min == env.MIN_LIQUIDITY_USD  max == env.MAX_LIQUIDITY_USD  days == env.MAX_DAYS_UNTIL_RESOLUTION
      Soon(date) == date < (days * 24 + 1) * 60
  IN /\ min \notin Odd => Liquidity(raw) >= min
     /\ max \notin Odd /\ max > 0 => Liquidity(raw) <= max
     /\ days \notin Odd /\ days > 0 =>
          /\ raw.group_end \notin Odd => Soon(raw.group_end)
          /\ raw.group_end = None /\ raw.end \notin Odd => Soon(raw.end)
     /\ ~ (env.EXCLUDE_CRYPTO_MINUTES /\ raw.crypto)

FiltersHold == \A m \in ToSet(loaded) \ {None} : Promised(m.raw)

\* Every refresh comes to an end, with a list or an error, however many pages
\* there are, wherever the list changes and whether or not Gamma answers:
\* main() waits for the first one, and the ticker loop does nothing else
\* meanwhile (gamma.rs:48-52, 93-96, main.rs:140-156).
FetchEnds == fetching ~> ~ fetching

=============================================================================

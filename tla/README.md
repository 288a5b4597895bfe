# Verification of the Polymarket arbitrage engine

TLA+ models of the engine in `src/`, model-checked with TLC, with theorems checked by TLAPS.
The engine watches pairs of YES/NO order books, and when the two best asks add up to less than a
dollar it fires two fill-or-kill orders in one batch, waits, asks what became of them, and writes
what it saw to SQLite.

Paths below are relative to the repository; `main.rs` means `src/src/main.rs`, and so on.

## 1. The system

| component | state it keeps | operations | works with |
|---|---|---|---|
| **Config** `config.rs` | settings read once from the environment | `load`, `maker_address` | read by everyone |
| **Gamma client** `api/gamma.rs` | none | `fetch_active_markets` (pages of 100 by offset), `convert_market`, `is_crypto_minute` | called by `do_refresh` |
| **Orchestrator** `main.rs` | the price channel, one watch channel per connection, `active_markets`, `current_balance`, `exec_locks`, `cooldowns` | `main`, the price consumer, the ticker loop, `do_refresh` | all the others |
| **WebSocket feed** `api/websocket.rs` | per connection: `current_ids`, the socket | connect, subscribe, resubscribe, ping, `parse_and_dispatch`, `dispatch_event` | watch channels in, price channel out |
| **Analyzer** `analyzer/mod.rs` | `states` and `token_map`, each under its own RwLock; `boot_time` | `load_markets`, `update_price`, `analyze` | refresh task and price consumer |
| **Trade execution** `main.rs:255-390` | per attempt: the opportunity, the guard, ids, statuses; shared: locks, cooldowns, balance | `spawn_trade`, `check_fill`, `record_leg_risks` | executor, CLOB client, database |
| **Executor** `executor/mod.rs` | none | `execute`: two payloads, one batch, dry run | CLOB client, signer |
| **CLOB client** `api/clob.rs` | HTTP client with a 15 s timeout | `get_balance`, `get_order_status`, `create_order_payload`, `post_batch_orders` | the exchange |
| **Signer** `signer/mod.rs` | the key | `build_buy_order`, EIP-712 hashing, `sign_order`, `order_to_json` | CLOB client |
| **Database** `db/mod.rs` | tables `alerts`, `trades`, `leg_risks`, `near_misses`, `stats` | `insert_*`, `upsert_stat`, `migrate` | tasks write, dashboard reads |
| **Models** `models.rs` | plain data | – | – |
| **Dashboard** `dashboard/` | none | read-only pages; a banner when `leg_risks` is not empty | database |
| **Reference signer** `py_signer.py` | none | prints one signature | – |

How they interact: the ticker loop calls `do_refresh` every 30 s, which fetches the market list,
loads it into the analyzer, analyses every listed market, and sends each connection its shard. The
connections push price updates into one unbounded channel; one consumer applies them to the
analyzer. Both the refresh and the consumer hand opportunities to `spawn_trade`, which checks a
cooldown and spawns one task per opportunity. Tasks share a mutex and a cooldown per market and one
cached balance, refreshed by two independent fetches.

What is hard, and where correctness lies:

- *Trade execution.* Tasks for one market race for a mutex that `try_lock` does not wait for; the
  cooldown is read before the task exists and written after the mutex is taken. The POST may fail
  after the exchange executed it. The two legs are accepted, filled, killed and queried one by one.
  The process may stop between any two awaits and remembers nothing. Correct means: at most one
  attempt per market at a time, no new batch while the last one settles, and tables that tell the
  truth about every concluded attempt.
- *Analyzer.* Two maps under two locks, changed by a refresh while updates and analyses run on other
  threads. Correct means: the maps agree, the book is what was last heard, only listed markets trade,
  and an opportunity is computed from the book as it is.
- *Pricing.* A size fixed from raw prices, padding, three roundings. Correct means: the two signed
  orders cost less than they pay out, reach the quote, and fit depth and position.
- *Feed.* Lists change while connections connect, subscribe, sleep and break. Correct means: every
  connection ends up streaming its latest shard, no market is lost between shards, nothing is
  interrupted without need.
- *The way of a price.* Events wait on several sockets, their changes in several listeners, the
  updates in one channel, while refreshes list, move and prune markets. Correct means: the analyzer
  ends up with the exchange's last word, and never goes back to an older one.
- *Gamma client.* Defensive parsing, pages cut by offset from a list that moves, requests that fail or
  hang while everyone waits. Correct means: all or nothing, every market that passes the filters and
  no other, each once, and an end.

## 2. Modules

| module | what it is |
|---|---|
| `TradeExecution` | the core: spawn_trade and its task, executor and CLOB outcomes, balance fetches, tables, restarts |
| `MarketGate` | abstract: one market's gate (open, deciding, firing, settling), implemented by the tasks |
| `TradeExecutionProofs` | the theorems about the core: types, exclusion, settlement gap, the stale balance, refinement |
| `SettlementProofs` | the theorems about the tables: what is recorded of a concluded attempt |
| `MCTradeExecution` | constants for TLC |
| `Pricing` | operators: analyze_unlocked's arithmetic and build_buy_order's amounts |
| `OrderPath`, `MCOrderPath` | one quote through decision and order building, over a grid |
| `Analyzer`, `MCAnalyzer` | states, token_map, arming, pruning, snapshot analysis; uses `Pricing` for the decision |
| `PriceBook` | abstract: a book of quotes and the opportunities read off it, implemented by `Analyzer` and by `PriceFlow` |
| `AnalyzerProofs` | the theorems about the analyzer |
| `PricingProofs`, `OrderPathProofs` | lemmas about the operators of `Pricing`, and the theorems about the signed orders |
| `Listing`, `MCListing` | settings, pagination over a changing list, conversion and filters |
| `ListingProofs` | the theorems about a fetch |
| `WsFeed`, `MCWsFeed` | sharding, watch channels, connections |
| `FeedProofs` | the theorems about sharding, wakeups, subscriptions and reconnects |
| `PriceFlow`, `MCPriceFlow` | composition: the exchange's events, `WsFeed`'s connections, listeners, channel, analyzer's book, refreshes |
| `FlowProofs` | the theorems about the order of prices, and that `PriceFlow` implements `WsFeed` and `PriceBook` |

### TradeExecution

One action is one stretch of a task between two awaits. `pc[t]` is the await at which attempt `t`'s
task stands: `spawned` (main.rs:281), `balance`, `alert`, `execute`, `posted` (waiting for the POST),
`settling` (the 3 s sleep), `query_yes/no`, `trade_yes/no`, `risk_yes/no`, `miss`, `done`; `dropped`
is a task the runtime dropped at Ctrl-C. The function `Following` is the order of the straight-line
steps, `lock`/`exec_locks`/`guard` are the mutexes by identity (an `entry().or_insert_with` allocates
one, a task clones it, `_guard` holds it), `cooldowns` holds ages rather than instants. `Stop` is
Ctrl-C or a kill: every task is dropped, the memory is gone, requests already sent go on.

The exchange is external: `PlaceBatch` accepts, rejects, fills or kills each leg on its own;
`DecideOrder` decides late ones. Costs of legs are small numbers: the tasks only add and compare them.

`FAULTS` names what may go wrong in a run: `query`, `balance` (an answer without a balance, read as
0), `garbled` (an answer about orders without the fields looked for), `db` (inserts fail), `delay` (an
order decided after its acceptance), `stop`. Under `garbled` the answer to the batch may give a leg no
id or the empty one (`EmptyId`) whatever the exchange did with it (`AnsweredIds`), and a query may be
answered by a 200 that has neither `status` nor `size_matched`, which the code reads as `("", 0)` and
so as not filled (`FillAnswers`; the blank status is called `VOID`).

Two history variables serve `SettleGap`: `quiet`, the ticks since a market's last batch was answered,
and `latest`, whose batch it was. Time goes on across restarts, so `quiet` survives `Stop`; a restart
may drop the task that was asleep (`Abandoned`), and that is the one way round the gap.

### MarketGate

A market's gate is open or has a holder in one of three phases, and a holder that settles leaves only
after the settlement time, unless a `Crash` opens the gate and forgets it. The settlement the gate knows
of is that of its present holder (`QuietView`). `Holder(m)` is whoever holds the mutex `exec_locks` maps
`m` to; the refinement says that the detour over mutex identities, restarts and failed calls never lets
two attempts through one gate.

### Pricing and OrderPath

Prices and shares are integers in 1/10000, amounts in 10^-8 and micro-units; divisions of the code are
compared after multiplying out. `OrderPath` takes a quote through `Analyze` and `Execute`.

### Analyzer

`states[m]` is the `MarketState` record or `None`; the token ids of a market are `<<m, "YES">>` and
`<<m, "NO">>` (Gamma does not change them while a market lives; a list that named other tokens for a
known market is not modelled). `LoadMarkets` is the whole of
`load_markets` under both write locks and starts the snapshot loop; `Analyze` is one turn of that loop
under the read lock; `UpdatePrice` is one update under the write lock. `grace` is the five minutes
after boot. Updates are arbitrary: any token, any time, any order, with or without a price.

### Listing

`env` is what `Config::load` finds: a number, `None` for a setting that is missing, `Unreadable` for
one that does not parse. `cfg` is what the code makes of it (0 and the defaults included). A raw market
keeps the fields the conversion looks at; those that are only copied are left out. `Begin` is the
ticker's call, `TakePage`/`TakeLastPage` one turn of the page loop, `PageFails` any of its three `?`,
`TimesOut` the client's 30 s. The list at Gamma is external: `Join` and `Leave` put a market anywhere
and take one from anywhere, `Hang` swallows a request. `convert_market` refuses by returning `None`;
the model keeps that `None` in the list, the code pushes nothing.

The history variables name the accidents of offset paging: `skipped` (a market slid from the offset to
before it because one in front left) and `turned` (one was pushed back over the offset by one that
joined). `MissedOnlyIfSkipped` and `DoubledOnlyIfTurned` say that there are no others.

A raw market has any number of prices, each a number or `Unreadable`, as `convert_market` checks their
number nowhere. `ReadyPricesAreOwn` is therefore stated for markets that were given no more than two:
there a skipped price leaves a hole and the market is not ready. With three, the
first unreadable, it is false: the other two become YES and NO and the market is ready.

### WsFeed

`Fetch` gives `do_refresh` a list, `SendShard`/`BreakOff` are the turns of its sending loop; per
listener `Connect`, `ConnectFails`, `Subscribe`, `Resubscribe`, `SameShard`, `NoticeBreak`, `Pause`
follow the task from await to await. `link` and `streamed` are the socket and the server.
`HandshakeHangs` is the other side that accepts a connection and says nothing: `connect_async` has no
timeout, and no action leads out of it. A socket may fall silent as well (`BreakLink`), and as the code
waits for no pong, nothing obliges the listener to notice. `Stuck` are the listeners in either state. A
list may name a market twice, as `Listing` shows it may.

### PriceFlow

Extends `WsFeed` and puts prices on its connections. A price is the number of the event that announced
it. `Move` is an event of the exchange, pushed to every connection that streams the market; `Read` and
`Dispatch` are `parse_and_dispatch` and the turns of `dispatch_event`'s loop (only SELL changes are
sent), between which the other listeners and the consumer run; `Reopen` is a listener that gives its
socket up, with what it has not read; `Consume` is `update_price` in the consumer; `Refresh` is
`WsFeed`'s `Fetch` together with what `load_markets` does to the book (a market that stays keeps it).

Two history variables name the gaps: `lost` (an ask that no connection streamed, that went with a
socket, or that came while its market was not listed) and `doubled` (the market came over two
connections at once, which happens when it moves between shards). Both are needed: without either,
TLC refutes the properties. `doubled` is not a loophole for the feed: `DoubledOnlyIfMoved` says that only
lists that place a market on two connections put it there.

Seen through `PriceBook`, the flow has asks and no sizes (`QuoteView`), hands nothing on, and hears one
leg of a listed market at a time; `ImplementsBook` says that channel, reconnects and refreshes add
nothing to what the analyzer promises of its book.

## 3. Runs

| run | instance | shows |
|---|---|---|
| `settlement` | 1 market, 1 attempt, every pair of outcomes and answers: failing queries, garbled answers, late decisions, restarts, dry and real, fair | types; a paired leg is flagged; no fill goes unrecorded (`NoSilentFill`); the verdict is complete; rows name their order; trades are real; alert before fire; a dry run is inert; tasks end (`AttemptEnds`); answered batches are judged (`AnsweredIsJudged`) |
| `gate` | 2 markets, 2 attempts, 2 balance fetches that overlap and may answer nothing, restarts, dry and real | attempts exclude each other (`OneAttemptPerMarket`) and respect the settlement (`SettleGap`); a stale balance refuses nothing that could be paid (`RefusedCannotPay`); `ImplementsGate` |
| `analyzer` | 2 markets, 2 REST price pairs, 3 asks, 2 depths | `TokenMapCoherent`, `BookIsLastHeard`, `OnlyListedTrade`, `NoColdTrade`, `ImplementsBook` |
| `order_path` | 18 asks x 7 depths per leg, defaults | `PaysOut`, `LegWithinPosition`, `WithinDepth`, `LimitReachesQuote`, `BetterIsTaken` |
| `feed` | 2 connections of 2 markets, 7 lists, 3 refreshes, 2 failures (connects, sockets, handshakes), fair | sharding loses nothing (`EveryMarketSharded`), no wakeup is lost (`NoLostWakeup`), every connection that is not stuck converges, and a stuck one costs its own shard only (`FeedConverges`, `ListedIsStreamed`) |
| `listing` | pages of 2, lists of 0 to 5, one market per shape of its fields, 3 environments, 2 fetches, 2 changes, 1 failure, fair | a fetch is exact or nothing; what it misses or doubles is explained; filters hold; ready prices are the market's own; every fetch ends |
| `flow` | 2 markets, 2 connections, 2 lists, 2 refreshes, 2 events, 1 failure | `BookIsCurrent`, `NeverBackwards` across connections, channel and refreshes |
| `cooldown`, `single_leg`, `lost_reply`, `thin_margin`, `zombie` | the smallest that fail | see section 6 |

Why the bounds are enough. Attempts only meet at a market's mutex, its cooldown and its settlement: a
third one adds no new meeting, and exclusion, gap and the tables are proved for any number. In `gate`
the two attempts meet on one market or only at the account, in every state of the other; `COOLDOWN =
SETTLE = 1`, since a task reads the cooldown before it waits for its turn and is not held up by it
there; `cooldown` and the other small runs use 3 and 2. They cost 3 each, by an account of 3: one of
them can be paid, and which answers the guard acts on, older or newer, is open. In `settlement` one
attempt is enough, since a task judges its legs by nothing that another one writes, and another one
makes `try_lock` fail, never wait; so that every fault of orders and answers fits in at once. Every
outcome of two legs is enumerated. The grid of `order_path` surrounds each threshold of the decision:
the redline, the dollar, one percent, five shares, and sizes that leave fractions of a cent; one depth
exceeds the position limit, one falls short of the minimum. The lists of `feed` cover: empty, shorter
than the number of connections, uneven, reordered, shifted, too long. Three lists in a row let one
arrive while a listener is still busy with each of the two before. The lists of `listing` are empty,
one page exactly, two pages, and two and a half, with refused markets in between, so that the last
page is empty, short, or comes after a refused one; two changes let one market leave and one join
around the offset, in any order; the single-market lists enumerate every shape of prices, dates and
liquidity around each threshold. In `flow` the second list moves a market from one connection to the
other and drops the first, two events are the least that can overtake one another, and their shapes
have both asks at once and a bid beside the ask that mirrors it. What these properties say is proved
without the bounds (section 4), and so are properties that no run repeats: `AnsweredEndsJudged` of the
tasks, `QuietIsStreamed`, `StreamsOwnShard`, `StreamedOnce` and `SteadyFeed` of the feed,
`DoubledOnlyIfMoved` and `ImplementsBook` of the flow. A cfg can name them; TLC agrees on the
instances above.

Fairness. `settlement`: each task's next step and time (`WF`); tokio polls ready tasks, sleeps end,
HTTP calls end by answer or timeout (clob.rs:30). The exchange is under no fairness. `feed`: the
sending loop and what each listener does by itself (`Proceed`): sleeps end, an answered handshake
ends, and `select!` picks ready branches at random, so a pending change is eventually taken. Noticing
that a socket broke is not among it, and a handshake that hangs stays so. Failures are bounded by
`FAILURES` in number, not in time. `listing`: an answer
that was not lost is processed, and the 30 s of a request pass. Nothing obliges Gamma to answer, to
stand still, or anyone to begin another refresh.

`CHECK_DEADLOCK FALSE` stands where the model ends by itself: a quote that is refused or signed, a
feed that has used up its refreshes and is settled, a listing or a flow whose fetches, changes and
events are used up.

## 4. Proofs

`TradeExecutionProofs` proves for any markets, attempts, costs, fetches, times and faults:

- `TypeCorrect`, `MutualExclusion` (`OneAttemptPerMarket`), `SettleGapHolds` (`SettleGap`),
  `TradesTrue` (`TradesAreReal`), `RefusalsJustified` (`RefusedCannotPay`), `Refinement`
  (`ImplementsGate`).

All rest on one inductive invariant `Inv`: types; what each `pc` value implies about the task's own
variables (`PcInv`); a mutex is held exactly by the task inside its critical section, and every task
of a market that is not over holds the mutex `exec_locks` maps the market to (`LockInv`: this is what
makes mutual exclusion inductive, the mutex alone is not enough since tasks name it by identity);
while a market's last batch settles, the task that sent it is the one still asleep, or a restart
dropped it, and no task has slept longer than its market has been quiet (`QuietInv`, which with the
mutex gives `SettleGap`);
a `FILLED` status stands for a filled order (`OrderInv`). Each step is proved action by action, the
refinement by mapping each action to a gate action or a stutter.

`RefusalsJustified` adds `FundsInv` (`BalanceOverstated`): the cached balance and every answer under way
are 0 or no less than what the account holds. It is inductive because nothing in the system puts money
back: an answer was right when it was given, and orders only spend afterwards, so overlapping fetches
may be applied in either order. Deposits and redemptions by the owner are outside the model; after
one, an attempt may be refused until the next balance tick.

`SettlementProofs` proves, for the same generality, the properties of the tables: `PairedLegsFlagged`,
`NoFillSilent`, `VerdictsComplete`, `RiskRowsTrue`, `AlertFirst` and `DryRunInert`. The invariant
`SettleInv` is `Inv` with three parts. `AlertInv`: an attempt that can send a batch has its alert.
`IdsInv`: ids are the order's own or empty, a leg without one was rejected or its answer was garbled,
and an order whose query said it had not filled never will, unless the answer was inconclusive.
`RecordInv`: what the rows written so far owe to each step of the settlement, so that at `done` nothing
is owed; none of the three properties of the tables is inductive alone, since a row is promised several
steps before it is written. Where `db` is among the faults, the properties about missing rows say
nothing, as the code does nothing about it. Under `garbled` and `delay` they hold: `NoFillSilent` then
leaves a filled order the near miss whose reason gives the inconclusive answer, and says that those
answers are the only way to lose more. `EndsJudged` (`AnsweredEndsJudged`) is the safety half of
`AnsweredIsJudged`: whichever steps `Following` leaves out for the statuses found, `done` is not reached
from `settling` without a verdict on each leg.

`AnalyzerProofs` proves for any markets, prices, sizes and configuration:

- the invariants `AnalyzerTypes` (`TypeOK`), `MapsAgree` (`TokenMapCoherent`), `BookTrue`
  (`BookIsLastHeard`), the action properties `ListedOnly` (`OnlyListedTrade`) and `ColdNever`
  (`NoColdTrade`), and `BookRefinement` (`ImplementsBook`).

The inductive invariant adds two facts. Exactly the markets of the list last loaded have a state, and
the snapshot loop only runs over those (`ListedHaveState`): without it an update or a later turn of
the loop could answer for a market that was pruned. Only an update arms a market (`ArmedWasSpoken`):
arming is what the code tests, having been spoken of is what the property says. The refinement maps
`LoadMarkets` to `List`, `Analyze` to `Judge` or `Rest`, and `UpdatePrice` to `Hear`, or to `Judge`
when the update has no ask; it needs that a quote is never the absent entry, which is assumed of
`None`.

`OrderPathProofs` proves about the signed orders, for any configuration without zeros and any grid,
from the lemmas of `PricingProofs` about rounding, padding and sizing:

- `PaysOutAlways` (`PaysOut`): if the margin left by threshold and padding over the smallest size is
  worth two cents (`SafeMargin`, true of the defaults, false of a threshold of 0.2 %), the signed pair
  costs less than it pays out, whatever the quote. The condition is needed: `thin_margin` shows what
  happens without it. Why two cents: each leg's amount is rounded up by less than one.
- `PositionRespected` (`LegWithinPosition`): each order by itself stays within the position, "max
  investment per leg" (README.md:90), if the padding is no more than the smallest price a leg may have
  (`SmallPadding`, true of the defaults). Nothing is claimed of the two together: the code divides the
  position by the raw sum, so at a sum of 0.99 the padded pair costs about 6.009 of 6. The condition is
  needed: a size fixed at the raw sum and a large padding let one leg cost more than the position; the
  theorem's comment has the example.
- `LimitReaches` (`LimitReachesQuote`), `DepthRespected` (`WithinDepth`) and `BetterAlwaysTaken`
  (`BetterIsTaken`, the monotonicity of the whole decision) with no condition.

`ListingProofs` proves, for any page size, lists, environments, changes and failures: `ListingTypes`
(`TypeOK`), `FetchedExactly` (`FetchIsExact`), `OnlySkippedMissed` (`MissedOnlyIfSkipped`),
`OnlyTurnedDoubled` (`DoubledOnlyIfTurned`), `FiltersKept` (`FiltersHold`) and `PricesOwn`
(`ReadyPricesAreOwn`, for markets with no more prices than two: of two readable prices none is skipped,
so the first and the second readable one are the first and the second; the condition is needed, and
stands in the property). The invariant `ListInv`
says where a market of the list stands while the pages are read: what was fetched is the converted
beginning of a list that stood still (`FetchedSoFar`); a market that is before the offset was fetched,
joined or skipped (`Passed`); one that is not before it and was fetched joined or was turned
(`NotAhead`); nothing was fetched twice otherwise (`FetchedOnce`). Joins and leaves shift positions by
one, and each of these is stable under the shift only with its history variable.

`FeedProofs` proves, for any number of connections, capacity, lists and failures:

- `FeedTypes` (`TypeOK`), `NoMarketUnsharded` (`EveryMarketSharded`) and `NoNeedlessBreak`
  (`SteadyFeed`);
- `WakeupsKept` (`NoLostWakeup`) and `AllStreamedWhenQuiet` (`QuietIsStreamed`): the safety halves of
  `FeedConverges` and `ListedIsStreamed`, of listeners that are not stuck. Whatever order lists,
  failures and turns of `select!` come in, the feed cannot come to rest on anything but the last list;
  that it comes to rest is left to TLC;
- `OwnShardOnly` (`StreamsOwnShard`) and `NeverStreamedTwice` (`StreamedOnce`);
- `NoZombieWhenListsReach` (`NoZombieSubscription`), if every list reaches the last connection
  (`ListsReachAll`). The condition is needed: the run `zombie` has a list that does not, and the loop of
  `do_refresh` breaks off before the connections behind it.

The invariant `FeedInv` has two parts beside types. The connections behind the one being sent to hold
their shard of the last list (`ShardsSent`); what remains of sharding is arithmetic: shards rounded up
cover the list, do not overlap, and fit the capacity when the list does. A channel that
does not say it changed holds the list its listener has adopted, and a connection that is up streams
the adopted list unless its socket broke (`Wired`); `NoLostWakeup` alone is not inductive, since it says
nothing of a listener that is connecting or asleep while the next list arrives.

`FlowProofs` proves, for any markets, connections, lists, events and failures: `FeedUnderFlow`
(`PriceFlow` implements `WsFeed`), `FlowTypes` (`FlowTypeOK`), `BookCatchesUp` (`BookIsCurrent`),
`BookOnlyForward` (`NeverBackwards`), `MovedIfDoubled` (`DoubledOnlyIfMoved`), `UnmovedOnlyForward` and
`FlowRefinesBook` (`ImplementsBook`). The invariant `FlowInv` follows a token's asks through the
pipeline: none is newer than the exchange (`Bounded`); from the book over the channel and the listener
to the wire they are in order (`InOrder`); the last one is in the book or on its way
(`LastUnderway`); and a market that never came over two connections is streamed or held by one at
most (`SingleSource`), which is what makes the order survive a listener's send into the shared
channel. A market that moves between shards may break it, hence the hypothesis `doubled`.
`AtHome` discharges that hypothesis: what a connection holds, wants or is about to be sent was given to it
by some list, so a market with one home never comes over two connections (`MovedIfDoubled`), and its
book never goes back, with no hypothesis on the behaviour (`UnmovedOnlyForward`). In `FlowRefinesBook`,
`Refresh` is `List`, `Consume` is `Hear` or, for a market that was dropped while its update was in the
channel, a stutter; everything else stutters. With `BookRefinement`, both users of the book implement one
abstraction.

Only model-checked: everything temporal under fairness (`AttemptEnds`, `AnsweredIsJudged`,
`FeedConverges`, `ListedIsStreamed`, `FetchEnds`), since TLAPS proves no liveness here; of all but
`AttemptEnds` and `FetchEnds` the safety half is proved. Every invariant and every action property of a
passing run is stated by a theorem. Lemmas about sequences are proved from their elements; what needs an
induction over a sequence is avoided, e.g. `Listing` counts the readable prices in front of one instead
of filtering the sequence. The assumptions are those on the constants that the modules name
(`PricingAssumption`, `InputAssumption`, `NoneAssumption`, `RawAssumption` and their like); TLC
evaluates each of them in the runs.

## 5. Not modelled

- JSON, HTTP and WebSocket framing, logging, statistics, the dashboard's pages, `migrate`,
  `l2_headers` (HMAC). `get_positions` and `post_order` are not called by the engine.
- Of a market: the fields that are only copied (question, slug, volume, `neg_risk`), and how
  `is_crypto_minute` reads a question; it is a flag of the raw market.
- Which level of the exchange's book a change is about: the code takes every changed SELL price for
  the best ask, and a model that told them apart would need the exchange's whole book. `PriceFlow`
  orders the changes, whatever they carry. Opportunities seen between two changes of one event (a new
  YES beside an old NO) are not refuted by any document.
- EIP-712 hashing, ECDSA and the JSON of an order: out of TLC's reach, covered by the repository's own
  unit test against `py_signer.py`.
- Panics (`expect` on a token id that is not decimal, signer/mod.rs:231; a slice inside a character,
  gamma.rs:80) and lock poisoning after them.
- A write to a socket that blocks: the subscription and the pings fit the socket's buffers, and a
  listener that waited in one would be stuck as one with a hung handshake is.
- Database errors are an option of `TradeExecution` (`"db"`); the audit properties are stated without
  them, since a lost row is what they would show.

## 6. Where documents and code disagree

Each has a run that finds it.

- `cooldown`: main.rs:268 promises 5 s per market; tasks spawned together follow each other at once.
- `single_leg`: README.md:183 calls any filled leg beside an unfilled one a single-leg risk; a leg
  rejected on arrival leaves no row in `leg_risks` and the banner stays down.
- `lost_reply`: a POST that times out and is executed leaves its fills in no table.
- `thin_margin`: rounding up to cents after the analyzer's "final safety check" signs a pair that costs
  its payout when the threshold is as low as the README's 0.2 %.
- `zombie`: a list shorter than the number of connections leaves old shards on the last ones.

Met while modelling, without a run: `NUM_WS_CONNECTIONS` is documented and ignored (config.rs:76);
Ctrl-C ("Graceful shutdown", main.rs:175) drops tasks in flight; of the entries the dashboard titles
"FOK Rejects & Failures" (index.html:52) README.md:169 says that no funds have left the wallet, and a
near miss with one filled leg is among them; a balance of 0 disables the balance guard (main.rs:292),
and `get_balance` turns any body without a balance into 0; an update without a price arms a market
although `armed` is documented as "at least one live WS price update" (analyzer/mod.rs:39); a
"self-reconnecting" listener (websocket.rs:47) stays in a handshake that is never answered; with
`DRY_RUN=true` the id `DRY_RUN` is queried and two UNCONFIRMED rows raise the dashboard's banner;
"Fetch all active binary markets matching configured filters" (gamma.rs:57) misses and doubles markets
when the list moves under the offset; "Index 0 is YES, Index 1 is NO" (gamma.rs:169) fails when the
first price does not parse, since unreadable ones are skipped; with two prices such a market is not
ready by REST, but the first update of its NO token makes it so; a group item with the date "" is not
tested against the window that README.md:96 promises; a setting of 0 is replaced by a default
(config.rs:45), and the default threshold is 1 %, not the 2 % of README.md:99; any changed SELL level
is stored as `best_ask` (websocket.rs:167); prices lost during a reconnect are never asked for again;
the "snapshot analysis" of a refresh judges the REST prices of the first listing, not of this one;
"max investment per leg" is applied to both legs together (analyzer/mod.rs:194).

## 7. Plan

Done: the core and its tables, the analyzer and its refinement, pricing, the market list, the feed, and
the composition of feed, channel and book, each with its theorems. What is left:

1. *Engine.* `PriceFlow` with `Analyzer`'s whole state instead of its book, and `spawn_trade` behind it,
   so that the opportunities of one event in two halves can be followed into a batch.
2. *Exchange.* An order book behind the events, for the difference between a changed level and the
   best ask.
3. *Balance.* Attempts on several markets that spend one balance are sent although the account holds
   enough for one only; what the exchange's rejection then leaves in the tables, over two markets.
4. *Proofs.* What `MarketGate` and `PriceBook` promise by themselves, stated once and inherited through
   the refinements; a bound on the pages of a fetch, as the safety half of `FetchEnds`.

---------------------------- MODULE TradeExecution ----------------------------
(***************************************************************************)
(* The life of a trade attempt: spawn_trade (src/src/main.rs) decides      *)
(* whether an opportunity becomes a task, the task takes the market's      *)
(* mutex, checks the balance, submits the YES and NO orders as one batch   *)
(* (src/src/executor/mod.rs, src/src/api/clob.rs), sleeps, asks what       *)
(* became of each order, and writes the audit tables (src/src/db/mod.rs).  *)
(*                                                                         *)
(* One action is one stretch of a task between two awaits.  Any number of  *)
(* tasks, the balance fetches, the exchange and Ctrl-C interleave.  The    *)
(* exchange is external; it is modelled by the answers the code handles.   *)
(* Time is a Tick; ages stop counting once they no longer matter.          *)
(***************************************************************************)
EXTENDS Integers, FiniteSets

CONSTANTS
  Markets,    \* market ids
  Attempts,   \* opportunities handed to spawn_trade, each at most once
  LegCosts,   \* possible padded costs of the two legs of an opportunity
  Fetches,    \* get_balance calls that can be in flight together
  FUNDS,      \* the account's USDC at the start
  COOLDOWN,   \* ticks of the per-market cooldown (5 s)
  SETTLE,     \* ticks slept before the orders are queried (3 s)
  DRY_RUNS,   \* values Config.dry_run may have
  FAULTS,     \* what may go wrong: see Faults
  None,       \* an absent Option, an unset value
  DryRunId,   \* the order id "DRY_RUN"
  EmptyId     \* the order id ""

Sides == {"YES", "NO"}

(* "query": GET /order fails.  "balance": a balance answer without the     *)
(* "balance" field.  "garbled": an answer about orders lacks the fields    *)
(* looked for.  "db": an INSERT fails.  "delay": an accepted order is      *)
(* decided later than its acceptance.  "stop": Ctrl-C or a kill.           *)
Faults == {"query", "balance", "garbled", "db", "delay", "stop"}

ASSUME CostAssumption == LegCosts \subseteq [Sides -> Nat \ {0}]
ASSUME TimeAssumption == COOLDOWN \in Nat \ {0} /\ SETTLE \in Nat \ {0}
ASSUME FundsAssumption == FUNDS \in Nat
ASSUME FaultAssumption == FAULTS \subseteq Faults /\ DRY_RUNS \subseteq BOOLEAN
VARIABLES
  running,          \* is the process up?
  dry_run,          \* Config.dry_run
  pc,               \* where each attempt's task is
  opp,              \* the ArbitrageOpportunity the task owns
  lock,             \* the Arc<Mutex> the task cloned
  exec_locks,       \* DashMap: market -> mutex
  guard,            \* mutex -> the task that holds it
  cooldowns,        \* DashMap: market -> age of its Instant; COOLDOWN when old or absent
  sleep,            \* ticks the task has slept
  ids,              \* ExecutionResult.id_yes, id_no
  status,           \* check_fill's answer for each leg
  current_balance,  \* Mutex<f64>; 0 until the first answer
  fetch,            \* balance answers in flight
  alerts, trades, leg_risks, near_misses,   \* the tables of rarb.db
  batch,            \* the POST /orders request
  order,            \* each leg at the exchange
  wallet,           \* USDC at the exchange
  quiet,            \* history: ticks since the market's last answered batch
  latest            \* history: the attempt whose batch that was

process  == <<running, dry_run>>
gate     == <<exec_locks, guard, cooldowns>>
local    == <<opp, lock, sleep, ids, status>>
funds    == <<current_balance, fetch>>
tables   == <<alerts, trades, leg_risks, near_misses>>
exchange == <<batch, order, wallet>>
history  == <<quiet, latest>>
vars == <<process, pc, gate, local, funds, tables, exchange, history>>

-----------------------------------------------------------------------------
QueryStep == [YES |-> "query_yes", NO |-> "query_no"]
TradeStep == [YES |-> "trade_yes", NO |-> "trade_no"]
RiskStep  == [YES |-> "risk_yes",  NO |-> "risk_no"]
\* Mutated Following: the alert row is skipped on the way to the order.
FollowingUnlogged ==
  [balance |-> "execute", query_yes |-> "query_no", query_no |-> "trade_yes",
   trade_yes |-> "trade_no", trade_no |-> "risk_yes", risk_yes |-> "risk_no", risk_no |-> "miss"]

\* Mutated Following: the second leg's query is skipped.
FollowingOneQuery ==
  [balance |-> "alert", alert |-> "execute", query_yes |-> "trade_yes",
   trade_yes |-> "trade_no", trade_no |-> "risk_yes", risk_yes |-> "risk_no", risk_no |-> "miss"]

\* The step after each step that does not branch.
Following == [balance   |-> "alert",    alert     |-> "execute",
              query_yes |-> "query_no", query_no  |-> "trade_yes",
              trade_yes |-> "trade_no", trade_no  |-> "risk_yes",
              risk_yes  |-> "risk_no",  risk_no   |-> "miss"]

\* Steps during which the task holds _guard.
Critical == {"balance", "alert", "execute", "posted", "settling", "query_yes", "query_no",
             "trade_yes", "trade_no", "risk_yes", "risk_no", "miss"}
Live  == Critical \cup {"spawned"}
Ended == {"done", "dropped"}

Opportunities == [market : Markets, cost : LegCosts]
OrderIds      == (Attempts \X Sides) \cup {DryRunId, EmptyId}
Reasons       == {"UNCONFIRMED", "FAILED"}
LegRisks      == [attempt : Attempts, leg : Sides, reason : Reasons, order_id : OrderIds]

\* FILLED stands for every answer that counts as a fill, LIVE for one about an
\* order that may still fill, UNFILLED for one about an order that cannot, and
\* VOID for a 200 whose body has neither status nor size_matched.
Statuses      == {"NO_ID", "QUERY_ERR", "FILLED", "LIVE", "UNFILLED", "VOID"}

ASSUME NoneAssumption ==
  /\ None \notin Attempts \cup Nat \cup OrderIds \cup Opportunities \cup Statuses
  /\ {DryRunId, EmptyId} \cap (Attempts \X Sides) = {}
  /\ DryRunId # EmptyId

Market(t)   == opp[t].market
Combined(o) == o.cost["YES"] + o.cost["NO"]
Other(s)    == IF s = "YES" THEN "NO" ELSE "YES"
Older(age, limit) == IF age < limit THEN age + 1 ELSE age

Init ==
  /\ running = TRUE /\ dry_run \in DRY_RUNS
  /\ pc         = [t \in Attempts |-> "idle"]
  /\ opp        = [t \in Attempts |-> None]
  /\ lock       = [t \in Attempts |-> None]
  /\ exec_locks = [m \in Markets  |-> None]
  /\ guard      = [t \in Attempts |-> None]
  /\ cooldowns  = [m \in Markets  |-> COOLDOWN]
  /\ sleep      = [t \in Attempts |-> 0]
  /\ ids        = [t \in Attempts |-> [s \in Sides |-> None]]
  /\ status     = [t \in Attempts |-> [s \in Sides |-> None]]
  /\ current_balance = 0
  /\ fetch      = [f \in Fetches |-> None]
  /\ alerts = {} /\ trades = {} /\ leg_risks = {} /\ near_misses = {}
  /\ batch      = [t \in Attempts |-> "none"]
  /\ order      = [t \in Attempts |-> [s \in Sides |-> "none"]]
  /\ wallet     = FUNDS
  /\ quiet      = [m \in Markets |-> SETTLE]
  /\ latest     = [m \in Markets |-> None]

-----------------------------------------------------------------------------
\* ---- The gate: spawn_trade up to the mutex ----

At(t, step) == running /\ pc[t] = step
Goto(t, step) == pc' = [pc EXCEPT ![t] = step]

\* Every return of the task drops _guard.
Leave(t) ==
  /\ Goto(t, "done")
  /\ guard' = [guard EXCEPT ![lock[t]] = None]

Cooling(m) == cooldowns[m] < COOLDOWN

\* Mutated EntryLock: every call allocates its own mutex.
EntryLockFresh(t, m) == t

\* exec_locks.entry(mid).or_insert_with(Mutex::new): a new mutex is named
\* after the attempt whose call allocates it.
EntryLock(t, m) == IF exec_locks[m] = None THEN t ELSE exec_locks[m]

\* The synchronous part: a cooling market returns, otherwise a task is spawned.
Spawn(t, o) ==
  /\ At(t, "idle")
  /\ ~ Cooling(o.market)
  /\ Goto(t, "spawned")
  /\ opp'  = [opp EXCEPT ![t] = o]
  /\ lock' = [lock EXCEPT ![t] = EntryLock(t, o.market)]
  /\ exec_locks' = [exec_locks EXCEPT ![o.market] = EntryLock(t, o.market)]
  /\ UNCHANGED <<process, guard, cooldowns, sleep, ids, status, funds, tables, exchange, history>>

\* Mutated TryLock: the task goes on whatever try_lock answers.
TryLockIgnored(t) == TRUE

TryLock(t) == guard[lock[t]] = None

\* lock.try_lock() succeeds; the cooldown starts here.
Acquire(t) ==
  /\ At(t, "spawned")
  /\ TryLock(t)
  /\ guard' = [guard EXCEPT ![lock[t]] = t]
  /\ cooldowns' = [cooldowns EXCEPT ![Market(t)] = 0]
  /\ Goto(t, "balance")
  /\ UNCHANGED <<process, exec_locks, local, funds, tables, exchange, history>>

\* lock.try_lock() fails: another attempt on the market is under way.
GiveUp(t) ==
  /\ At(t, "spawned")
  /\ ~ TryLock(t)
  /\ Goto(t, "done")
  /\ UNCHANGED <<process, gate, local, funds, tables, exchange, history>>

-----------------------------------------------------------------------------
\* ---- Firing ----

\* Mutated CannotAfford: 0 is taken for an empty account.
CannotAffordUnknown(t) == Combined(opp[t]) > 0 /\ current_balance < Combined(opp[t])

\* A balance of 0 means unknown and lets the attempt pass.
CannotAfford(t) ==
  /\ current_balance > 0
  /\ Combined(opp[t]) > 0
  /\ current_balance < Combined(opp[t])

SkipUnaffordable(t) ==
  /\ At(t, "balance")
  /\ CannotAfford(t)
  /\ Leave(t)
  /\ UNCHANGED <<process, exec_locks, cooldowns, local, funds, tables, exchange, history>>

PassBalance(t) ==
  /\ At(t, "balance")
  /\ ~ CannotAfford(t)
  /\ Goto(t, Following[pc[t]])
  /\ UNCHANGED <<process, gate, local, funds, tables, exchange, history>>

\* What a table may hold after "let _ = db.insert_...": errors are ignored.
Written(table, rows) ==
  {table \cup rows} \cup (IF "db" \in FAULTS THEN {table} ELSE {})

InsertAlert(t) ==
  /\ At(t, "alert")
  /\ alerts' \in Written(alerts, {t})
  /\ Goto(t, Following[pc[t]])
  /\ UNCHANGED <<process, gate, local, funds, trades, leg_risks, near_misses, exchange, history>>

\* create_order_payload fails for a leg: bad funder address, token id, signature.
PayloadFails(t) ==
  /\ At(t, "execute")
  /\ Leave(t)
  /\ UNCHANGED <<process, exec_locks, cooldowns, local, funds, tables, exchange, history>>

\* Mutated Submits: the dry_run flag is not looked at before the POST.
SubmitsAnyway == TRUE

Submits == ~ dry_run

DryRunExecute(t) ==
  /\ At(t, "execute") /\ ~ Submits
  /\ ids' = [ids EXCEPT ![t] = [s \in Sides |-> DryRunId]]
  /\ Goto(t, "settling")
  /\ UNCHANGED <<process, gate, opp, lock, sleep, status, funds, tables, exchange, history>>

PostBatch(t) ==
  /\ At(t, "execute") /\ Submits
  /\ batch' = [batch EXCEPT ![t] = "sent"]
  /\ Goto(t, "posted")
  /\ UNCHANGED <<process, gate, local, funds, tables, order, wallet, history>>

\* Per leg: Some(id) of an accepted order, None for a rejected one.  A garbled
\* answer has too few entries, or one without a string "orderID" or "id"
\* (None), or with an empty one (Some("")), whatever became of the order.
AnsweredIds(t) ==
  {answer \in [Sides -> {None, EmptyId} \cup ({t} \X Sides)] :
     \A s \in Sides :
       \/ answer[s] = IF order[t][s] = "rejected" THEN None ELSE <<t, s>>
       \/ "garbled" \in FAULTS /\ answer[s] \in {None, EmptyId, <<t, s>>}}

BatchAnswered(t) ==
  /\ At(t, "posted")
  /\ batch[t] = "placed"
  /\ \E answer \in AnsweredIds(t) : ids' = [ids EXCEPT ![t] = answer]
  /\ quiet'  = [quiet EXCEPT ![Market(t)] = 0]
  /\ latest' = [latest EXCEPT ![Market(t)] = t]
  /\ Goto(t, "settling")
  /\ UNCHANGED <<process, gate, opp, lock, sleep, status, funds, tables, exchange>>

\* Mutated MayFail: no timeout, so only an answer ends the call.
NeverTimesOut(t) == batch[t] = "placed"

\* Whatever became of the request, the call may fail: connection error, 15 s
\* timeout, an error object instead of an array.
MayFail(t) == batch[t] \in {"sent", "placed"}

\* The request may be lost, still under way, or already executed.
BatchFails(t) ==
  /\ At(t, "posted")
  /\ MayFail(t)
  /\ Leave(t)
  /\ UNCHANGED <<process, exec_locks, cooldowns, local, funds, tables, exchange, history>>

-----------------------------------------------------------------------------
\* ---- Settlement: what became of the two legs ----

\* Mutated Slept: the orders are queried without waiting for them to settle.
SleptNot(t) == TRUE

Slept(t) == sleep[t] = SETTLE

Wake(t) ==
  /\ At(t, "settling")
  /\ Slept(t)
  /\ Goto(t, "query_yes")
  /\ UNCHANGED <<process, gate, local, funds, tables, exchange, history>>

\* Mutated Matched: an order that is still live counts as filled.
NotKilled(t, s) == order[t][s] # "killed"

\* Status FILLED or MATCHED, or size_matched > 0.
Matched(t, s) == order[t][s] = "filled"

\* What the exchange says of the order when it says it.
OrderAnswer(t, s) ==
  CASE Matched(t, s)        -> "FILLED"
    [] order[t][s] = "live" -> "LIVE"
    [] OTHER                -> "UNFILLED"

\* The exchange knows no order "DRY_RUN" or "", so such a query never succeeds.
\* A 200 without status and size_matched is read as ("", 0), filled or not.
FillAnswers(t, s) ==
  IF ids[t][s] = None THEN {"NO_ID"}
  ELSE (IF ids[t][s] \in {DryRunId, EmptyId} THEN {"QUERY_ERR"} ELSE {OrderAnswer(t, s)})
         \cup (IF "query" \in FAULTS THEN {"QUERY_ERR"} ELSE {})
         \cup (IF "garbled" \in FAULTS THEN {"VOID"} ELSE {})

CheckFill(t, s) ==
  /\ At(t, QueryStep[s])
  /\ \E answer \in FillAnswers(t, s) : status' = [status EXCEPT ![t][s] = answer]
  /\ Goto(t, Following[pc[t]])
  /\ UNCHANGED <<process, gate, opp, lock, sleep, ids, funds, tables, exchange, history>>

Filled(t, s) == status[t][s] = "FILLED"

\* Mutated BothFilled: one filled leg is taken for a completed pair.
AnyFilled(t) == \E s \in Sides : Filled(t, s)

BothFilled(t) == \A s \in Sides : Filled(t, s)

InsertTrade(t, s) ==
  /\ At(t, TradeStep[s])
  /\ trades' \in Written(trades, IF Filled(t, s) THEN {<<t, s>>} ELSE {})
  /\ IF s = "NO" /\ BothFilled(t)
     THEN Leave(t)
     ELSE Goto(t, Following[pc[t]]) /\ UNCHANGED guard
  /\ UNCHANGED <<process, exec_locks, cooldowns, local, funds,
                 alerts, leg_risks, near_misses, exchange, history>>

\* Mutated RiskRow: the other leg's order id (the bug "Go FIX #4" names).
RiskRowSwapped(t, s, reason) ==
  [attempt |-> t, leg |-> s, reason |-> reason, order_id |-> ids[t][Other(s)]]

RiskRow(t, s, reason) == [attempt |-> t, leg |-> s, reason |-> reason, order_id |-> ids[t][s]]

\* Mutated Unpaired: the row is written without an order id to put in it.
UnpairedNoId(t, s) == Filled(t, s) /\ status[t][Other(s)] \notin {"FILLED", "QUERY_ERR"}

\* Mutated Unpaired: only a filled YES leg is looked at.
UnpairedYes(t, s) ==
  s = "YES" /\ Filled(t, s) /\ status[t]["NO"] = "UNFILLED"

\* Leg s filled and the other one certainly did not, and its id is known.
Unpaired(t, s) ==
  /\ Filled(t, s)
  /\ status[t][Other(s)] \notin {"FILLED", "QUERY_ERR"}
  /\ ids[t][Other(s)] # None

\* Mutated Unconfirmed: a failed query is only reported beside a filled leg.
UnconfirmedBesideFill(t, s) == status[t][s] = "QUERY_ERR" /\ Filled(t, Other(s))

Unconfirmed(t, s) == status[t][s] = "QUERY_ERR"

\* The half of record_leg_risks that starts from leg s.
RiskRows(t, s) ==
  (IF Unpaired(t, s) THEN {RiskRow(t, Other(s), "FAILED")} ELSE {})
    \cup (IF Unconfirmed(t, s) THEN {RiskRow(t, s, "UNCONFIRMED")} ELSE {})

InsertLegRisk(t, s) ==
  /\ At(t, RiskStep[s])
  /\ leg_risks' \in Written(leg_risks, RiskRows(t, s))
  /\ Goto(t, Following[pc[t]])
  /\ UNCHANGED <<process, gate, local, funds, alerts, trades, near_misses, exchange, history>>

InsertNearMiss(t) ==
  /\ At(t, "miss")
  /\ near_misses' \in Written(near_misses, {t})
  /\ Leave(t)
  /\ UNCHANGED <<process, exec_locks, cooldowns, local, funds,
                 alerts, trades, leg_risks, exchange, history>>

-----------------------------------------------------------------------------
\* ---- Balance fetches ----

\* The exchange answers with its present balance, or with a body that has no
\* "balance" field, which get_balance reads as 0.
AnswerBalance(f) ==
  /\ running
  /\ fetch[f] = None
  /\ \E b \in {wallet} \cup (IF "balance" \in FAULTS THEN {0} ELSE {}) :
        fetch' = [fetch EXCEPT ![f] = b]
  /\ UNCHANGED <<process, pc, gate, local, current_balance, tables, exchange, history>>

ApplyBalance(f) ==
  /\ running
  /\ fetch[f] # None
  /\ current_balance' = fetch[f]
  /\ fetch' = [fetch EXCEPT ![f] = None]
  /\ UNCHANGED <<process, pc, gate, local, tables, exchange, history>>

-----------------------------------------------------------------------------
\* ---- The exchange (external) ----

Spent(t, result) ==
  (IF result["YES"] = "filled" THEN opp[t].cost["YES"] ELSE 0)
    + (IF result["NO"] = "filled" THEN opp[t].cost["NO"] ELSE 0)

\* Each leg of a batch is accepted or rejected on its own, and a FOK order is
\* filled or killed on the spot unless its decision is delayed.
PlaceBatch(t) ==
  /\ batch[t] = "sent"
  /\ \E result \in [Sides -> {"rejected", "filled", "killed"}
                               \cup (IF "delay" \in FAULTS THEN {"live"} ELSE {})] :
        /\ Spent(t, result) <= wallet
        /\ order'  = [order EXCEPT ![t] = result]
        /\ wallet' = wallet - Spent(t, result)
  /\ batch' = [batch EXCEPT ![t] = "placed"]
  /\ UNCHANGED <<process, pc, gate, local, funds, tables, history>>

DecideOrder(t, s) ==
  /\ order[t][s] = "live"
  /\ \E result \in {"filled", "killed"} :
        LET paid == IF result = "filled" THEN opp[t].cost[s] ELSE 0 IN
        /\ paid <= wallet
        /\ order'  = [order EXCEPT ![t][s] = result]
        /\ wallet' = wallet - paid
  /\ UNCHANGED <<process, pc, gate, local, funds, tables, batch, history>>

-----------------------------------------------------------------------------
\* ---- Time and the process ----

\* Time passes whether or not the process is up.
Tick ==
  /\ cooldowns' = [m \in Markets |-> Older(cooldowns[m], COOLDOWN)]
  /\ sleep' = [t \in Attempts |-> IF pc[t] = "settling" THEN Older(sleep[t], SETTLE) ELSE sleep[t]]
  /\ quiet' = [m \in Markets |-> Older(quiet[m], SETTLE)]
  /\ UNCHANGED <<process, pc, opp, lock, exec_locks, guard, ids, status, funds, tables, exchange, latest>>

\* main returns on Ctrl-C (or the process is killed): the runtime drops every
\* task at its await and the memory is gone.  Requests already sent are not.
Stop ==
  /\ running /\ "stop" \in FAULTS
  /\ running' = FALSE
  /\ pc'         = [t \in Attempts |-> IF pc[t] \in Live THEN "dropped" ELSE pc[t]]
  /\ exec_locks' = [m \in Markets  |-> None]
  /\ guard'      = [t \in Attempts |-> None]
  /\ cooldowns'  = [m \in Markets  |-> COOLDOWN]
  /\ current_balance' = 0
  /\ fetch'      = [f \in Fetches |-> None]
  /\ UNCHANGED <<dry_run, local, tables, exchange, history>>

Start ==
  /\ ~ running
  /\ running' = TRUE
  /\ UNCHANGED <<dry_run, pc, gate, local, funds, tables, exchange, history>>

-----------------------------------------------------------------------------
TaskStep(t) ==
  \/ Acquire(t) \/ GiveUp(t)
  \/ SkipUnaffordable(t) \/ PassBalance(t) \/ InsertAlert(t)
  \/ PayloadFails(t) \/ DryRunExecute(t) \/ PostBatch(t)
  \/ BatchAnswered(t) \/ BatchFails(t)
  \/ Wake(t)
  \/ \E s \in Sides : CheckFill(t, s) \/ InsertTrade(t, s) \/ InsertLegRisk(t, s)
  \/ InsertNearMiss(t)

Next ==
  \/ \E t \in Attempts, o \in Opportunities : Spawn(t, o)
  \/ \E t \in Attempts : TaskStep(t)
  \/ \E f \in Fetches : AnswerBalance(f) \/ ApplyBalance(f)
  \/ \E t \in Attempts : PlaceBatch(t)
  \/ \E t \in Attempts, s \in Sides : DecideOrder(t, s)
  \/ Tick \/ Stop \/ Start

Spec == Init /\ [][Next]_vars

\* tokio polls every ready task, sleeps end, and every HTTP call ends within
\* its 15 s timeout.  Nothing is assumed of the exchange.
Fairness == WF_vars(Tick) /\ \A t \in Attempts : WF_vars(TaskStep(t))
FairSpec == Spec /\ Fairness

-----------------------------------------------------------------------------
\* ---- Properties that hold ----

TaskTypes ==
  /\ pc \in [Attempts -> {"idle"} \cup Live \cup Ended]
  /\ opp \in [Attempts -> Opportunities \cup {None}]
  /\ lock \in [Attempts -> Attempts \cup {None}]
  /\ sleep \in [Attempts -> 0..SETTLE]
  /\ ids \in [Attempts -> [Sides -> OrderIds \cup {None}]]
  /\ status \in [Attempts -> [Sides -> Statuses \cup {None}]]

GateTypes ==
  /\ running \in BOOLEAN /\ dry_run \in BOOLEAN
  /\ exec_locks \in [Markets -> Attempts \cup {None}]
  /\ guard \in [Attempts -> Attempts \cup {None}]
  /\ cooldowns \in [Markets -> 0..COOLDOWN]
  /\ quiet \in [Markets -> 0..SETTLE]
  /\ latest \in [Markets -> Attempts \cup {None}]

FundsTypes ==
  /\ current_balance \in Nat
  /\ fetch \in [Fetches -> Nat \cup {None}]

ExchangeTypes ==
  /\ batch \in [Attempts -> {"none", "sent", "placed"}]
  /\ order \in [Attempts -> [Sides -> {"none", "rejected", "live", "filled", "killed"}]]
  /\ wallet \in Nat

TableTypes ==
  /\ alerts \subseteq Attempts
  /\ trades \subseteq Attempts \X Sides
  /\ leg_risks \subseteq LegRisks
  /\ near_misses \subseteq Attempts

\* The variables have their types.  In particular record_leg_risks never
\* writes a row without an order id (main.rs:372-386).
TypeOK == TaskTypes /\ GateTypes /\ FundsTypes /\ ExchangeTypes /\ TableTypes

\* Two attempts on one market are never between try_lock and the end of the
\* task at the same time, whenever and by whomever they were spawned
\* (main.rs:275-282: the mutex is per market and outlives the attempt).
OneAttemptPerMarket ==
  \A t, u \in Attempts :
    pc[t] \in Critical /\ pc[u] \in Critical /\ Market(t) = Market(u) => t = u

\* A restart dropped the task that was to sit out the settlement of the
\* market's last answered batch; nothing that survives remembers it.
Abandoned(m) == latest[m] # None /\ pc[latest[m]] = "dropped"

\* After a batch was answered, no batch of the same market leaves before the
\* settlement sleep is over: the cooldown cannot ensure it (it is read before
\* the mutex), the mutex held across the sleep does (main.rs:282, 307).  Time
\* goes on while the process is down, and the one way round the gap is a
\* restart that drops the sleeper (main.rs:174-178).  A batch that failed
\* starts no gap: see CooldownRespected.
SettleGap ==
  [][\A t \in Attempts :
       batch[t] = "none" /\ batch'[t] = "sent"
         => quiet[Market(t)] = SETTLE \/ Abandoned(Market(t))]_vars

\* A row of "trades" stands for an order the exchange filled, whatever was
\* delayed, lost or restarted in between (main.rs:313-326, 348-362).
TradesAreReal ==
  \A t \in Attempts, s \in Sides : <<t, s>> \in trades => order[t][s] = "filled"

\* Every leg_risks row carries the id of the leg it is about, or the empty one
\* a garbled answer gave for it, never the other leg's, and a FAILED row stands
\* beside a leg that did fill ("Go FIX #4", main.rs:371-388).
LegRisksNameTheirOrder ==
  ~ dry_run =>
    \A row \in leg_risks :
      /\ row.order_id \in {<<row.attempt, row.leg>>, EmptyId}
      /\ row.reason = "FAILED" => order[row.attempt][Other(row.leg)] = "filled"

\* The task looked at both legs and wrote what it had to write.
Concluded(t) == pc[t] = "done" /\ \A s \in Sides : status[t][s] # None

Without(faults) == FAULTS \cap faults = {}

RiskRowOf(t, s) == \E row \in leg_risks : row.attempt = t /\ row.leg = s

\* When the ids of both orders are known and exactly one is seen filled, the other
\* leg gets a leg_risks row, on either side (main.rs:363-389).
PairedLegFlagged ==
  Without({"db"}) =>
    \A t \in Attempts, s \in Sides :
      /\ Concluded(t)
      /\ \A side \in Sides : ids[t][side] # None
      /\ Filled(t, s) /\ ~ Filled(t, Other(s))
      => RiskRowOf(t, Other(s))

\* Status answers under which check_fill cannot know that an order filled, or
\* that it is about to: no id and no fields, an order still undecided.
Inconclusive ==
  (IF "garbled" \in FAULTS THEN {"NO_ID", "VOID"} ELSE {})
    \cup (IF "delay" \in FAULTS THEN {"LIVE"} ELSE {})

\* Of a concluded attempt every filled order is on record: as a trade, in
\* leg_risks, or, when its answer was inconclusive, as a near miss whose reason
\* gives that answer.  Only a garbled answer or a late decision leads to the
\* last; a fill the exchange reports, or a query that fails, never gets lost
\* (main.rs:307-341, clob.rs:117-122).
NoSilentFill ==
  Without({"db"}) =>
    \A t \in Attempts, s \in Sides :
      Concluded(t) /\ order[t][s] = "filled" =>
        \/ <<t, s>> \in trades \/ RiskRowOf(t, s)
        \/ status[t][s] \in Inconclusive /\ t \in near_misses

\* A concluded attempt is a completed pair of trades with nothing against it,
\* or a near miss, never both and never neither (main.rs:316-342).
VerdictIsComplete ==
  Without({"db"}) =>
    \A t \in Attempts :
      Concluded(t) =>
        IF {t} \X Sides \subseteq trades
        THEN t \notin near_misses /\ ~ \E s \in Sides : RiskRowOf(t, s)
        ELSE t \in near_misses

\* The alert is on disk before the money moves, so a restart in mid-flight
\* leaves a trace of every batch that was sent (main.rs:298-302).
AlertBeforeFire ==
  Without({"db"}) => \A t \in Attempts : batch[t] # "none" => t \in alerts

\* A dry run sends nothing, buys nothing and records no trade (executor
\* mod.rs:59-68).
DryRunIsInert ==
  dry_run => /\ \A t \in Attempts : batch[t] = "none"
             /\ trades = {}
             /\ wallet = FUNDS

\* A spawned task ends, whatever the exchange leaves unanswered: try_lock does
\* not wait and the HTTP client has a timeout (main.rs:281, clob.rs:30).
AttemptEnds == \A t \in Attempts : pc[t] = "spawned" ~> pc[t] \in Ended

\* An answered batch is judged on both legs, even if a query fails, unless the
\* process stops (main.rs:307-314).
AnsweredIsJudged ==
  \A t \in Attempts : pc[t] = "settling" ~> Concluded(t) \/ pc[t] = "dropped"

\* The safety half of it: whatever path an attempt takes from the answer to its
\* end, both its legs have been judged by then (main.rs:307-343).
AnsweredEndsJudged ==
  [][\A t \in Attempts :
       pc[t] \in Critical \ {"balance", "alert", "execute", "posted"} /\ pc'[t] = "done"
         => Concluded(t)']_vars

\* The balance an attempt is refused on is up to a minute old and may come from
\* either of two overlapping fetches, yet a refused attempt could not have been
\* paid: while the engine's own orders are all that moves the money, every
\* answer overstates it, and 0 refuses nothing (main.rs:157-161, 242-248, 289-296).
RefusedCannotPay ==
  [][\A t \in Attempts :
       pc[t] = "balance" /\ pc'[t] = "done" => wallet < Combined(opp[t])]_vars

\* The tasks implement the gate of MarketGate: a market's holder is whoever
\* holds the mutex that exec_locks maps it to.
Holder(m) == IF exec_locks[m] = None THEN None ELSE guard[exec_locks[m]]

Phase(t) ==
  CASE pc[t] \in {"balance", "alert", "execute"} -> "deciding"
    [] pc[t] = "posted"                          -> "firing"
    [] OTHER                                     -> "settling"

HolderView == [m \in Markets |-> Holder(m)]
PhaseView  == [m \in Markets |-> IF Holder(m) = None THEN "open" ELSE Phase(Holder(m))]

\* The settlement the gate keeps is that of the attempt it deals with.
QuietView  == [m \in Markets |-> IF PhaseView[m] = "settling" THEN quiet[m] ELSE SETTLE]

Gate == INSTANCE MarketGate
          WITH holder <- HolderView, phase <- PhaseView, quiet <- QuietView

\* Refinement: every step of the tasks is a step of the gate or leaves it
\* alone (main.rs:275-343).
ImplementsGate == Gate!Spec

-----------------------------------------------------------------------------
\* ---- Properties the code does not have ----

\* "Cooldown check (5s per market, identical to Go)" (main.rs:268): an attempt
\* starts only when the market's last one started COOLDOWN ago or more.
CooldownRespected ==
  [][\A t \in Attempts :
       pc[t] = "spawned" /\ pc'[t] = "balance" => ~ Cooling(Market(t))]_vars

\* "As long as one side is FILLED and the other is not FILLED, a single-leg
\* risk exists" (README.md:183): such an attempt shows in leg_risks, which is
\* what raises the dashboard's single-sided-fill banner (index.html:66).
SingleLegFlagged ==
  Without({"db"}) =>
    \A t \in Attempts, s \in Sides :
      Concluded(t) /\ Filled(t, s) /\ ~ Filled(t, Other(s))
        => \E row \in leg_risks : row.attempt = t

\* "The engine persists all Alerts, Trades, Leg Risks, and Near Misses"
\* (README.md:161): a filled order of a finished attempt is on record.
FillsAudited ==
  \A t \in Attempts, s \in Sides :
    pc[t] = "done" /\ order[t][s] = "filled" => <<t, s>> \in trades \/ RiskRowOf(t, s)

=============================================================================

------------------------- MODULE TradeExecutionProofs -------------------------
(***************************************************************************)
(* Theorems about TradeExecution, for every value of its constants.  The   *)
(* invariant Inv is the conjunction of five named parts, proved one lemma  *)
(* each; the properties follow from it.                                    *)
(***************************************************************************)
EXTENDS TradeExecution, TLAPS

-----------------------------------------------------------------------------
\* ---- The inductive invariant ----

Undecided == {"idle", "spawned", "balance", "alert", "execute", "posted"}
Unasked   == Undecided \cup {"settling"}
Past      == Critical \ Undecided

\* What the step of a task says of what it owns.
PcInv ==
  \A t \in Attempts :
    /\ opp[t] = None <=> pc[t] = "idle"
    /\ pc[t] \in Live => lock[t] # None
    /\ pc[t] \in Undecided => sleep[t] = 0
    /\ pc[t] \in Unasked => status[t] = [s \in Sides |-> None]
    /\ pc[t] \in Undecided \ {"posted"} => batch[t] = "none"
    /\ pc[t] = "posted" => batch[t] # "none"

\* A live task's mutex is its market's, no two markets share one, and a mutex
\* is held by the task that is past try_lock on it, and by no other.
LockInv ==
  /\ \A t \in Attempts : pc[t] \in Live => lock[t] = exec_locks[Market(t)]
  /\ \A m \in Markets : exec_locks[m] # None =>
       opp[exec_locks[m]] # None /\ Market(exec_locks[m]) = m
  /\ \A t \in Attempts : pc[t] \in Critical => guard[lock[t]] = t
  /\ \A x \in Attempts : guard[x] # None => pc[guard[x]] \in Critical /\ lock[guard[x]] = x

\* A market that has not settled yet is held by the task whose batch was last
\* answered, still asleep, unless a restart dropped it; no task has slept longer
\* than its market has been quiet; and a dry run settles nothing.
QuietInv ==
  /\ \A m \in Markets : quiet[m] # SETTLE =>
       /\ latest[m] \in Attempts /\ Market(latest[m]) = m
       /\ pc[latest[m]] \in {"settling", "dropped"}
  /\ \A t \in Attempts : pc[t] \in Past /\ ~ dry_run => latest[Market(t)] = t
  /\ \A t \in Attempts : pc[t] = "settling" => sleep[t] <= quiet[Market(t)]
  /\ dry_run => /\ \A t \in Attempts : batch[t] = "none"
                /\ \A m \in Markets : quiet[m] = SETTLE

\* An order exists once its batch is placed, a batch once its task ran; what
\* is believed of an order is true of it.
OrderInv ==
  /\ \A t \in Attempts, s \in Sides :
       /\ batch[t] # "none" => pc[t] # "idle"
       /\ batch[t] # "placed" => order[t][s] = "none"
       /\ status[t][s] = "FILLED" => order[t][s] = "filled"
       /\ status[t][s] = "QUERY_ERR" => ids[t][s] # None
  /\ TradesAreReal

Inv == TypeOK /\ PcInv /\ LockInv /\ QuietInv /\ OrderInv
-----------------------------------------------------------------------------
\* ---- Initially, and at a step that changes nothing ----

\* The ends of the two age ranges are in them.
LEMMA AgeEnds == {0, COOLDOWN} \subseteq 0..COOLDOWN /\ {0, SETTLE} \subseteq 0..SETTLE
BY TimeAssumption

\* Nothing has run: every part holds.
LEMMA InitInv == Init => Inv
<1> SUFFICES ASSUME Init PROVE Inv
  OBVIOUS
<1> USE NoneAssumption, TimeAssumption, FundsAssumption, FaultAssumption DEF Init
<1>1. TaskTypes
  BY DEF TaskTypes
<1>2. GateTypes
  BY AgeEnds DEF GateTypes
<1>3. FundsTypes /\ ExchangeTypes /\ TableTypes
  BY DEF FundsTypes, ExchangeTypes, TableTypes
<1>4. PcInv
  BY DEF PcInv, Undecided, Unasked, Live, Critical
<1>5. LockInv
  BY DEF LockInv, Live, Critical
<1>6. QuietInv
  BY DEF QuietInv, Past, Critical, Undecided
<1>7. OrderInv
  BY DEF OrderInv, TradesAreReal, Statuses
<1> QED
  BY <1>1, <1>2, <1>3, <1>4, <1>5, <1>6, <1>7 DEF Inv, TypeOK

\* A step that changes nothing breaks nothing.
LEMMA StutterInv == Inv /\ UNCHANGED vars => Inv'
BY DEF Inv, TypeOK, TaskTypes, GateTypes, FundsTypes, ExchangeTypes, TableTypes, PcInv,
       LockInv, QuietInv, OrderInv, TradesAreReal, Market,
       vars, process, gate, local, funds, tables, exchange, history

-----------------------------------------------------------------------------
\* ---- Types ----

\* Types of the task's own variables.
LEMMA TaskTypesStep ==
  ASSUME Inv, Next
  PROVE  TaskTypes'
<1> USE TimeAssumption DEF Inv, TypeOK, TaskTypes, At, Goto, local, Live, Critical, Ended
<1>1. ASSUME NEW t \in Attempts, NEW o \in Opportunities, Spawn(t, o) PROVE TaskTypes'
  <2>1. EntryLock(t, o.market) \in Attempts
    BY DEF EntryLock, GateTypes, Opportunities
  <2> QED
    BY <1>1, <2>1 DEF Spawn
<1>2. ASSUME NEW t \in Attempts, TaskStep(t) PROVE TaskTypes'
  <2>1. CASE Acquire(t) \/ GiveUp(t)
    BY <2>1 DEF Acquire, GiveUp
  <2>2. CASE SkipUnaffordable(t) \/ PayloadFails(t) \/ BatchFails(t) \/ InsertNearMiss(t)
    BY <2>2 DEF SkipUnaffordable, PayloadFails, BatchFails, InsertNearMiss, Leave
  <2>3. CASE PassBalance(t) \/ InsertAlert(t)
    <3>1. Following[pc[t]] \in Critical
      BY <2>3 DEF PassBalance, InsertAlert, Following
    <3> QED
      BY <2>3, <3>1 DEF PassBalance, InsertAlert
  <2>4. CASE DryRunExecute(t)
    BY <2>4 DEF DryRunExecute, OrderIds
  <2>5. CASE PostBatch(t) \/ Wake(t)
    BY <2>5 DEF PostBatch, Wake
  <2>6. CASE BatchAnswered(t)
    <3>1. AnsweredIds(t) \subseteq [Sides -> OrderIds \cup {None}]
      BY DEF AnsweredIds, OrderIds
    <3> QED
      BY <2>6, <3>1 DEF BatchAnswered
  <2>7. ASSUME NEW s \in Sides, CheckFill(t, s) PROVE TaskTypes'
    <3>1. FillAnswers(t, s) \subseteq Statuses
      BY DEF FillAnswers, OrderAnswer, Statuses
    <3>2. Following[pc[t]] \in Critical
      BY <2>7 DEF CheckFill, Following, QueryStep, Sides
    <3> QED
      BY <2>7, <3>1, <3>2 DEF CheckFill
  <2>8. ASSUME NEW s \in Sides, InsertTrade(t, s) PROVE TaskTypes'
    <3>1. Following[pc[t]] \in Critical
      BY <2>8 DEF InsertTrade, Following, TradeStep, Sides
    <3> QED
      BY <2>8, <3>1 DEF InsertTrade, Leave
  <2>9. ASSUME NEW s \in Sides, InsertLegRisk(t, s) PROVE TaskTypes'
    <3>1. Following[pc[t]] \in Critical
      BY <2>9 DEF InsertLegRisk, Following, RiskStep, Sides
    <3> QED
      BY <2>9, <3>1 DEF InsertLegRisk
  <2> QED
    BY <1>2, <2>1, <2>2, <2>3, <2>4, <2>5, <2>6, <2>7, <2>8, <2>9 DEF TaskStep
<1>3. CASE \E f \in Fetches : AnswerBalance(f) \/ ApplyBalance(f)
  BY <1>3 DEF AnswerBalance, ApplyBalance
<1>4. CASE \E t \in Attempts : PlaceBatch(t) \/ \E s \in Sides : DecideOrder(t, s)
  BY <1>4 DEF PlaceBatch, DecideOrder
<1>5. CASE Tick
  BY <1>5 DEF Tick, Older
<1>6. CASE Stop
  BY <1>6 DEF Stop
<1>7. CASE Start
  BY <1>7 DEF Start
<1> QED
  BY <1>1, <1>2, <1>3, <1>4, <1>5, <1>6, <1>7 DEF Next

\* Types of mutexes, guards and cooldowns.
LEMMA GateTypesStep ==
  ASSUME Inv, Next
  PROVE  GateTypes'
<1> USE TimeAssumption DEF Inv, TypeOK, GateTypes, gate, process, history
<1>1. ASSUME NEW t \in Attempts, NEW o \in Opportunities, Spawn(t, o) PROVE GateTypes'
  BY <1>1 DEF Spawn, EntryLock, Opportunities
<1>2. ASSUME NEW t \in Attempts, TaskStep(t) PROVE GateTypes'
  <2>1. CASE Acquire(t)
    BY <2>1, AgeEnds DEF Acquire
  <2>2. CASE BatchAnswered(t)
    BY <2>2, AgeEnds DEF BatchAnswered
  <2>3. CASE SkipUnaffordable(t) \/ PayloadFails(t) \/ BatchFails(t) \/ InsertNearMiss(t)
    BY <2>3 DEF SkipUnaffordable, PayloadFails, BatchFails, InsertNearMiss, Leave
  <2>4. ASSUME NEW s \in Sides, InsertTrade(t, s) PROVE GateTypes'
    BY <2>4 DEF InsertTrade, Leave
  <2>5. CASE GiveUp(t) \/ PassBalance(t) \/ InsertAlert(t) \/ DryRunExecute(t) \/ PostBatch(t)
              \/ Wake(t) \/ \E s \in Sides : CheckFill(t, s) \/ InsertLegRisk(t, s)
    BY <2>5 DEF GiveUp, PassBalance, InsertAlert, DryRunExecute, PostBatch, Wake, CheckFill,
                InsertLegRisk
  <2> QED
    BY <1>2, <2>1, <2>2, <2>3, <2>4, <2>5 DEF TaskStep
<1>3. CASE \E f \in Fetches : AnswerBalance(f) \/ ApplyBalance(f)
  BY <1>3 DEF AnswerBalance, ApplyBalance
<1>4. CASE \E t \in Attempts : PlaceBatch(t) \/ \E s \in Sides : DecideOrder(t, s)
  BY <1>4 DEF PlaceBatch, DecideOrder
<1>5. CASE Tick
  BY <1>5 DEF Tick, Older
<1>6. CASE Stop
  BY <1>6, AgeEnds DEF Stop
<1>7. CASE Start
  BY <1>7 DEF Start
<1> QED
  BY <1>1, <1>2, <1>3, <1>4, <1>5, <1>6, <1>7 DEF Next

\* What a batch spends is a natural number.
LEMMA SpentType ==
  ASSUME NEW t \in Attempts, opp[t] \in Opportunities, NEW result
  PROVE  Spent(t, result) \in Nat
BY CostAssumption DEF Spent, Opportunities, Sides

\* An attempt whose order is at the exchange has its opportunity.
LEMMA OrderHasOpp ==
  ASSUME Inv, NEW t \in Attempts, batch[t] # "none"
  PROVE  opp[t] \in Opportunities
BY DEF Inv, TypeOK, TaskTypes, PcInv, OrderInv, Sides

\* Types of batches and orders.
LEMMA ExchangeTypesStep ==
  ASSUME Inv, Next
  PROVE  ExchangeTypes'
<1> USE DEF Inv, TypeOK, ExchangeTypes, exchange
<1>1. ASSUME NEW t \in Attempts, NEW o \in Opportunities, Spawn(t, o) PROVE ExchangeTypes'
  BY <1>1 DEF Spawn
<1>2. ASSUME NEW t \in Attempts, TaskStep(t) PROVE ExchangeTypes'
  <2>1. CASE PostBatch(t)
    BY <2>1 DEF PostBatch
  <2>2. CASE ~ PostBatch(t)
    BY <1>2, <2>2 DEF TaskStep, Acquire, GiveUp, SkipUnaffordable, PassBalance, InsertAlert,
         PayloadFails, DryRunExecute, BatchAnswered, BatchFails, Wake, CheckFill, InsertTrade,
         InsertLegRisk, InsertNearMiss
  <2> QED
    BY <2>1, <2>2
<1>3. CASE \E f \in Fetches : AnswerBalance(f) \/ ApplyBalance(f)
  BY <1>3 DEF AnswerBalance, ApplyBalance
<1>4. ASSUME NEW t \in Attempts, PlaceBatch(t) PROVE ExchangeTypes'
  <2>1. opp[t] \in Opportunities
    BY <1>4, OrderHasOpp DEF PlaceBatch
  <2>2. PICK result \in [Sides -> {"rejected", "filled", "killed"}
                               \cup (IF "delay" \in FAULTS THEN {"live"} ELSE {})] :
          /\ Spent(t, result) <= wallet
          /\ order'  = [order EXCEPT ![t] = result]
          /\ wallet' = wallet - Spent(t, result)
    BY <1>4 DEF PlaceBatch
  <2>3. wallet' \in Nat
    BY <2>1, <2>2, SpentType
  <2>4. result \in [Sides -> {"none", "rejected", "live", "filled", "killed"}]
    BY <2>2
  <2> QED
    BY <1>4, <2>2, <2>3, <2>4 DEF PlaceBatch
<1>5. ASSUME NEW t \in Attempts, NEW s \in Sides, DecideOrder(t, s) PROVE ExchangeTypes'
  <2>1. opp[t] \in Opportunities
    BY <1>5, OrderHasOpp DEF DecideOrder, OrderInv
  <2>2. opp[t].cost[s] \in Nat
    BY <2>1, CostAssumption DEF Opportunities
  <2> QED
    BY <1>5, <2>2 DEF DecideOrder
<1>6. CASE Tick \/ Stop \/ Start
  BY <1>6 DEF Tick, Stop, Start
<1> QED
  BY <1>1, <1>2, <1>3, <1>4, <1>5, <1>6 DEF Next

\* Types of the balance, its fetches and the wallet.
LEMMA FundsTypesStep ==
  ASSUME Inv, Next
  PROVE  FundsTypes'
<1> USE DEF Inv, TypeOK, FundsTypes, funds
<1>1. ASSUME NEW f \in Fetches, AnswerBalance(f) PROVE FundsTypes'
  BY <1>1 DEF AnswerBalance, ExchangeTypes
<1>2. ASSUME NEW f \in Fetches, ApplyBalance(f) PROVE FundsTypes'
  BY <1>2 DEF ApplyBalance
<1>3. CASE Stop
  BY <1>3 DEF Stop
<1>4. CASE \E t \in Attempts : TaskStep(t)
  BY <1>4 DEF TaskStep, Acquire, GiveUp, SkipUnaffordable, PassBalance, InsertAlert, PostBatch,
       PayloadFails, DryRunExecute, BatchAnswered, BatchFails, Wake, CheckFill, InsertTrade,
       InsertLegRisk, InsertNearMiss
<1>5. CASE \/ \E t \in Attempts, o \in Opportunities : Spawn(t, o)
           \/ \E t \in Attempts : PlaceBatch(t) \/ \E s \in Sides : DecideOrder(t, s)
           \/ Tick \/ Start
  BY <1>5 DEF Spawn, PlaceBatch, DecideOrder, Tick, Start
<1> QED
  BY <1>1, <1>2, <1>3, <1>4, <1>5 DEF Next

\* A leg_risks row is only written about a leg whose order id is known.
LEMMA RiskRowsType ==
  ASSUME Inv, NEW t \in Attempts, NEW s \in Sides
  PROVE  RiskRows(t, s) \subseteq LegRisks
<1>1. Other(s) \in Sides
  BY DEF Other, Sides
<1>2. Unpaired(t, s) => RiskRow(t, Other(s), "FAILED") \in LegRisks
  BY <1>1 DEF Inv, TypeOK, TaskTypes, Unpaired, RiskRow, LegRisks, Reasons
<1>3. Unconfirmed(t, s) => RiskRow(t, s, "UNCONFIRMED") \in LegRisks
  BY DEF Inv, TypeOK, TaskTypes, OrderInv, Unconfirmed, RiskRow, LegRisks, Reasons
<1> QED
  BY <1>2, <1>3 DEF RiskRows

\* Types of the four tables.
LEMMA TableTypesStep ==
  ASSUME Inv, Next
  PROVE  TableTypes'
<1> USE DEF Inv, TypeOK, TableTypes, tables, Written
<1>1. ASSUME NEW t \in Attempts, TaskStep(t) PROVE TableTypes'
  <2>1. CASE InsertAlert(t) \/ InsertNearMiss(t)
    BY <2>1 DEF InsertAlert, InsertNearMiss
  <2>2. ASSUME NEW s \in Sides, InsertTrade(t, s) PROVE TableTypes'
    BY <2>2 DEF InsertTrade
  <2>3. ASSUME NEW s \in Sides, InsertLegRisk(t, s) PROVE TableTypes'
    BY <2>3, RiskRowsType DEF InsertLegRisk
  <2>4. CASE UNCHANGED tables
    BY <2>4
  <2> QED
    BY <1>1, <2>1, <2>2, <2>3, <2>4 DEF TaskStep, Acquire, GiveUp, SkipUnaffordable, PassBalance,
         PostBatch, PayloadFails, DryRunExecute, BatchAnswered, BatchFails, Wake, CheckFill
<1>2. CASE \E f \in Fetches : AnswerBalance(f) \/ ApplyBalance(f)
  BY <1>2 DEF AnswerBalance, ApplyBalance
<1>3. CASE \/ \E t \in Attempts, o \in Opportunities : Spawn(t, o)
           \/ \E t \in Attempts : PlaceBatch(t) \/ \E s \in Sides : DecideOrder(t, s)
           \/ Tick \/ Stop \/ Start
  BY <1>3 DEF Spawn, PlaceBatch, DecideOrder, Tick, Stop, Start
<1> QED
  BY <1>1, <1>2, <1>3 DEF Next

\* The types together.
LEMMA TypeStep ==
  ASSUME Inv, Next
  PROVE  TypeOK'
BY TaskTypesStep, GateTypesStep, FundsTypesStep, ExchangeTypesStep, TableTypesStep DEF TypeOK

-----------------------------------------------------------------------------
\* ---- The tasks' steps ----

\* Where a task that holds the mutex may go.
LEMMA FollowingSteps ==
  /\ \A step \in {"balance", "alert"} : Following[step] \in {"alert", "execute"}
  /\ \A s \in Sides : /\ Following[QueryStep[s]] \in {"query_no", "trade_yes"}
                      /\ Following[TradeStep[s]] \in {"trade_no", "risk_yes"}
                      /\ Following[RiskStep[s]]  \in {"risk_no", "miss"}
BY DEF Following, QueryStep, TradeStep, RiskStep, Sides

\* What a task's position says of its variables stays true.
LEMMA PcInvStep ==
  ASSUME Inv, Next
  PROVE  PcInv'
<1> USE NoneAssumption DEF Inv, TypeOK, TaskTypes, PcInv, At, Goto, gate, local, exchange,
                           Undecided, Unasked, Live, Critical
<1>1. ASSUME NEW t \in Attempts, NEW o \in Opportunities, Spawn(t, o) PROVE PcInv'
  <2>1. EntryLock(t, o.market) # None
    BY DEF EntryLock
  <2> QED
    BY <1>1, <2>1 DEF Spawn
<1>2. ASSUME NEW t \in Attempts, TaskStep(t) PROVE PcInv'
  <2>1. CASE Acquire(t) \/ GiveUp(t)
    BY <2>1 DEF Acquire, GiveUp
  <2>2. CASE SkipUnaffordable(t) \/ PayloadFails(t) \/ BatchFails(t) \/ InsertNearMiss(t)
    BY <2>2 DEF SkipUnaffordable, PayloadFails, BatchFails, InsertNearMiss, Leave
  <2>3. CASE PassBalance(t) \/ InsertAlert(t)
    BY <2>3, FollowingSteps DEF PassBalance, InsertAlert
  <2>4. CASE DryRunExecute(t)
    BY <2>4 DEF DryRunExecute
  <2>5. CASE PostBatch(t)
    BY <2>5 DEF PostBatch, ExchangeTypes
  <2>6. CASE BatchAnswered(t)
    BY <2>6 DEF BatchAnswered
  <2>7. CASE Wake(t)
    BY <2>7 DEF Wake
  <2>8. ASSUME NEW s \in Sides, CheckFill(t, s) PROVE PcInv'
    <3>1. pc[t] \in {"query_yes", "query_no"}
      BY <2>8 DEF CheckFill, QueryStep, Sides
    <3> QED
      BY <2>8, <3>1, FollowingSteps DEF CheckFill
  <2>9. ASSUME NEW s \in Sides, InsertTrade(t, s) PROVE PcInv'
    <3>1. pc[t] \in {"trade_yes", "trade_no"}
      BY <2>9 DEF InsertTrade, TradeStep, Sides
    <3> QED
      BY <2>9, <3>1, FollowingSteps DEF InsertTrade, Leave
  <2>10. ASSUME NEW s \in Sides, InsertLegRisk(t, s) PROVE PcInv'
    <3>1. pc[t] \in {"risk_yes", "risk_no"}
      BY <2>10 DEF InsertLegRisk, RiskStep, Sides
    <3> QED
      BY <2>10, <3>1, FollowingSteps DEF InsertLegRisk
  <2> QED
    BY <1>2, <2>1, <2>2, <2>3, <2>4, <2>5, <2>6, <2>7, <2>8, <2>9, <2>10 DEF TaskStep
<1>3. CASE \E f \in Fetches : AnswerBalance(f) \/ ApplyBalance(f)
  BY <1>3 DEF AnswerBalance, ApplyBalance
<1>4. ASSUME NEW t \in Attempts, PlaceBatch(t) PROVE PcInv'
  BY <1>4 DEF PlaceBatch, ExchangeTypes
<1>5. CASE \E t \in Attempts, s \in Sides : DecideOrder(t, s)
  BY <1>5 DEF DecideOrder
<1>6. CASE Tick
  BY <1>6 DEF Tick
<1>7. CASE Stop
  BY <1>7 DEF Stop
<1>8. CASE Start
  BY <1>8 DEF Start
<1> QED
  BY <1>1, <1>2, <1>3, <1>4, <1>5, <1>6, <1>7, <1>8 DEF Next

-----------------------------------------------------------------------------
\* ---- The mutexes ----

\* A step that moves a holder on without letting go of anything.
LEMMA LockInvMove ==
  ASSUME Inv, NEW t \in Attempts, pc[t] \in Critical,
         NEW step \in Critical, pc' = [pc EXCEPT ![t] = step],
         UNCHANGED <<opp, lock, exec_locks, guard>>
  PROVE  LockInv'
BY NoneAssumption DEF Inv, TypeOK, TaskTypes, GateTypes, LockInv, Market, Live

\* A step that ends a holder.
LEMMA LockInvLeave ==
  ASSUME Inv, NEW t \in Attempts, pc[t] \in Critical, Leave(t),
         UNCHANGED <<opp, lock, exec_locks>>
  PROVE  LockInv'
BY NoneAssumption DEF Inv, TypeOK, TaskTypes, GateTypes, PcInv, LockInv, Market, Live, Critical,
       Leave, Goto

\* A mutex stays with the one task inside its critical section.
LEMMA LockInvStep ==
  ASSUME Inv, Next
  PROVE  LockInv'
<1> USE DEF At, Goto, gate, local
<1>1. ASSUME NEW t \in Attempts, NEW o \in Opportunities, Spawn(t, o) PROVE LockInv'
  BY <1>1, NoneAssumption DEF Spawn, EntryLock, Inv, TypeOK, TaskTypes, GateTypes, PcInv, LockInv,
       Market, Live, Critical, Opportunities
<1>2. ASSUME NEW t \in Attempts, TaskStep(t) PROVE LockInv'
  <2>1. CASE Acquire(t)
    BY <2>1, NoneAssumption DEF Acquire, TryLock, Inv, TypeOK, TaskTypes, GateTypes, PcInv,
         LockInv, Market, Live, Critical
  <2>2. CASE GiveUp(t)
    BY <2>2, NoneAssumption DEF GiveUp, Inv, TypeOK, TaskTypes, GateTypes, LockInv, Market, Live,
         Critical
  <2>3. CASE SkipUnaffordable(t) \/ PayloadFails(t) \/ BatchFails(t) \/ InsertNearMiss(t)
    BY <2>3, LockInvLeave DEF SkipUnaffordable, PayloadFails, BatchFails, InsertNearMiss, Critical
  <2>4. CASE PassBalance(t) \/ InsertAlert(t)
    <3>1. Following[pc[t]] \in Critical
      BY <2>4, FollowingSteps DEF PassBalance, InsertAlert, Critical
    <3> QED
      BY <2>4, <3>1, LockInvMove DEF PassBalance, InsertAlert, Critical
  <2>5. CASE DryRunExecute(t) \/ PostBatch(t) \/ BatchAnswered(t) \/ Wake(t)
    BY <2>5, LockInvMove DEF DryRunExecute, PostBatch, BatchAnswered, Wake, Critical
  <2>6. ASSUME NEW s \in Sides, CheckFill(t, s) PROVE LockInv'
    <3>1. pc[t] \in Critical /\ Following[pc[t]] \in Critical
      BY <2>6, FollowingSteps DEF CheckFill, QueryStep, Sides, Critical
    <3> QED
      BY <2>6, <3>1, LockInvMove DEF CheckFill
  <2>7. ASSUME NEW s \in Sides, InsertTrade(t, s) PROVE LockInv'
    <3>1. pc[t] \in Critical /\ Following[pc[t]] \in Critical
      BY <2>7, FollowingSteps DEF InsertTrade, TradeStep, Sides, Critical
    <3> QED
      BY <2>7, <3>1, LockInvMove, LockInvLeave DEF InsertTrade
  <2>8. ASSUME NEW s \in Sides, InsertLegRisk(t, s) PROVE LockInv'
    <3>1. pc[t] \in Critical /\ Following[pc[t]] \in Critical
      BY <2>8, FollowingSteps DEF InsertLegRisk, RiskStep, Sides, Critical
    <3> QED
      BY <2>8, <3>1, LockInvMove DEF InsertLegRisk
  <2> QED
    BY <1>2, <2>1, <2>2, <2>3, <2>4, <2>5, <2>6, <2>7, <2>8 DEF TaskStep
<1>3. CASE Stop
  BY <1>3 DEF Stop, Inv, TypeOK, TaskTypes, GateTypes, LockInv, Live, Critical
<1>4. CASE UNCHANGED <<pc, opp, lock, exec_locks, guard>>
  BY <1>4 DEF Inv, LockInv, Market
<1>5. CASE \/ \E f \in Fetches : AnswerBalance(f) \/ ApplyBalance(f)
           \/ \E t \in Attempts : PlaceBatch(t) \/ \E s \in Sides : DecideOrder(t, s)
           \/ Tick \/ Start
  BY <1>4, <1>5 DEF AnswerBalance, ApplyBalance, PlaceBatch, DecideOrder, Tick, Start
<1> QED
  BY <1>1, <1>2, <1>3, <1>5 DEF Next

\* What the lock invariant is for: two holders of one market are one.
LEMMA OneHolder == Inv => OneAttemptPerMarket
BY DEF Inv, LockInv, OneAttemptPerMarket, Live

-----------------------------------------------------------------------------
\* ---- Settling ----

\* The market of a task past the gate is a market.
LEMMA MarketOf ==
  ASSUME Inv, NEW t \in Attempts, pc[t] # "idle"
  PROVE  Market(t) \in Markets
BY DEF Inv, TypeOK, TaskTypes, PcInv, Market, Opportunities

\* A task that has slept finds its market settled.
LEMMA SettledPast ==
  ASSUME Inv, NEW t \in Attempts, pc[t] \in Past \ {"settling"}
  PROVE  quiet[Market(t)] = SETTLE
<1>1. Market(t) \in Markets
  BY MarketOf DEF Past, Critical
<1>2. CASE dry_run
  BY <1>1, <1>2 DEF Inv, QuietInv
<1>3. CASE ~ dry_run
  <2>1. latest[Market(t)] = t
    BY <1>3 DEF Inv, QuietInv
  <2> QED
    BY <1>1, <2>1 DEF Inv, QuietInv, Past, Critical
<1> QED
  BY <1>2, <1>3

\* A task on its way to the POST finds its market settled, or left to itself by
\* a restart.
LEMMA SettledOrAbandoned ==
  ASSUME Inv, NEW t \in Attempts, pc[t] \in Critical \ {"settling"}
  PROVE  quiet[Market(t)] = SETTLE \/ Abandoned(Market(t))
<1> DEFINE m == Market(t)
<1>1. m \in Markets
  BY MarketOf DEF Critical
<1> SUFFICES ASSUME quiet[m] # SETTLE PROVE Abandoned(m)
  OBVIOUS
<1>2. latest[m] \in Attempts /\ Market(latest[m]) = m /\ pc[latest[m]] \in {"settling", "dropped"}
  BY <1>1 DEF Inv, QuietInv
<1>3. pc[latest[m]] # "settling"
  BY <1>2, OneHolder DEF OneAttemptPerMarket, Critical
<1> QED
  BY <1>2, <1>3, NoneAssumption DEF Abandoned

\* A step that wakes no sleeper, answers no batch and leaves the clocks alone.
LEMMA QuietInvKept ==
  ASSUME Inv, UNCHANGED <<dry_run, sleep, history>>,
         dry_run => UNCHANGED batch,
         \A t \in Attempts :
           /\ pc[t] # "idle" => opp'[t] = opp[t]
           /\ pc'[t] \in Past => pc[t] \in Past
           /\ pc'[t] = "settling" => pc[t] = "settling"
           /\ pc[t] \in {"settling", "dropped"} => pc'[t] \in {"settling", "dropped"}
  PROVE  QuietInv'
<1> USE DEF history
<1>1. \A m \in Markets : quiet'[m] # SETTLE =>
        /\ latest'[m] \in Attempts /\ Market(latest[m])' = m
        /\ pc'[latest'[m]] \in {"settling", "dropped"}
  BY DEF Inv, QuietInv, Market
<1>2. \A t \in Attempts : pc'[t] \in Past => Market(t)' = Market(t) /\ pc[t] \in Past
  BY DEF Market, Past, Critical
<1>3. \A t \in Attempts : pc'[t] = "settling" => Market(t)' = Market(t) /\ pc[t] = "settling"
  BY DEF Market
<1> QED
  BY <1>1, <1>2, <1>3 DEF Inv, QuietInv

\* A settling market stays quiet.
LEMMA QuietInvStep ==
  ASSUME Inv, Next
  PROVE  QuietInv'
<1> USE DEF At, Goto, process, gate, local, exchange
<1>0. pc \in [Attempts -> {"idle"} \cup Live \cup Ended] /\ opp \in [Attempts -> Opportunities \cup {None}]
  BY DEF Inv, TypeOK, TaskTypes
<1>1. ASSUME NEW t \in Attempts, NEW o \in Opportunities, Spawn(t, o) PROVE QuietInv'
  BY <1>0, <1>1, QuietInvKept DEF Spawn, Past, Critical
<1>2. ASSUME NEW t \in Attempts, TaskStep(t) PROVE QuietInv'
  <2>1. CASE Acquire(t) \/ GiveUp(t)
    BY <1>0, <2>1, QuietInvKept DEF Acquire, GiveUp, Past, Critical, Undecided
  <2>2. CASE SkipUnaffordable(t) \/ PayloadFails(t) \/ BatchFails(t) \/ InsertNearMiss(t)
    BY <1>0, <2>2, QuietInvKept DEF SkipUnaffordable, PayloadFails, BatchFails, InsertNearMiss,
         Leave, Past, Critical
  <2>3. CASE PassBalance(t) \/ InsertAlert(t)
    BY <1>0, <2>3, FollowingSteps, QuietInvKept DEF PassBalance, InsertAlert, Past, Undecided
  <2>4. CASE PostBatch(t)
    BY <1>0, <2>4, QuietInvKept DEF PostBatch, Submits, Past, Undecided
  <2>5. CASE DryRunExecute(t)
    <3>1. sleep[t] = 0 /\ Market(t) \in Markets
      BY <2>5, MarketOf DEF DryRunExecute, Inv, PcInv, Undecided
    <3>2. dry_run /\ 0 <= quiet[Market(t)]
      BY <2>5, <3>1, TimeAssumption DEF DryRunExecute, Submits, Inv, TypeOK, GateTypes
    <3>3. UNCHANGED <<dry_run, opp, sleep, batch, quiet>>
      BY <2>5 DEF DryRunExecute, history
    <3>4. \A u \in Attempts : pc'[u] = "settling" => u = t \/ pc[u] = "settling"
      BY <1>0, <2>5 DEF DryRunExecute
    <3> QED
      BY <3>1, <3>2, <3>3, <3>4 DEF Inv, QuietInv, Market
  <2>6. CASE BatchAnswered(t)
    <3>1. sleep[t] = 0 /\ Market(t) \in Markets /\ pc[t] = "posted" /\ batch[t] # "none"
      BY <2>6, MarketOf DEF BatchAnswered, Inv, PcInv, Undecided
    <3>2. \A u \in Attempts : pc[u] \in Past => Market(u) # Market(t) /\ u # t
      BY <3>1, OneHolder DEF OneAttemptPerMarket, Past, Critical, Undecided
    <3>3. /\ \A m \in Markets : quiet'[m] = IF m = Market(t) THEN 0 ELSE quiet[m]
          /\ \A m \in Markets : latest'[m] = IF m = Market(t) THEN t ELSE latest[m]
      BY <2>6 DEF BatchAnswered, Inv, TypeOK, GateTypes
    <3>4. \A u \in Attempts : pc'[u] = IF u = t THEN "settling" ELSE pc[u]
      BY <1>0, <2>6 DEF BatchAnswered
    <3>5. UNCHANGED <<dry_run, opp, sleep>> /\ ~ dry_run
      BY <2>6, <3>1 DEF BatchAnswered, Inv, QuietInv
    <3>6. \A u \in Attempts : pc[u] \in Past => Market(u) \in Markets
      BY MarketOf DEF Past, Critical
    <3>7. "settling" \in Past /\ "posted" \notin Past
      BY DEF Past, Critical, Undecided
    <3>8. \A m \in Markets : quiet'[m] # SETTLE =>
            /\ latest'[m] \in Attempts /\ Market(latest'[m]) = m
            /\ pc'[latest'[m]] \in {"settling", "dropped"}
      BY <3>1, <3>3, <3>4 DEF Inv, QuietInv
    <3>9. \A u \in Attempts : pc'[u] \in Past => latest'[Market(u)] = u
      BY <3>1, <3>2, <3>3, <3>4, <3>5, <3>6 DEF Inv, QuietInv
    <3>10. \A u \in Attempts : pc'[u] = "settling" => sleep[u] <= quiet'[Market(u)]
      BY <3>1, <3>2, <3>3, <3>4, <3>6, <3>7 DEF Inv, QuietInv
    <3> QED
      BY <3>5, <3>8, <3>9, <3>10 DEF QuietInv, Market
  <2>7. CASE Wake(t)
    <3>1. quiet[Market(t)] = SETTLE /\ Market(t) \in Markets
      BY <2>7, MarketOf, TimeAssumption DEF Wake, Slept, Inv, TypeOK, TaskTypes, GateTypes, QuietInv
    <3>2. \A u \in Attempts : pc'[u] = IF u = t THEN "query_yes" ELSE pc[u]
      BY <1>0, <2>7 DEF Wake
    <3>3. UNCHANGED <<dry_run, opp, sleep, batch, quiet, latest>> /\ pc[t] = "settling"
      BY <2>7 DEF Wake, history
    <3>4. "settling" \in Past
      BY DEF Past, Critical, Undecided
    <3>5. \A m \in Markets : quiet[m] # SETTLE =>
            /\ latest[m] \in Attempts /\ Market(latest[m]) = m
            /\ pc'[latest[m]] \in {"settling", "dropped"}
      BY <3>1, <3>2, <3>3 DEF Inv, QuietInv
    <3>6. \A u \in Attempts : pc'[u] \in Past => pc[u] \in Past
      BY <3>2, <3>3, <3>4
    <3> QED
      BY <3>2, <3>3, <3>5, <3>6 DEF Inv, QuietInv, Market
  <2>8. ASSUME NEW s \in Sides,
               CheckFill(t, s) \/ InsertTrade(t, s) \/ InsertLegRisk(t, s) PROVE QuietInv'
    <3>1. pc[t] \in {QueryStep[s], TradeStep[s], RiskStep[s]}
      BY <2>8 DEF CheckFill, InsertTrade, InsertLegRisk
    <3>2. pc[t] \in Past \ {"settling"} /\ Following[pc[t]] # "settling"
      BY <3>1, FollowingSteps DEF QueryStep, TradeStep, RiskStep, Sides, Past, Critical, Undecided
    <3>3. \E step : step # "settling" /\ pc' = [pc EXCEPT ![t] = step]
      BY <2>8, <3>2 DEF CheckFill, InsertTrade, InsertLegRisk, Leave
    <3>4. UNCHANGED <<dry_run, opp, sleep, batch, history>>
      BY <2>8 DEF CheckFill, InsertTrade, InsertLegRisk
    <3>5. "dropped" \notin Past
      BY DEF Past, Critical
    <3> QED
      BY <1>0, <3>2, <3>3, <3>4, <3>5, QuietInvKept
  <2> QED
    BY <1>2, <2>1, <2>2, <2>3, <2>4, <2>5, <2>6, <2>7, <2>8 DEF TaskStep
<1>3. CASE Tick
  <2>1. \A t \in Attempts : pc[t] = "settling" =>
          Market(t) \in Markets /\ sleep'[t] <= quiet'[Market(t)]
    BY <1>3, TimeAssumption, MarketOf DEF Tick, Older, Inv, TypeOK, TaskTypes, GateTypes, QuietInv
  <2>2. \A m \in Markets : quiet'[m] # SETTLE => quiet[m] # SETTLE
    BY <1>3, TimeAssumption DEF Tick, Older, Inv, TypeOK, GateTypes
  <2>3. UNCHANGED <<dry_run, pc, opp, batch, latest>>
    BY <1>3 DEF Tick
  <2> QED
    BY <2>1, <2>2, <2>3 DEF Inv, QuietInv, Market
<1>4. CASE Stop
  BY <1>0, <1>4, QuietInvKept DEF Stop, Live, Past, Critical
<1>5. ASSUME NEW t \in Attempts, PlaceBatch(t) PROVE QuietInv'
  <2>1. ~ dry_run
    BY <1>5 DEF PlaceBatch, Inv, QuietInv
  <2> QED
    BY <1>5, <2>1, QuietInvKept DEF PlaceBatch
<1>6. CASE \/ \E f \in Fetches : AnswerBalance(f) \/ ApplyBalance(f)
           \/ \E t \in Attempts, s \in Sides : DecideOrder(t, s)
           \/ Start
  BY <1>6, QuietInvKept DEF AnswerBalance, ApplyBalance, DecideOrder, Start
<1> QED
  BY <1>1, <1>2, <1>3, <1>4, <1>5, <1>6 DEF Next

-----------------------------------------------------------------------------
\* ---- Orders and what is believed of them ----

\* FILLED keeps meaning a filled order.
LEMMA OrderInvStep ==
  ASSUME Inv, Next
  PROVE  OrderInv'
<1> USE DEF At, Goto, gate, local, tables, exchange
<1>1. ASSUME NEW t \in Attempts, NEW o \in Opportunities, Spawn(t, o) PROVE OrderInv'
  BY <1>1 DEF Spawn, Inv, TypeOK, TaskTypes, OrderInv, TradesAreReal
<1>2. ASSUME NEW t \in Attempts, TaskStep(t) PROVE OrderInv'
  <2>1. CASE \/ Acquire(t) \/ GiveUp(t) \/ SkipUnaffordable(t) \/ PassBalance(t)
             \/ InsertAlert(t) \/ PayloadFails(t) \/ BatchFails(t) \/ Wake(t)
             \/ InsertNearMiss(t) \/ \E s \in Sides : InsertLegRisk(t, s)
    <3>1. UNCHANGED <<ids, status, trades, batch, order>>
      BY <2>1 DEF Acquire, GiveUp, SkipUnaffordable, PassBalance, InsertAlert, PayloadFails,
           BatchFails, Wake, InsertNearMiss, InsertLegRisk
    <3>2. pc[t] # "idle" /\ \E step : step # "idle" /\ pc' = [pc EXCEPT ![t] = step]
      <4>1. \A s \in Sides : Following[RiskStep[s]] # "idle" /\ RiskStep[s] # "idle"
        BY FollowingSteps DEF RiskStep, Sides
      <4> QED
        BY <2>1, <4>1, FollowingSteps DEF Acquire, GiveUp, SkipUnaffordable, PassBalance,
           InsertAlert, PayloadFails, BatchFails, Wake, InsertNearMiss, InsertLegRisk, Leave
    <3> QED
      BY <3>1, <3>2 DEF Inv, TypeOK, TaskTypes, OrderInv, TradesAreReal
  <2>2. ASSUME pc[t] \in {"execute", "posted"}, pc' = [pc EXCEPT ![t] = "settling"],
               UNCHANGED <<status, trades, batch, order>>,
               NEW answer, ids' = [ids EXCEPT ![t] = answer]
        PROVE  OrderInv'
    <3>1. \A s \in Sides : status[t][s] = None
      BY <2>2 DEF Inv, PcInv, Unasked, Undecided
    <3>2. None # "FILLED" /\ None # "QUERY_ERR"
      BY NoneAssumption DEF Statuses
    <3>3. \A u \in Attempts : u # t => ids'[u] = ids[u]
      BY <2>2 DEF Inv, TypeOK, TaskTypes
    <3>4. \A u \in Attempts : pc'[u] = "idle" => pc[u] = "idle"
      BY <2>2 DEF Inv, TypeOK, TaskTypes
    <3> QED
      BY <2>2, <3>1, <3>2, <3>3, <3>4 DEF Inv, OrderInv, TradesAreReal
  <2>3. CASE PostBatch(t)
    <3>1. batch[t] = "none"
      BY <2>3 DEF PostBatch, Inv, PcInv, Undecided
    <3> QED
      BY <2>3, <3>1 DEF PostBatch, Inv, TypeOK, TaskTypes, ExchangeTypes, OrderInv, TradesAreReal
  <2>4. CASE DryRunExecute(t) \/ BatchAnswered(t)
    BY <2>2, <2>4 DEF DryRunExecute, BatchAnswered
  <2>5. ASSUME NEW s \in Sides, CheckFill(t, s) PROVE OrderInv'
    <3>1. PICK answer \in FillAnswers(t, s) : status' = [status EXCEPT ![t][s] = answer]
      BY <2>5 DEF CheckFill
    <3>2. /\ answer = "FILLED" => order[t][s] = "filled"
          /\ answer = "QUERY_ERR" => ids[t][s] # None
      BY <3>1 DEF FillAnswers, OrderAnswer, Matched
    <3>3. pc[t] # "idle" /\ Following[pc[t]] # "idle"
      BY <2>5, FollowingSteps DEF CheckFill, QueryStep, Sides
    <3>4. \A u \in Attempts, v \in Sides :
            status'[u][v] = IF u = t /\ v = s THEN answer ELSE status[u][v]
      BY <3>1 DEF Inv, TypeOK, TaskTypes
    <3>5. UNCHANGED <<ids, trades, batch, order>>
      BY <2>5 DEF CheckFill
    <3>6. \A u \in Attempts : pc'[u] = "idle" => pc[u] = "idle"
      BY <2>5, <3>3 DEF CheckFill, Inv, TypeOK, TaskTypes
    <3> QED
      BY <3>2, <3>4, <3>5, <3>6 DEF Inv, OrderInv, TradesAreReal
  <2>6. ASSUME NEW s \in Sides, InsertTrade(t, s) PROVE OrderInv'
    <3>1. pc[t] # "idle" /\ Following[pc[t]] # "idle"
      BY <2>6, FollowingSteps DEF InsertTrade, TradeStep, Sides
    <3>2. \A u \in Attempts, v \in Sides : <<u, v>> \in trades' => order[u][v] = "filled"
      BY <2>6 DEF InsertTrade, Written, Filled, Inv, OrderInv, TradesAreReal
    <3> QED
      BY <2>6, <3>1, <3>2 DEF InsertTrade, Leave, Inv, TypeOK, TaskTypes, OrderInv, TradesAreReal
  <2> QED
    BY <1>2, <2>1, <2>3, <2>4, <2>5, <2>6 DEF TaskStep
<1>3. ASSUME NEW t \in Attempts, PlaceBatch(t) PROVE OrderInv'
  BY <1>3 DEF PlaceBatch, Inv, TypeOK, ExchangeTypes, OrderInv, TradesAreReal
<1>4. ASSUME NEW t \in Attempts, NEW s \in Sides, DecideOrder(t, s) PROVE OrderInv'
  BY <1>4 DEF DecideOrder, Inv, TypeOK, ExchangeTypes, OrderInv, TradesAreReal
<1>5. CASE Stop
  BY <1>5 DEF Stop, Inv, TypeOK, TaskTypes, OrderInv, TradesAreReal
<1>6. CASE \/ \E f \in Fetches : AnswerBalance(f) \/ ApplyBalance(f)
           \/ Tick \/ Start
  BY <1>6 DEF AnswerBalance, ApplyBalance, Tick, Start, Inv, OrderInv, TradesAreReal
<1> QED
  BY <1>1, <1>2, <1>3, <1>4, <1>5, <1>6 DEF Next

-----------------------------------------------------------------------------
\* ---- Theorems ----

\* The invariant holds of every behaviour.
THEOREM Invariance == Spec => []Inv
<1>1. Inv /\ [Next]_vars => Inv'
  BY TypeStep, PcInvStep, LockInvStep, QuietInvStep, OrderInvStep, StutterInv DEF Inv
<1> QED
  BY InitInv, <1>1, PTL DEF Spec

\* The variables have their types (every declaration of spawn_trade's task,
\* the shared maps and the four tables).
THEOREM TypeCorrect == Spec => []TypeOK
<1>1. Inv => TypeOK
  BY DEF Inv
<1> QED
  BY Invariance, <1>1, PTL

\* The per-market mutex excludes: two attempts of a market never overlap.
THEOREM MutualExclusion == Spec => []OneAttemptPerMarket
BY Invariance, OneHolder, PTL

\* The trades table never claims an order that the exchange did not fill.
THEOREM TradesTrue == Spec => []TradesAreReal
<1>1. Inv => TradesAreReal
  BY DEF Inv, OrderInv
<1> QED
  BY Invariance, <1>1, PTL

\* No batch leaves before the market's last answered one has settled, unless a
\* restart dropped the task that waited for that.
THEOREM SettleGapHolds == Spec => SettleGap
<1>1. ASSUME Inv, [Next]_vars
      PROVE  [\A t \in Attempts : batch[t] = "none" /\ batch'[t] = "sent"
                => quiet[Market(t)] = SETTLE \/ Abandoned(Market(t))]_vars
  <2>1. ASSUME NEW t \in Attempts, batch[t] = "none", batch'[t] = "sent"
        PROVE  PostBatch(t)
    <3>1. Next
      BY <1>1, <2>1 DEF vars, exchange
    <3>2. ASSUME NEW u \in Attempts, PostBatch(u) PROVE u = t
      BY <2>1, <3>2 DEF PostBatch, Inv, TypeOK, ExchangeTypes
    <3>3. ASSUME NEW u \in Attempts, PlaceBatch(u) PROVE FALSE
      BY <2>1, <3>3 DEF PlaceBatch, Inv, TypeOK, ExchangeTypes
    <3>4. CASE UNCHANGED batch
      BY <2>1, <3>4
    <3>5. ASSUME NEW u \in Attempts, TaskStep(u), ~ PostBatch(u) PROVE UNCHANGED batch
      BY <3>5 DEF TaskStep, Acquire, GiveUp, SkipUnaffordable, PassBalance, InsertAlert, exchange,
           PayloadFails, DryRunExecute, BatchAnswered, BatchFails, Wake, CheckFill, InsertTrade,
           InsertLegRisk, InsertNearMiss
    <3> QED
      BY <3>1, <3>2, <3>3, <3>4, <3>5 DEF Next, Spawn, AnswerBalance, ApplyBalance, DecideOrder,
         Tick, Stop, Start, exchange
  <2>2. ASSUME NEW t \in Attempts, PostBatch(t)
        PROVE  quiet[Market(t)] = SETTLE \/ Abandoned(Market(t))
    BY <1>1, <2>2, SettledOrAbandoned DEF PostBatch, At, Critical
  <2> QED
    BY <2>1, <2>2
<1> QED
  BY Invariance, <1>1, PTL DEF Spec, SettleGap

-----------------------------------------------------------------------------
\* ---- The stale balance ----

\* An answer under way or already applied is no answer, 0, or no less than what
\* is left now.
Overstates(b) == b = 0 \/ wallet <= b

FundsInv ==
  /\ Overstates(current_balance)
  /\ \A f \in Fetches : fetch[f] # None => Overstates(fetch[f])

\* The engine's orders only ever take money out of the account.
LEMMA WalletFalls ==
  ASSUME Inv, Next
  PROVE  wallet' \in Nat /\ wallet' <= wallet
<1> USE DEF Inv, TypeOK, ExchangeTypes, exchange
<1>1. ASSUME NEW t \in Attempts, PlaceBatch(t) PROVE wallet' <= wallet
  <2>1. PICK result : Spent(t, result) <= wallet /\ wallet' = wallet - Spent(t, result)
    BY <1>1 DEF PlaceBatch
  <2>2. Spent(t, result) \in Nat
    BY <1>1, OrderHasOpp, SpentType DEF PlaceBatch
  <2> QED
    BY <2>1, <2>2
<1>2. ASSUME NEW t \in Attempts, NEW s \in Sides, DecideOrder(t, s) PROVE wallet' <= wallet
  <2>1. opp[t] \in Opportunities
    BY <1>2, OrderHasOpp DEF DecideOrder, OrderInv
  <2>2. opp[t].cost[s] \in Nat
    BY <2>1, CostAssumption DEF Opportunities
  <2> QED
    BY <1>2, <2>2 DEF DecideOrder
<1>3. ASSUME NEW t \in Attempts, TaskStep(t) PROVE wallet' = wallet
  BY <1>3 DEF TaskStep, Acquire, GiveUp, SkipUnaffordable, PassBalance, InsertAlert, PostBatch,
     PayloadFails, DryRunExecute, BatchAnswered, BatchFails, Wake, CheckFill, InsertTrade,
     InsertLegRisk, InsertNearMiss
<1>4. CASE \/ \E t \in Attempts, o \in Opportunities : Spawn(t, o)
           \/ \E f \in Fetches : AnswerBalance(f) \/ ApplyBalance(f)
           \/ Tick \/ Stop \/ Start
  BY <1>4 DEF Spawn, AnswerBalance, ApplyBalance, Tick, Stop, Start
<1>5. wallet' <= wallet
  BY <1>1, <1>2, <1>3, <1>4 DEF Next
<1> QED
  BY <1>5, ExchangeTypesStep

\* An answer that is 0 or overstates goes on doing so while the money falls.
LEMMA StillOverstates ==
  ASSUME Inv, Next, NEW b \in Nat, Overstates(b)
  PROVE  Overstates(b)'
<1>1. wallet \in Nat
  BY DEF Inv, TypeOK, ExchangeTypes
<1> QED
  BY <1>1, WalletFalls DEF Overstates

\* FundsInv is kept by every step.
LEMMA FundsInvStep ==
  ASSUME Inv, FundsInv, Next
  PROVE  FundsInv'
<1> USE DEF funds
<1>1. current_balance \in Nat /\ fetch \in [Fetches -> Nat \cup {None}] /\ wallet \in Nat
  BY DEF Inv, TypeOK, FundsTypes, ExchangeTypes
<1>2. CASE UNCHANGED funds
  <2>1. Overstates(current_balance)' /\ \A f \in Fetches : fetch[f] # None => Overstates(fetch[f])'
    <3>1. \A b \in Nat : Overstates(b) => 0 = b \/ wallet' <= b
      BY StillOverstates DEF Overstates
    <3> QED
      BY <1>1, <1>2, <3>1 DEF FundsInv, Overstates
  <2> QED
    BY <1>2, <2>1 DEF FundsInv
<1>3. ASSUME NEW f \in Fetches, AnswerBalance(f) PROVE FundsInv'
  <2>1. fetch'[f] \in {0, wallet} /\ wallet' = wallet /\ current_balance' = current_balance
    BY <1>1, <1>3 DEF AnswerBalance, exchange
  <2>2. \A g \in Fetches : g # f => fetch'[g] = fetch[g]
    BY <1>1, <1>3 DEF AnswerBalance
  <2> QED
    BY <1>1, <2>1, <2>2 DEF FundsInv, Overstates
<1>4. ASSUME NEW f \in Fetches, ApplyBalance(f) PROVE FundsInv'
  <2>1. current_balance' = fetch[f] /\ fetch[f] # None /\ wallet' = wallet
    BY <1>4 DEF ApplyBalance, exchange
  <2>2. \A g \in Fetches : fetch'[g] # None => fetch'[g] = fetch[g]
    BY <1>1, <1>4 DEF ApplyBalance
  <2> QED
    BY <1>1, <2>1, <2>2 DEF FundsInv, Overstates
<1>5. CASE Stop
  BY <1>5 DEF Stop, FundsInv, Overstates
<1>6. ASSUME NEW t \in Attempts, TaskStep(t) PROVE UNCHANGED funds
  BY <1>6 DEF TaskStep, Acquire, GiveUp, SkipUnaffordable, PassBalance, InsertAlert, PostBatch,
     PayloadFails, DryRunExecute, BatchAnswered, BatchFails, Wake, CheckFill, InsertTrade,
     InsertLegRisk, InsertNearMiss
<1>7. CASE \/ \E t \in Attempts, o \in Opportunities : Spawn(t, o)
           \/ \E t \in Attempts : PlaceBatch(t) \/ \E s \in Sides : DecideOrder(t, s)
           \/ Tick \/ Start
  BY <1>2, <1>7 DEF Spawn, PlaceBatch, DecideOrder, Tick, Start
<1> QED
  BY <1>2, <1>3, <1>4, <1>5, <1>6, <1>7 DEF Next

\* FundsInv holds of every behaviour.
THEOREM BalanceOverstated == Spec => []FundsInv
<1>1. Init => FundsInv
  BY DEF Init, FundsInv, Overstates
<1>2. ASSUME FundsInv, UNCHANGED vars PROVE FundsInv'
  BY <1>2 DEF FundsInv, Overstates, vars, funds, exchange
<1> QED
  BY Invariance, FundsInvStep, <1>1, <1>2, PTL DEF Spec

\* Only the balance check ends an attempt that stands before it.
LEMMA HowRefused ==
  ASSUME Inv, Next, NEW t \in Attempts, pc[t] = "balance", pc'[t] = "done"
  PROVE  SkipUnaffordable(t)
<1> USE DEF Inv, TypeOK, TaskTypes, At, Goto, Leave
<1>1. ASSUME NEW u \in Attempts, TaskStep(u) PROVE SkipUnaffordable(t)
  <2>1. u = t
    BY <1>1 DEF TaskStep, Acquire, GiveUp, SkipUnaffordable, PassBalance, InsertAlert, PostBatch,
       PayloadFails, DryRunExecute, BatchAnswered, BatchFails, Wake, CheckFill, InsertTrade,
       InsertLegRisk, InsertNearMiss
  <2>2. ~ PassBalance(t)
    BY FollowingSteps DEF PassBalance
  <2> QED
    BY <1>1, <2>1, <2>2 DEF TaskStep, Acquire, GiveUp, InsertAlert, PostBatch,
       PayloadFails, DryRunExecute, BatchAnswered, BatchFails, Wake, CheckFill, InsertTrade,
       InsertLegRisk, InsertNearMiss, QueryStep, TradeStep, RiskStep, Sides
<1>2. ~ \E u \in Attempts, o \in Opportunities : Spawn(u, o)
  BY DEF Spawn
<1>3. ~ Stop
  BY DEF Stop, Live, Critical
<1>4. ~ \/ \E f \in Fetches : AnswerBalance(f) \/ ApplyBalance(f)
        \/ \E u \in Attempts : PlaceBatch(u) \/ \E s \in Sides : DecideOrder(u, s)
        \/ Tick \/ Start
  BY DEF AnswerBalance, ApplyBalance, PlaceBatch, DecideOrder, Tick, Start
<1> QED
  BY <1>1, <1>2, <1>3, <1>4 DEF Next

\* However stale the balance, it refuses no attempt that could be paid.
THEOREM RefusalsJustified == Spec => RefusedCannotPay
<1>1. ASSUME Inv, FundsInv, [Next]_vars
      PROVE  [\A t \in Attempts :
                pc[t] = "balance" /\ pc'[t] = "done" => wallet < Combined(opp[t])]_vars
  <2> SUFFICES ASSUME NEW t \in Attempts, pc[t] = "balance", pc'[t] = "done"
               PROVE  wallet < Combined(opp[t])
    OBVIOUS
  <2>1. SkipUnaffordable(t)
    BY <1>1, HowRefused DEF vars
  <2>2. opp[t] \in Opportunities
    BY <1>1 DEF Inv, TypeOK, TaskTypes, PcInv
  <2>3. Combined(opp[t]) \in Nat
    BY <2>2, CostAssumption DEF Combined, Opportunities, Sides
  <2>4. wallet \in Nat /\ current_balance \in Nat
    BY <1>1 DEF Inv, TypeOK, ExchangeTypes, FundsTypes
  <2>5. wallet <= current_balance /\ current_balance < Combined(opp[t])
    BY <1>1, <2>1, <2>4 DEF SkipUnaffordable, CannotAfford, FundsInv, Overstates
  <2> QED
    BY <2>3, <2>4, <2>5
<1> QED
  BY Invariance, BalanceOverstated, <1>1, PTL DEF Spec, RefusedCannotPay

-----------------------------------------------------------------------------
\* ---- Refinement of MarketGate ----

\* A task past try_lock is the holder of its market, and there are no others.
LEMMA HolderIs ==
  ASSUME Inv
  PROVE  /\ \A t \in Attempts : pc[t] \in Critical =>
              /\ Market(t) \in Markets
              /\ Holder(Market(t)) = t
         /\ \A m \in Markets : Holder(m) # None =>
              /\ Holder(m) \in Attempts
              /\ pc[Holder(m)] \in Critical
              /\ Market(Holder(m)) = m
<1>1. ASSUME NEW t \in Attempts, pc[t] \in Critical
      PROVE  Market(t) \in Markets /\ Holder(Market(t)) = t
  BY <1>1 DEF Inv, TypeOK, TaskTypes, PcInv, LockInv, Holder, Market, Opportunities, Live, Critical
<1>2. ASSUME NEW m \in Markets, Holder(m) # None
      PROVE  /\ Holder(m) \in Attempts
             /\ pc[Holder(m)] \in Critical
             /\ Market(Holder(m)) = m
  <2> DEFINE u == Holder(m)
  <2>1. u \in Attempts /\ pc[u] \in Critical /\ lock[u] = exec_locks[m]
    BY <1>2 DEF Inv, TypeOK, GateTypes, LockInv, Holder
  <2>2. Market(u) \in Markets /\ lock[u] = exec_locks[Market(u)] /\ exec_locks[m] # None
    BY <1>1, <1>2, <2>1 DEF Inv, LockInv, Live, Holder
  <2>3. Market(exec_locks[m]) = m
    BY <2>2 DEF Inv, LockInv
  <2>4. Market(exec_locks[Market(u)]) = Market(u)
    BY <2>1, <2>2 DEF Inv, LockInv
  <2>5. exec_locks[Market(u)] = exec_locks[m]
    BY <2>1, <2>2
  <2> QED
    BY <2>1, <2>3, <2>4, <2>5
<1> QED
  BY <1>1, <1>2

\* A holder that goes on changes the phase of its market and nothing else.
LEMMA ViewMove ==
  ASSUME Inv, NEW t \in Attempts, pc[t] \in Critical,
         NEW step, pc' = [pc EXCEPT ![t] = step],
         UNCHANGED <<exec_locks, guard>>
  PROVE  /\ HolderView' = HolderView
         /\ PhaseView' = [PhaseView EXCEPT ![Market(t)] = Phase(t)']
<1>1. \A m \in Markets : Holder(m)' = Holder(m)
  BY DEF Holder
<1>2. \A m \in Markets : m # Market(t) => Holder(m) # t
  BY HolderIs, NoneAssumption
<1>3. \A m \in Markets : m # Market(t) /\ Holder(m) # None => Phase(Holder(m))' = Phase(Holder(m))
  BY <1>1, <1>2, HolderIs DEF Phase, Inv, TypeOK, TaskTypes
<1>4. Holder(Market(t)) = t /\ t # None
  BY HolderIs, NoneAssumption
<1>5. \A m \in Markets : PhaseView'[m] = IF m = Market(t) THEN Phase(t)' ELSE PhaseView[m]
  BY <1>1, <1>3, <1>4 DEF PhaseView, Phase
<1>6. Market(t) \in Markets
  BY HolderIs
<1> QED
  BY <1>1, <1>5, <1>6 DEF HolderView, PhaseView

\* A holder that ends opens its market.
LEMMA ViewLeave ==
  ASSUME Inv, NEW t \in Attempts, pc[t] \in Critical, Leave(t), UNCHANGED exec_locks
  PROVE  /\ HolderView' = [HolderView EXCEPT ![Market(t)] = None]
         /\ PhaseView' = [PhaseView EXCEPT ![Market(t)] = "open"]
<1>1. lock[t] = exec_locks[Market(t)] /\ lock[t] \in Attempts /\ Market(t) \in Markets
  BY HolderIs DEF Inv, TypeOK, TaskTypes, PcInv, LockInv, Live
<1>2. \A m \in Markets : m # Market(t) => exec_locks[m] # lock[t] \/ exec_locks[m] = None
  BY <1>1 DEF Inv, LockInv
<1>3. \A m \in Markets : Holder(m)' = IF m = Market(t) THEN None ELSE Holder(m)
  BY <1>1, <1>2, NoneAssumption DEF Holder, Leave, Inv, TypeOK, GateTypes
<1>4. \A m \in Markets : m # Market(t) /\ Holder(m) # None => Phase(Holder(m))' = Phase(Holder(m))
  BY <1>3, HolderIs DEF Phase, Leave, Goto, Inv, TypeOK, TaskTypes
<1> QED
  BY <1>1, <1>3, <1>4 DEF HolderView, PhaseView

\* A step that touches no holder leaves the gate alone.
LEMMA ViewKept ==
  ASSUME Inv, UNCHANGED guard,
         \A m \in Markets : exec_locks'[m] # exec_locks[m] =>
                              exec_locks[m] = None /\ guard[exec_locks'[m]] = None,
         \A t \in Attempts : pc[t] \in Critical => pc'[t] = pc[t]
  PROVE  HolderView' = HolderView /\ PhaseView' = PhaseView
<1>1. \A m \in Markets : Holder(m)' = Holder(m)
  BY NoneAssumption DEF Holder
<1>2. \A m \in Markets : Holder(m) # None => Phase(Holder(m))' = Phase(Holder(m))
  BY <1>1, HolderIs DEF Phase
<1> QED
  BY <1>1, <1>2 DEF HolderView, PhaseView

\* A market whose holder does not begin or end a settlement keeps its clock.
LEMMA QuietViewKept ==
  ASSUME quiet' = quiet,
         \A m \in Markets : \/ PhaseView'[m] = PhaseView[m]
                            \/ PhaseView[m] # "settling" /\ PhaseView'[m] # "settling"
                            \/ quiet[m] = SETTLE
  PROVE  QuietView' = QuietView
BY DEF QuietView

\* Every gate is open at boot.
LEMMA GateInit == Init => Gate!Init
BY NoneAssumption DEF Init, Gate!Init, HolderView, PhaseView, QuietView, Holder

\* Every step is a step of the gate or leaves it alone.
LEMMA GateStep ==
  ASSUME Inv, Next
  PROVE  [Gate!Next]_(Gate!vars)
<1> DEFINE Kept == UNCHANGED <<HolderView, PhaseView, QuietView>>
<1>0. Kept => UNCHANGED Gate!vars
  BY DEF Gate!vars
<1>1. ASSUME NEW t \in Attempts, NEW o \in Opportunities, Spawn(t, o) PROVE Kept
  <2>1. guard[t] = None
    <3>1. SUFFICES ASSUME guard[t] # None PROVE FALSE
      OBVIOUS
    <3> DEFINE u == guard[t]
    <3>2. u \in Attempts /\ pc[u] \in Critical /\ lock[u] = t /\ t # None
      BY <3>1, NoneAssumption DEF Inv, TypeOK, GateTypes, LockInv
    <3>3. Market(u) \in Markets /\ exec_locks[Market(u)] = t
      BY <3>2, HolderIs DEF Inv, LockInv, Live
    <3>4. opp[t] # None
      BY <3>2, <3>3 DEF Inv, LockInv
    <3> QED
      BY <1>1, <3>4 DEF Spawn, At, Inv, PcInv
  <2>2. \A m \in Markets : exec_locks'[m] # exec_locks[m] => exec_locks[m] = None /\ exec_locks'[m] = t
    BY <1>1 DEF Spawn, EntryLock, Inv, TypeOK, GateTypes
  <2> QED
    BY <1>1, <2>1, <2>2, ViewKept, QuietViewKept DEF Spawn, At, Goto, Inv, TypeOK, TaskTypes,
       Critical, history
<1>2. ASSUME NEW t \in Attempts, TaskStep(t) PROVE Gate!Next \/ Kept
  <2> USE DEF At, Goto, gate, history
  <2> DEFINE m == Market(t)
  <2>1. CASE Acquire(t)
    <3>1. m \in Markets /\ lock[t] = exec_locks[m] /\ lock[t] \in Attempts /\ Holder(m) = None
      BY <2>1 DEF Acquire, TryLock, Inv, TypeOK, TaskTypes, PcInv, LockInv, Market, Opportunities,
           Holder, Live, Critical
    <3>2. \A k \in Markets : k # m => exec_locks[k] # lock[t] \/ exec_locks[k] = None
      BY <3>1 DEF Inv, LockInv
    <3>3. \A k \in Markets : Holder(k)' = IF k = m THEN t ELSE Holder(k)
      BY <2>1, <3>1, <3>2, NoneAssumption DEF Acquire, Holder, Inv, TypeOK, GateTypes
    <3>4. \A k \in Markets : Holder(k) # None => Phase(Holder(k))' = Phase(Holder(k))
      <4>1. SUFFICES ASSUME NEW k \in Markets, Holder(k) # None
                     PROVE  Phase(Holder(k))' = Phase(Holder(k))
        OBVIOUS
      <4>2. Holder(k)' = Holder(k)
        BY <3>1, <3>3, <4>1
      <4>3. pc'[Holder(k)] = pc[Holder(k)]
        BY <2>1, <4>1, HolderIs DEF Acquire, Inv, TypeOK, TaskTypes, Critical
      <4> QED
        BY <4>2, <4>3 DEF Phase
    <3>5. Phase(t)' = "deciding"
      BY <2>1 DEF Acquire, Phase, Inv, TypeOK, TaskTypes
    <3>6. HolderView' = [HolderView EXCEPT ![m] = t]
      BY <3>3 DEF HolderView
    <3>7. PhaseView' = [PhaseView EXCEPT ![m] = "deciding"]
      BY <3>1, <3>3, <3>4, <3>5, NoneAssumption DEF PhaseView
    <3>8. PhaseView[m] = "open" /\ quiet' = quiet
      BY <2>1, <3>1 DEF Acquire, PhaseView
    <3>9. QuietView' = QuietView
      BY <3>7, <3>8, QuietViewKept DEF PhaseView
    <3> QED
      BY <3>1, <3>6, <3>7, <3>8, <3>9 DEF Gate!Next, Gate!Enter, Gate!Becomes
  <2>2. CASE GiveUp(t)
    BY <2>2, ViewKept, QuietViewKept DEF GiveUp, Inv, TypeOK, TaskTypes, Critical
  <2>3. ASSUME pc[t] \in Critical \ {"settling"}, Leave(t), UNCHANGED <<exec_locks, quiet>>
        PROVE  Gate!Next
    <3>1. m \in Markets /\ Holder(m) = t /\ t # None
      BY <2>3, HolderIs, NoneAssumption
    <3>2. PhaseView[m] \in {"deciding", "firing", "settling"}
      BY <3>1 DEF PhaseView, Phase
    <3>3. PhaseView[m] = "settling" => quiet[m] = SETTLE
      BY <2>3, <3>1, SettledPast DEF PhaseView, Phase, Past, Critical, Undecided
    <3>4. /\ HolderView' = [HolderView EXCEPT ![m] = None]
          /\ PhaseView' = [PhaseView EXCEPT ![m] = "open"]
      BY <2>3, ViewLeave
    <3>5. QuietView' = QuietView
      BY <2>3, <3>3, <3>4, QuietViewKept DEF PhaseView
    <3>6. PhaseView[m] = "settling" => QuietView[m] = SETTLE
      BY <3>1, <3>3 DEF QuietView
    <3> QED
      BY <3>1, <3>2, <3>4, <3>5, <3>6 DEF Gate!Next, Gate!Close, Gate!Becomes
  <2>4. ASSUME NEW step \in Critical, pc[t] \in Critical, pc' = [pc EXCEPT ![t] = step],
               UNCHANGED <<exec_locks, guard>>
        PROVE  /\ HolderView' = HolderView
               /\ PhaseView' = [PhaseView EXCEPT ![m] = Phase(t)']
               /\ PhaseView[m] = Phase(t)
               /\ m \in Markets
    BY <2>4, ViewMove, HolderIs, NoneAssumption DEF PhaseView
  <2>5. CASE PassBalance(t) \/ InsertAlert(t)
    <3>1. /\ pc[t] \in {"balance", "alert"}
          /\ Following[pc[t]] \in {"alert", "execute"}
          /\ pc' = [pc EXCEPT ![t] = Following[pc[t]]]
          /\ UNCHANGED <<exec_locks, guard, quiet>>
      BY <2>5, FollowingSteps DEF PassBalance, InsertAlert
    <3>2. Phase(t) = "deciding" /\ Phase(t)' = "deciding"
      BY <3>1 DEF Phase, Inv, TypeOK, TaskTypes
    <3> QED
      BY <2>4, <3>1, <3>2, QuietViewKept DEF PhaseView, Critical
  <2>6. CASE DryRunExecute(t)
    <3>1. Phase(t) = "deciding" /\ Phase(t)' = "settling"
      BY <2>6 DEF DryRunExecute, Phase, Inv, TypeOK, TaskTypes
    <3>2. m \in Markets /\ quiet[m] = SETTLE /\ quiet' = quiet
      BY <2>6, MarketOf DEF DryRunExecute, Submits, Inv, QuietInv
    <3>3. PhaseView' = [PhaseView EXCEPT ![m] = "settling"]
      BY <2>4, <2>6, <3>1 DEF DryRunExecute, Critical
    <3>4. QuietView' = QuietView
      BY <3>2, <3>3, QuietViewKept DEF PhaseView
    <3> QED
      BY <2>4, <2>6, <3>1, <3>4 DEF DryRunExecute, Critical, Gate!Next, Gate!Rehearse, Gate!Becomes
  <2>7. CASE PostBatch(t)
    <3>1. Phase(t) = "deciding" /\ Phase(t)' = "firing"
      BY <2>7 DEF PostBatch, Phase, Inv, TypeOK, TaskTypes
    <3>2. PhaseView' = [PhaseView EXCEPT ![m] = "firing"] /\ PhaseView[m] = "deciding"
      BY <2>4, <2>7, <3>1 DEF PostBatch, Critical
    <3>3. QuietView' = QuietView /\ QuietView[m] = SETTLE
      BY <2>7, <3>2, MarketOf, QuietViewKept DEF PostBatch, PhaseView, QuietView
    <3> QED
      BY <2>4, <2>7, <3>1, <3>3 DEF PostBatch, Critical, Gate!Next, Gate!Fire, Gate!Becomes
  <2>8. CASE BatchAnswered(t)
    <3>1. Phase(t) = "firing" /\ Phase(t)' = "settling"
      BY <2>8 DEF BatchAnswered, Phase, Inv, TypeOK, TaskTypes
    <3>2. PhaseView' = [PhaseView EXCEPT ![m] = "settling"] /\ m \in Markets
      BY <2>4, <2>8, <3>1 DEF BatchAnswered, Critical
    <3>3. \A k \in Markets : quiet'[k] = IF k = m THEN 0 ELSE quiet[k]
      BY <2>8 DEF BatchAnswered, Inv, TypeOK, GateTypes
    <3>4. \A k \in Markets : PhaseView'[k] = IF k = m THEN "settling" ELSE PhaseView[k]
      BY <3>2 DEF PhaseView
    <3>5. QuietView' = [QuietView EXCEPT ![m] = 0]
      BY <3>2, <3>3, <3>4 DEF QuietView
    <3> QED
      BY <2>4, <2>8, <3>1, <3>5 DEF BatchAnswered, Critical, Gate!Next, Gate!Answered, Gate!Becomes
  <2>9. ASSUME pc[t] \in Critical \ {"balance", "alert", "execute", "posted"},
               NEW step \in Critical \ {"balance", "alert", "execute", "posted"},
               pc' = [pc EXCEPT ![t] = step], UNCHANGED <<exec_locks, guard, quiet>>
        PROVE  Kept
    <3>1. Phase(t) = "settling" /\ Phase(t)' = "settling"
      BY <2>9 DEF Phase, Inv, TypeOK, TaskTypes
    <3> QED
      BY <2>4, <2>9, <3>1, QuietViewKept DEF PhaseView
  <2>10. CASE Wake(t)
    BY <2>9, <2>10 DEF Wake, Critical
  <2>11. ASSUME NEW s \in Sides, CheckFill(t, s) \/ InsertTrade(t, s) \/ InsertLegRisk(t, s)
         PROVE  Gate!Next \/ Kept
    <3>1. /\ pc[t] \in Critical \ {"balance", "alert", "execute", "posted", "settling"}
          /\ Following[pc[t]] \in Critical \ {"balance", "alert", "execute", "posted"}
      BY <2>11, FollowingSteps DEF CheckFill, InsertTrade, InsertLegRisk, QueryStep, TradeStep,
           RiskStep, Sides, Critical
    <3>2. /\ UNCHANGED <<exec_locks, quiet>>
          /\ \/ Leave(t)
             \/ pc' = [pc EXCEPT ![t] = Following[pc[t]]] /\ UNCHANGED guard
      <4>1. CASE CheckFill(t, s)
        BY <4>1 DEF CheckFill
      <4>2. CASE InsertTrade(t, s)
        BY <4>2 DEF InsertTrade
      <4>3. CASE InsertLegRisk(t, s)
        BY <4>3 DEF InsertLegRisk
      <4> QED
        BY <2>11, <4>1, <4>2, <4>3
    <3> QED
      BY <2>3, <2>9, <3>1, <3>2
  <2>12. CASE SkipUnaffordable(t) \/ PayloadFails(t) \/ BatchFails(t) \/ InsertNearMiss(t)
    BY <2>3, <2>12 DEF SkipUnaffordable, PayloadFails, BatchFails, InsertNearMiss, Critical
  <2> QED
    BY <1>2, <2>1, <2>2, <2>5, <2>6, <2>7, <2>8, <2>10, <2>11, <2>12 DEF TaskStep
<1>3. CASE Tick
  <2>1. HolderView' = HolderView /\ PhaseView' = PhaseView
    BY <1>3, ViewKept DEF Tick
  <2>2. \A m \in Markets :
          QuietView'[m] = IF QuietView[m] < SETTLE THEN QuietView[m] + 1 ELSE QuietView[m]
    BY <1>3, <2>1, TimeAssumption DEF Tick, Older, QuietView
  <2>3. QuietView' = [m \in Markets |-> IF QuietView[m] < SETTLE THEN QuietView[m] + 1
                                                               ELSE QuietView[m]]
    BY <2>2 DEF QuietView
  <2> QED
    BY <2>1, <2>3 DEF Gate!Next, Gate!Elapse
<1>4. CASE Stop
  BY <1>4 DEF Stop, HolderView, PhaseView, QuietView, Holder, Gate!Next, Gate!Crash
<1>5. CASE \/ \E f \in Fetches : AnswerBalance(f) \/ ApplyBalance(f)
           \/ \E t \in Attempts : PlaceBatch(t) \/ \E s \in Sides : DecideOrder(t, s)
           \/ Start
  <2>1. UNCHANGED <<pc, exec_locks, guard, quiet>>
    BY <1>5 DEF AnswerBalance, ApplyBalance, PlaceBatch, DecideOrder, Start, gate, history
  <2>2. HolderView' = HolderView /\ PhaseView' = PhaseView
    BY <2>1, ViewKept
  <2>3. QuietView' = QuietView
    BY <2>1, <2>2, QuietViewKept
  <2> QED
    BY <1>0, <2>2, <2>3
<1> QED
  BY <1>0, <1>1, <1>2, <1>3, <1>4, <1>5 DEF Next

\* The tasks of spawn_trade implement the gate.
THEOREM Refinement == Spec => ImplementsGate
<1>1. Inv /\ [Next]_vars => [Gate!Next]_(Gate!vars)
  <2>1. UNCHANGED vars => UNCHANGED Gate!vars
    BY DEF vars, gate, history, Gate!vars, HolderView, PhaseView, QuietView, Holder, Phase
  <2> QED
    BY <2>1, GateStep
<1> QED
  BY Invariance, GateInit, <1>1, PTL DEF Spec, ImplementsGate, Gate!Spec
=============================================================================

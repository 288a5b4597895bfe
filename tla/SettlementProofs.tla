---------------------------- MODULE SettlementProofs ----------------------------
(***************************************************************************)
(* Theorems about what TradeExecution writes down: that the tables tell    *)
(* the outcome of every concluded attempt, for every value of the          *)
(* constants.  On top of the invariant of TradeExecutionProofs come three  *)
(* parts: what precedes a batch (AlertInv), what ids and answers say of    *)
(* the orders (IdsInv), and what the rows written so far owe to each step  *)
(* of the settlement (RecordInv).                                          *)
(***************************************************************************)
EXTENDS TradeExecutionProofs

-----------------------------------------------------------------------------
\* ---- The inductive invariant ----

NoDb    == Without({"db"})
Delayed == "delay" \in FAULTS
Garbled == "garbled" \in FAULTS

\* An attempt is past its alert row before it can send a batch.
AlertInv ==
  NoDb => \A t \in Attempts :
    pc[t] \in {"execute", "posted"} \/ batch[t] # "none" => t \in alerts

\* The ids of an attempt are its orders' own, or none; a leg without one was
\* rejected or its answer garbled; and an order whose query said it had not
\* filled never will, unless the answer was inconclusive.
IdsOf(t, s) ==
  /\ ids[t][s] \in {None, DryRunId, EmptyId, <<t, s>>}
  /\ ~ dry_run => ids[t][s] # DryRunId
  /\ ids[t][s] = <<t, s>> => batch[t] = "placed"
  /\ (pc[t] \in Past \/ status[t][s] # None) /\ ids[t][s] = None
       => order[t][s] = "rejected" \/ Garbled
  /\ status[t][s] = "NO_ID" => ids[t][s] = None
  /\ status[t][s] = "VOID" => Garbled
  /\ order[t][s] = "live" \/ status[t][s] = "LIVE" => Delayed
  /\ status[t][s] = "UNFILLED" => batch[t] = "placed" /\ order[t][s] \notin {"filled", "live"}

IdsInv == \A t \in Attempts, s \in Sides : IdsOf(t, s)

Judging == {"trade_yes", "trade_no", "risk_yes", "risk_no", "miss"}

Judged(t) == \A s \in Sides : status[t][s] # None

\* Which legs have been asked about at each step.
AskedInv(t) ==
  /\ pc[t] = "query_yes" => status[t]["YES"] = None /\ status[t]["NO"] = None
  /\ pc[t] = "query_no"  => status[t]["YES"] # None /\ status[t]["NO"] = None
  /\ pc[t] \in Judging   => Judged(t)

\* A trade row stands for a leg seen filled, and every such leg gets one.
TradeInv(t) ==
  /\ \A s \in Sides : <<t, s>> \in trades => Filled(t, s)
  /\ NoDb /\ (pc[t] \in Judging \ {"trade_yes"} \/ Concluded(t)) /\ Filled(t, "YES")
       => <<t, "YES">> \in trades
  /\ NoDb /\ (pc[t] \in Judging \ {"trade_yes", "trade_no"} \/ Concluded(t)) /\ Filled(t, "NO")
       => <<t, "NO">> \in trades

\* Only an attempt that is not a completed pair gets risk rows, and it gets
\* all of them.
RiskInv(t) ==
  /\ pc[t] \in {"risk_yes", "risk_no", "miss"} => ~ BothFilled(t)
  /\ \A row \in leg_risks : row.attempt = t => Judged(t) /\ ~ BothFilled(t)
  /\ NoDb /\ (pc[t] \in {"risk_no", "miss"} \/ (Concluded(t) /\ ~ BothFilled(t)))
       => RiskRows(t, "YES") \subseteq leg_risks
  /\ NoDb /\ (pc[t] = "miss" \/ (Concluded(t) /\ ~ BothFilled(t)))
       => RiskRows(t, "NO") \subseteq leg_risks

\* A near miss is an attempt that ended without its pair, and each such
\* attempt is one.
MissInv(t) ==
  /\ t \in near_misses => pc[t] = "done" /\ ~ BothFilled(t)
  /\ NoDb /\ Concluded(t) /\ ~ BothFilled(t) => t \in near_misses

RecordOf(t) == AskedInv(t) /\ TradeInv(t) /\ RiskInv(t) /\ MissInv(t)

RecordInv == \A t \in Attempts : RecordOf(t)

-----------------------------------------------------------------------------
\* ---- The alert before the batch ----

\* AlertInv holds initially and is kept by every step.
LEMMA AlertInvInit == Init => AlertInv
BY DEF Init, AlertInv

LEMMA AlertInvStep ==
  ASSUME Inv, AlertInv, Next
  PROVE  AlertInv'
<1> SUFFICES ASSUME NoDb PROVE AlertInv'
  BY DEF AlertInv, NoDb, Without
<1> USE DEF Inv, TypeOK, TaskTypes, ExchangeTypes, AlertInv, At, Goto, tables, exchange
<1>1. ASSUME NEW t \in Attempts, NEW o \in Opportunities, Spawn(t, o) PROVE AlertInv'
  BY <1>1 DEF Spawn
<1>2. ASSUME NEW t \in Attempts, TaskStep(t) PROVE AlertInv'
  <2>1. CASE Acquire(t) \/ GiveUp(t) \/ DryRunExecute(t) \/ BatchAnswered(t) \/ Wake(t)
    BY <2>1 DEF Acquire, GiveUp, DryRunExecute, BatchAnswered, Wake
  <2>2. CASE SkipUnaffordable(t) \/ PayloadFails(t) \/ BatchFails(t) \/ InsertNearMiss(t)
    BY <2>2 DEF SkipUnaffordable, PayloadFails, BatchFails, InsertNearMiss, Leave
  <2>3. CASE PassBalance(t)
    BY <2>3 DEF PassBalance, Following
  <2>4. CASE InsertAlert(t)
    <3>1. alerts' = alerts \cup {t}
      BY <2>4 DEF InsertAlert, Written, NoDb, Without
    <3> QED
      BY <2>4, <3>1 DEF InsertAlert
  <2>5. CASE PostBatch(t)
    BY <2>5 DEF PostBatch
  <2>6. ASSUME NEW s \in Sides, CheckFill(t, s) \/ InsertTrade(t, s) \/ InsertLegRisk(t, s)
        PROVE  AlertInv'
    <3>1. Following[pc[t]] \notin {"execute", "posted"}
      BY <2>6, FollowingSteps DEF CheckFill, InsertTrade, InsertLegRisk
    <3> QED
      BY <2>6, <3>1 DEF CheckFill, InsertTrade, InsertLegRisk, Leave
  <2> QED
    BY <1>2, <2>1, <2>2, <2>3, <2>4, <2>5, <2>6 DEF TaskStep
<1>3. ASSUME NEW t \in Attempts, PlaceBatch(t) PROVE AlertInv'
  BY <1>3 DEF PlaceBatch
<1>4. CASE Stop
  BY <1>4 DEF Stop
<1>5. CASE \/ \E f \in Fetches : AnswerBalance(f) \/ ApplyBalance(f)
           \/ \E t \in Attempts, s \in Sides : DecideOrder(t, s)
           \/ Tick \/ Start
  BY <1>5 DEF AnswerBalance, ApplyBalance, DecideOrder, Tick, Start
<1> QED
  BY <1>1, <1>2, <1>3, <1>4, <1>5 DEF Next

-----------------------------------------------------------------------------
\* ---- Ids, answers and orders ----

\* IdsInv holds initially and is kept by every step.
LEMMA IdsInvInit == Init => IdsInv
BY NoneAssumption DEF Init, IdsInv, IdsOf, Past, Critical, Undecided, Statuses, OrderIds

\* A step of t that leaves answers, ids, batches and orders alone and takes t
\* from before the queries no further than to the sleep, or stays past it.
LEMMA IdsKept ==
  ASSUME Inv, IdsInv, UNCHANGED <<dry_run, ids, status, batch, order>>,
         \A t \in Attempts : pc'[t] \in Past => pc[t] \in Past
  PROVE  IdsInv'
BY DEF IdsInv, IdsOf

LEMMA IdsInvStep ==
  ASSUME Inv, IdsInv, Next
  PROVE  IdsInv'
<1> USE DEF At, Goto, process, local, exchange
<1>1. ASSUME NEW t \in Attempts, NEW o \in Opportunities, Spawn(t, o) PROVE IdsInv'
  BY <1>1, IdsKept DEF Spawn, Inv, TypeOK, TaskTypes, Past, Critical
<1>2. ASSUME NEW t \in Attempts, TaskStep(t) PROVE IdsInv'
  <2>1. CASE \/ Acquire(t) \/ GiveUp(t) \/ SkipUnaffordable(t) \/ PassBalance(t)
             \/ InsertAlert(t) \/ PayloadFails(t) \/ BatchFails(t) \/ Wake(t)
             \/ InsertNearMiss(t) \/ \E s \in Sides : InsertTrade(t, s) \/ InsertLegRisk(t, s)
    <3>1. UNCHANGED <<dry_run, ids, status, batch, order>>
      BY <2>1 DEF Acquire, GiveUp, SkipUnaffordable, PassBalance, InsertAlert, PayloadFails,
           BatchFails, Wake, InsertNearMiss, InsertTrade, InsertLegRisk
    <3>2. \E step : /\ pc' = [pc EXCEPT ![t] = step]
                    /\ step \in Past => pc[t] \in Past
      <4>1. CASE Acquire(t) \/ GiveUp(t) \/ Wake(t)
        BY <4>1 DEF Acquire, GiveUp, Wake, Past, Critical, Undecided
      <4>2. CASE SkipUnaffordable(t) \/ PayloadFails(t) \/ BatchFails(t) \/ InsertNearMiss(t)
        BY <4>2 DEF SkipUnaffordable, PayloadFails, BatchFails, InsertNearMiss, Leave, Past, Critical
      <4>3. CASE PassBalance(t) \/ InsertAlert(t)
        BY <4>3, FollowingSteps DEF PassBalance, InsertAlert, Past, Undecided
      <4>4. ASSUME NEW s \in Sides, InsertTrade(t, s) \/ InsertLegRisk(t, s)
            PROVE  \E step : /\ pc' = [pc EXCEPT ![t] = step]
                             /\ step \in Past => pc[t] \in Past
        BY <4>4 DEF InsertTrade, InsertLegRisk, Leave, TradeStep, RiskStep, Sides, Past, Critical,
             Undecided
      <4> QED
        BY <2>1, <4>1, <4>2, <4>3, <4>4
    <3> QED
      BY <3>1, <3>2, IdsKept DEF Inv, TypeOK, TaskTypes
  <2>2. CASE DryRunExecute(t)
    <3>1. \A u \in Attempts, s \in Sides : ids'[u][s] = IF u # t THEN ids[u][s] ELSE DryRunId
      BY <2>2 DEF DryRunExecute, Inv, TypeOK, TaskTypes
    <3>2. dry_run /\ UNCHANGED <<dry_run, status, batch, order>>
      BY <2>2 DEF DryRunExecute, Submits
    <3>3. \A u \in Attempts : u # t => pc'[u] = pc[u]
      BY <2>2 DEF DryRunExecute, Inv, TypeOK, TaskTypes
    <3>4. \A s \in Sides : status[t][s] = None
      BY <2>2 DEF DryRunExecute, Inv, PcInv, Unasked, Undecided
    <3>5. \A s \in Sides : DryRunId # <<t, s>> /\ DryRunId # None /\ DryRunId # EmptyId
      BY NoneAssumption DEF OrderIds
    <3>6. None \notin Statuses
      BY NoneAssumption
    <3>7. SUFFICES ASSUME NEW u \in Attempts, NEW s \in Sides PROVE IdsOf(u, s)'
      BY DEF IdsInv
    <3>8. IdsOf(u, s)
      BY DEF IdsInv
    <3>9. CASE u = t
      <4>1. ids'[u][s] = DryRunId /\ status[u][s] = None
        BY <3>1, <3>4, <3>9
      <4> QED
        BY <3>2, <3>5, <3>6, <3>8, <3>9, <4>1 DEF IdsOf, Statuses
    <3>10. CASE u # t
      <4>1. ids'[u][s] = ids[u][s] /\ pc'[u] = pc[u]
        BY <3>1, <3>3, <3>10
      <4> QED
        BY <3>2, <3>8, <4>1 DEF IdsOf
    <3> QED
      BY <3>9, <3>10
  <2>3. CASE PostBatch(t)
    BY <2>3 DEF PostBatch, Inv, TypeOK, TaskTypes, ExchangeTypes, PcInv, Undecided, Past, IdsInv, IdsOf
  <2>4. CASE BatchAnswered(t)
    <3>1. PICK answer \in AnsweredIds(t) : ids' = [ids EXCEPT ![t] = answer]
      BY <2>4 DEF BatchAnswered
    <3>2. \A s \in Sides : status[t][s] = None
      BY <2>4 DEF BatchAnswered, Inv, PcInv, Unasked, Undecided
    <3>3. \A s \in Sides : <<t, s>> # None /\ <<t, s>> # DryRunId /\ <<t, s>> # EmptyId
      BY NoneAssumption DEF OrderIds
    <3>4. batch[t] = "placed" /\ UNCHANGED <<dry_run, status, batch, order>>
      BY <2>4 DEF BatchAnswered
    <3>5. \A u \in Attempts : u # t => pc'[u] = pc[u]
      BY <2>4 DEF BatchAnswered, Inv, TypeOK, TaskTypes
    <3>6. None # DryRunId /\ EmptyId # DryRunId /\ EmptyId # None /\ None \notin Statuses
      BY NoneAssumption DEF OrderIds
    <3>7. SUFFICES ASSUME NEW u \in Attempts, NEW s \in Sides PROVE IdsOf(u, s)'
      BY DEF IdsInv
    <3>8. IdsOf(u, s)
      BY DEF IdsInv
    <3>9. CASE u = t
      <4>1. ids'[u][s] = answer[s] /\ status[u][s] = None
        BY <3>1, <3>2, <3>9 DEF Inv, TypeOK, TaskTypes
      <4>2. \/ ids'[u][s] = None /\ (order[u][s] = "rejected" \/ Garbled)
            \/ ids'[u][s] = EmptyId
            \/ ids'[u][s] = <<u, s>>
        BY <3>9, <4>1 DEF AnsweredIds, Garbled
      <4> QED
        BY <3>3, <3>4, <3>6, <3>8, <3>9, <4>1, <4>2 DEF IdsOf, Statuses
    <3>10. CASE u # t
      <4>1. ids'[u][s] = ids[u][s] /\ pc'[u] = pc[u]
        BY <3>1, <3>5, <3>10 DEF Inv, TypeOK, TaskTypes
      <4> QED
        BY <3>4, <3>8, <4>1 DEF IdsOf
    <3> QED
      BY <3>9, <3>10
  <2>5. ASSUME NEW s \in Sides, CheckFill(t, s) PROVE IdsInv'
    <3>1. PICK answer \in FillAnswers(t, s) : status' = [status EXCEPT ![t][s] = answer]
      BY <2>5 DEF CheckFill
    <3>2. \A u \in Attempts, v \in Sides :
            status'[u][v] = IF u = t /\ v = s THEN answer ELSE status[u][v]
      BY <3>1 DEF Inv, TypeOK, TaskTypes
    <3>3. pc[t] \in Past
      BY <2>5 DEF CheckFill, QueryStep, Sides, Past, Critical, Undecided
    <3>4. /\ answer = "NO_ID" => ids[t][s] = None
          /\ answer = "VOID" => Garbled
          /\ answer = "LIVE" => order[t][s] = "live"
          /\ answer = "UNFILLED" => ids[t][s] = <<t, s>> /\ order[t][s] \notin {"filled", "live"}
      BY <3>1 DEF FillAnswers, OrderAnswer, Matched, IdsInv, IdsOf, Garbled
    <3>5. UNCHANGED <<dry_run, ids, batch, order>>
      BY <2>5 DEF CheckFill
    <3>6. \A u \in Attempts : u # t => pc'[u] = pc[u]
      BY <2>5 DEF CheckFill, Inv, TypeOK, TaskTypes
    <3> QED
      BY <3>2, <3>3, <3>4, <3>5, <3>6 DEF IdsInv, IdsOf
  <2> QED
    BY <1>2, <2>1, <2>2, <2>3, <2>4, <2>5 DEF TaskStep
<1>3. ASSUME NEW t \in Attempts, PlaceBatch(t) PROVE IdsInv'
  <2>1. UNCHANGED <<dry_run, pc, ids, status>>
    BY <1>3 DEF PlaceBatch
  <2>2. batch[t] = "sent" /\ \A u \in Attempts :
          /\ batch'[u] = IF u = t THEN "placed" ELSE batch[u]
          /\ u # t => order'[u] = order[u]
    BY <1>3 DEF PlaceBatch, Inv, TypeOK, ExchangeTypes
  <2>3. \A s \in Sides : order'[t][s] = "live" => Delayed
    BY <1>3 DEF PlaceBatch, Delayed, Inv, TypeOK, ExchangeTypes
  <2>4. \A s \in Sides : order[t][s] = "none"
    BY <2>2 DEF Inv, OrderInv
  <2> QED
    BY <2>1, <2>2, <2>3, <2>4 DEF IdsInv, IdsOf
<1>4. ASSUME NEW t \in Attempts, NEW s \in Sides, DecideOrder(t, s) PROVE IdsInv'
  <2>1. UNCHANGED <<dry_run, pc, ids, status, batch>> /\ order[t][s] = "live"
    BY <1>4 DEF DecideOrder
  <2>2. \A u \in Attempts, v \in Sides : order'[u][v] = order[u][v] \/ (u = t /\ v = s)
    BY <1>4 DEF DecideOrder, Inv, TypeOK, ExchangeTypes
  <2> QED
    BY <2>1, <2>2 DEF IdsInv, IdsOf
<1>5. CASE Stop
  BY <1>5, IdsKept DEF Stop, Inv, TypeOK, TaskTypes, Past, Critical
<1>6. CASE (\E f \in Fetches : AnswerBalance(f) \/ ApplyBalance(f)) \/ Tick \/ Start
  BY <1>6, IdsKept DEF AnswerBalance, ApplyBalance, Tick, Start
<1> QED
  BY <1>1, <1>2, <1>3, <1>4, <1>5, <1>6 DEF Next
-----------------------------------------------------------------------------
\* ---- The rows ----

\* A risk row of an attempt is about that attempt.
LEMMA RowsOwn ==
  ASSUME NEW t, NEW s, NEW row \in RiskRows(t, s)
  PROVE  row.attempt = t
BY DEF RiskRows, RiskRow

\* RecordInv holds initially.
LEMMA RecordInvInit == Init => RecordInv
BY NoneAssumption DEF Init, RecordInv, RecordOf, AskedInv, TradeInv, RiskInv, MissInv, Concluded,
   Judging, Sides

\* What is owed to an attempt stays as it is when a step touches neither its
\* answers nor its rows and leaves it where it was, takes it on before the
\* first query, or drops it.
LEMMA RecordKept ==
  ASSUME Inv, NEW u \in Attempts, RecordOf(u),
         status'[u] = status[u],
         \A s \in Sides : <<u, s>> \in trades' <=> <<u, s>> \in trades,
         \A row : row.attempt = u => (row \in leg_risks' <=> row \in leg_risks),
         u \in near_misses' <=> u \in near_misses,
         \/ pc'[u] = pc[u] /\ ids'[u] = ids[u]
         \/ pc[u] \in Unasked /\ pc'[u] \in Unasked \cup {"query_yes", "done"}
         \/ pc[u] \in Live /\ pc'[u] = "dropped"
  PROVE  RecordOf(u)'
<1> USE DEF RecordOf
<1>0. \A s \in Sides : (Filled(u, s)' <=> Filled(u, s)) /\ status'[u][s] = status[u][s]
  BY DEF Filled
<1>1. (Judged(u)' <=> Judged(u)) /\ (BothFilled(u)' <=> BothFilled(u))
  BY <1>0 DEF Judged, BothFilled
<1>2. {"YES", "NO"} = Sides
  BY DEF Sides
<1>3. \A row \in leg_risks' : row.attempt = u => Judged(u)' /\ ~ BothFilled(u)'
  BY <1>1 DEF RiskInv
<1>4. CASE pc'[u] = pc[u] /\ ids'[u] = ids[u]
  <2>1. Concluded(u)' <=> Concluded(u)
    BY <1>0, <1>4 DEF Concluded
  <2>2. \A s \in Sides : RiskRows(u, s)' = RiskRows(u, s)
    BY <1>4 DEF RiskRows, RiskRow, Unpaired, Unconfirmed, Filled
  <2>3. \A s \in Sides : RiskRows(u, s) \subseteq leg_risks => RiskRows(u, s) \subseteq leg_risks'
    BY RowsOwn
  <2>4. AskedInv(u)' /\ TradeInv(u)'
    BY <1>0, <1>1, <1>2, <1>4, <2>1 DEF AskedInv, TradeInv
  <2>5. RiskInv(u)'
    BY <1>1, <1>2, <1>3, <1>4, <2>1, <2>2, <2>3 DEF RiskInv
  <2>6. MissInv(u)'
    BY <1>1, <1>4, <2>1 DEF MissInv
  <2> QED
    BY <2>4, <2>5, <2>6
<1>5. CASE pc[u] \in Unasked /\ pc'[u] \in Unasked \cup {"query_yes", "done"}
  <2>1. \A s \in Sides : status[u][s] = None
    BY <1>5 DEF Inv, PcInv
  <2>2. ~ Judged(u) /\ ~ Concluded(u)'
    BY <1>0, <1>2, <2>1 DEF Judged, Concluded
  <2>3. \A s \in Sides : ~ Filled(u, s)'
    BY <1>0, <2>1, NoneAssumption DEF Filled, Statuses
  <2>4. u \notin near_misses
    BY <1>5 DEF MissInv, Unasked, Undecided
  <2>5. AskedInv(u)' /\ TradeInv(u)'
    BY <1>0, <1>2, <1>5, <2>1, <2>3 DEF AskedInv, TradeInv, Judging, Unasked, Undecided
  <2>6. RiskInv(u)'
    BY <1>3, <1>5, <2>2 DEF RiskInv, Unasked, Undecided
  <2>7. MissInv(u)'
    BY <2>2, <2>4 DEF MissInv
  <2> QED
    BY <2>5, <2>6, <2>7
<1>6. CASE pc[u] \in Live /\ pc'[u] = "dropped"
  <2>1. ~ Concluded(u)' /\ u \notin near_misses
    BY <1>6 DEF Concluded, MissInv, Live, Critical
  <2>2. AskedInv(u)' /\ TradeInv(u)'
    BY <1>0, <1>2, <1>6, <2>1 DEF AskedInv, TradeInv, Judging
  <2>3. RiskInv(u)'
    BY <1>3, <1>6, <2>1 DEF RiskInv
  <2> QED
    BY <2>1, <2>2, <2>3 DEF MissInv
<1> QED
  BY <1>4, <1>5, <1>6

\* A query: the row tables do not know the attempt yet.
LEMMA RecordCheckFill ==
  ASSUME Inv, RecordInv, NEW t \in Attempts, NEW s \in Sides, CheckFill(t, s)
  PROVE  RecordOf(t)'
<1> USE DEF RecordOf, At, Goto
<1>0. RecordOf(t) /\ {"YES", "NO"} = Sides
  BY DEF RecordInv, Sides
<1>1. PICK answer \in FillAnswers(t, s) : status' = [status EXCEPT ![t][s] = answer]
  BY DEF CheckFill
<1>2. answer # None
  BY <1>1, NoneAssumption DEF FillAnswers, OrderAnswer, Statuses
<1>3. \A v \in Sides : status'[t][v] = IF v = s THEN answer ELSE status[t][v]
  BY <1>1 DEF Inv, TypeOK, TaskTypes
<1>4. UNCHANGED <<ids, trades, leg_risks, near_misses>>
  BY DEF CheckFill, tables
<1>5. \/ pc[t] = "query_yes" /\ pc'[t] = "query_no"  /\ s = "YES"
      \/ pc[t] = "query_no"  /\ pc'[t] = "trade_yes" /\ s = "NO"
  BY DEF CheckFill, QueryStep, Following, Sides, Inv, TypeOK, TaskTypes
<1>6. status[t][s] = None /\ ~ Judged(t) /\ t \notin near_misses
  BY <1>0, <1>5 DEF AskedInv, Judged, MissInv
<1>7. AskedInv(t)'
  BY <1>0, <1>2, <1>3, <1>5 DEF AskedInv, Judged, Judging
<1>8. TradeInv(t)'
  <2>1. \A v \in Sides : <<t, v>> \in trades => Filled(t, v) /\ v # s
    BY <1>0, <1>6, NoneAssumption DEF TradeInv, Filled, Statuses
  <2>2. \A v \in Sides : <<t, v>> \in trades' => Filled(t, v)'
    BY <1>3, <1>4, <2>1 DEF Filled
  <2> QED
    BY <1>5, <2>2 DEF TradeInv, Judging, Concluded
<1>9. RiskInv(t)'
  <2>1. \A row \in leg_risks' : row.attempt # t
    BY <1>0, <1>4, <1>6 DEF RiskInv
  <2> QED
    BY <1>5, <2>1 DEF RiskInv, Concluded
<1>10. MissInv(t)'
  BY <1>4, <1>5, <1>6 DEF MissInv, Concluded
<1> QED
  BY <1>7, <1>8, <1>9, <1>10

\* A trade row.
LEMMA RecordInsertTrade ==
  ASSUME Inv, RecordInv, NEW t \in Attempts, NEW s \in Sides, InsertTrade(t, s)
  PROVE  RecordOf(t)'
<1> USE DEF RecordOf, At, Goto
<1>0. RecordOf(t) /\ {"YES", "NO"} = Sides
  BY DEF RecordInv, Sides
<1>1. UNCHANGED <<status, ids, leg_risks, near_misses>>
  BY DEF InsertTrade, local
<1>2. \/ pc[t] = "trade_yes" /\ pc'[t] = "trade_no" /\ s = "YES"
      \/ pc[t] = "trade_no"  /\ pc'[t] = "done"     /\ s = "NO" /\ BothFilled(t)
      \/ pc[t] = "trade_no"  /\ pc'[t] = "risk_yes" /\ s = "NO" /\ ~ BothFilled(t)
  BY DEF InsertTrade, Leave, TradeStep, Following, Sides, Inv, TypeOK, TaskTypes
<1>3. /\ \A v \in Sides : Filled(t, v)' <=> Filled(t, v)
      /\ BothFilled(t)' <=> BothFilled(t)
      /\ Judged(t)' <=> Judged(t)
  BY <1>1 DEF Filled, BothFilled, Judged
<1>4. Judged(t) /\ t \notin near_misses
  BY <1>0, <1>2 DEF AskedInv, MissInv, Judging
<1>5. TradeInv(t)'
  <2>1. /\ trades \subseteq trades' /\ trades' \subseteq trades \cup {<<t, s>>}
        /\ <<t, s>> \in trades' => Filled(t, s) \/ <<t, s>> \in trades
        /\ NoDb /\ Filled(t, s) => <<t, s>> \in trades'
    BY DEF InsertTrade, Written, NoDb, Without
  <2>2. \A v \in Sides : <<t, v>> \in trades' => Filled(t, v)'
    BY <1>0, <1>3, <2>1 DEF TradeInv
  <2>3. NoDb /\ Filled(t, "YES") => <<t, "YES">> \in trades'
    BY <1>0, <1>2, <2>1 DEF TradeInv, Judging
  <2> QED
    BY <1>0, <1>2, <1>3, <2>1, <2>2, <2>3 DEF TradeInv, Judging, Concluded
<1>6. RiskInv(t)'
  BY <1>0, <1>1, <1>2, <1>3 DEF RiskInv, Concluded
<1>7. AskedInv(t)' /\ MissInv(t)'
  BY <1>1, <1>2, <1>3, <1>4 DEF AskedInv, MissInv, Judging, Concluded
<1> QED
  BY <1>5, <1>6, <1>7

\* A risk row.
LEMMA RecordInsertLegRisk ==
  ASSUME Inv, RecordInv, NEW t \in Attempts, NEW s \in Sides, InsertLegRisk(t, s)
  PROVE  RecordOf(t)'
<1> USE DEF RecordOf, At, Goto
<1>0. RecordOf(t) /\ {"YES", "NO"} = Sides
  BY DEF RecordInv, Sides
<1>1. UNCHANGED <<status, ids, trades, near_misses>>
  BY DEF InsertLegRisk, local
<1>2. \/ pc[t] = "risk_yes" /\ pc'[t] = "risk_no" /\ s = "YES"
      \/ pc[t] = "risk_no"  /\ pc'[t] = "miss"    /\ s = "NO"
  BY DEF InsertLegRisk, RiskStep, Following, Sides, Inv, TypeOK, TaskTypes
<1>3. /\ \A v \in Sides : Filled(t, v)' <=> Filled(t, v)
      /\ BothFilled(t)' <=> BothFilled(t)
      /\ Judged(t)' <=> Judged(t)
      /\ \A v \in Sides : RiskRows(t, v)' = RiskRows(t, v)
  BY <1>1 DEF Filled, BothFilled, Judged, RiskRows, RiskRow, Unpaired, Unconfirmed
<1>4. Judged(t) /\ ~ BothFilled(t) /\ t \notin near_misses
  BY <1>0, <1>2 DEF AskedInv, RiskInv, MissInv, Judging
<1>5. RiskInv(t)'
  <2>1. leg_risks \subseteq leg_risks' /\ (NoDb => RiskRows(t, s) \subseteq leg_risks')
    BY DEF InsertLegRisk, Written, NoDb, Without
  <2>2. NoDb => RiskRows(t, "YES") \subseteq leg_risks'
    BY <1>0, <1>2, <2>1 DEF RiskInv
  <2>3. NoDb /\ pc'[t] = "miss" => RiskRows(t, "NO") \subseteq leg_risks'
    BY <1>2, <2>1
  <2> QED
    BY <1>0, <1>2, <1>3, <1>4, <2>2, <2>3 DEF RiskInv, Concluded
<1>6. AskedInv(t)' /\ TradeInv(t)' /\ MissInv(t)'
  BY <1>0, <1>1, <1>2, <1>3, <1>4 DEF AskedInv, TradeInv, MissInv, Judging, Concluded
<1> QED
  BY <1>5, <1>6

\* The near miss.
LEMMA RecordInsertNearMiss ==
  ASSUME Inv, RecordInv, NEW t \in Attempts, InsertNearMiss(t)
  PROVE  RecordOf(t)'
<1> USE DEF RecordOf, At, Goto
<1>0. RecordOf(t) /\ {"YES", "NO"} = Sides
  BY DEF RecordInv, Sides
<1>1. UNCHANGED <<status, ids, trades, leg_risks>> /\ pc[t] = "miss" /\ pc'[t] = "done"
  BY DEF InsertNearMiss, Leave, local, Inv, TypeOK, TaskTypes
<1>2. /\ \A v \in Sides : Filled(t, v)' <=> Filled(t, v)
      /\ BothFilled(t)' <=> BothFilled(t)
      /\ Judged(t)' <=> Judged(t)
      /\ \A v \in Sides : RiskRows(t, v)' = RiskRows(t, v)
  BY <1>1 DEF Filled, BothFilled, Judged, RiskRows, RiskRow, Unpaired, Unconfirmed
<1>3. ~ BothFilled(t) /\ (NoDb => t \in near_misses')
  BY <1>0, <1>1 DEF RiskInv, InsertNearMiss, Written, NoDb, Without
<1> QED
  BY <1>0, <1>1, <1>2, <1>3 DEF AskedInv, TradeInv, RiskInv, MissInv, Judging, Concluded

\* Every step keeps what is owed to every attempt: a task's own steps by the
\* lemmas above, all else by RecordKept.
LEMMA RecordInvStep ==
  ASSUME Inv, RecordInv, Next
  PROVE  RecordInv'
<1> USE DEF At, Goto, local, tables
<1>0. SUFFICES ASSUME NEW u \in Attempts PROVE RecordOf(u)'
  BY DEF RecordInv
<1>1. RecordOf(u)
  BY DEF RecordInv
<1> DEFINE Undisturbed == UNCHANGED <<status, trades, leg_risks, near_misses>>
<1>2. ASSUME NEW t \in Attempts, NEW o \in Opportunities, Spawn(t, o) PROVE RecordOf(u)'
  <2>1. Undisturbed /\ ids' = ids
    BY <1>2 DEF Spawn
  <2>2. pc'[u] = pc[u] \/ (pc[u] \in Unasked /\ pc'[u] \in Unasked)
    BY <1>2 DEF Spawn, Unasked, Undecided, Inv, TypeOK, TaskTypes
  <2> QED
    BY <1>1, <2>1, <2>2, RecordKept
<1>3. ASSUME NEW t \in Attempts, TaskStep(t) PROVE RecordOf(u)'
  <2>1. CASE \/ Acquire(t) \/ GiveUp(t) \/ SkipUnaffordable(t) \/ PassBalance(t)
             \/ InsertAlert(t) \/ PayloadFails(t) \/ DryRunExecute(t) \/ PostBatch(t)
             \/ BatchAnswered(t) \/ BatchFails(t) \/ Wake(t)
    <3>1. Undisturbed
      BY <2>1 DEF Acquire, GiveUp, SkipUnaffordable, PassBalance, InsertAlert, PayloadFails,
         DryRunExecute, PostBatch, BatchAnswered, BatchFails, Wake
    <3>2. u # t => ids'[u] = ids[u]
      BY <2>1 DEF Acquire, GiveUp, SkipUnaffordable, PassBalance, InsertAlert, PayloadFails,
         DryRunExecute, PostBatch, BatchAnswered, BatchFails, Wake, Inv, TypeOK, TaskTypes
    <3>3. \E step \in Unasked \cup {"query_yes", "done"} : pc' = [pc EXCEPT ![t] = step]
      BY <2>1, FollowingSteps DEF Acquire, GiveUp, SkipUnaffordable, PassBalance, InsertAlert,
         PayloadFails, DryRunExecute, PostBatch, BatchAnswered, BatchFails, Wake, Leave, Unasked,
         Undecided
    <3>4. pc[t] \in Unasked
      BY <2>1 DEF Acquire, GiveUp, SkipUnaffordable, PassBalance, InsertAlert, PayloadFails,
         DryRunExecute, PostBatch, BatchAnswered, BatchFails, Wake, Unasked, Undecided
    <3>5. \/ pc'[u] = pc[u] /\ u # t
          \/ pc[u] \in Unasked /\ pc'[u] \in Unasked \cup {"query_yes", "done"}
      BY <3>3, <3>4 DEF Inv, TypeOK, TaskTypes
    <3> QED
      BY <1>1, <3>1, <3>2, <3>5, RecordKept
  <2>2. ASSUME NEW s \in Sides, CheckFill(t, s) PROVE RecordOf(u)'
    <3>1. CASE u = t
      BY <2>2, <3>1, RecordCheckFill
    <3>2. CASE u # t
      <4>1. status'[u] = status[u] /\ pc'[u] = pc[u] /\ UNCHANGED <<ids, trades, leg_risks, near_misses>>
        BY <2>2, <3>2 DEF CheckFill, Inv, TypeOK, TaskTypes
      <4> QED
        BY <1>1, <4>1, RecordKept
    <3> QED
      BY <3>1, <3>2
  <2>3. ASSUME NEW s \in Sides, InsertTrade(t, s) PROVE RecordOf(u)'
    <3>1. CASE u = t
      BY <2>3, <3>1, RecordInsertTrade
    <3>2. CASE u # t
      <4>1. pc'[u] = pc[u] /\ UNCHANGED <<status, ids, leg_risks, near_misses>>
        BY <2>3, <3>2 DEF InsertTrade, Leave, Inv, TypeOK, TaskTypes
      <4>2. trades \subseteq trades' /\ trades' \subseteq trades \cup {<<t, s>>}
        BY <2>3 DEF InsertTrade, Written
      <4>3. \A v \in Sides : <<u, v>> \in trades' <=> <<u, v>> \in trades
        BY <3>2, <4>2
      <4> QED
        BY <1>1, <4>1, <4>3, RecordKept
    <3> QED
      BY <3>1, <3>2
  <2>4. ASSUME NEW s \in Sides, InsertLegRisk(t, s) PROVE RecordOf(u)'
    <3>1. CASE u = t
      BY <2>4, <3>1, RecordInsertLegRisk
    <3>2. CASE u # t
      <4>1. pc'[u] = pc[u] /\ UNCHANGED <<status, ids, trades, near_misses>>
        BY <2>4, <3>2 DEF InsertLegRisk, Inv, TypeOK, TaskTypes
      <4>2. leg_risks \subseteq leg_risks' /\ leg_risks' \subseteq leg_risks \cup RiskRows(t, s)
        BY <2>4 DEF InsertLegRisk, Written
      <4>3. \A row : row.attempt = u => (row \in leg_risks' <=> row \in leg_risks)
        BY <3>2, <4>2, RowsOwn
      <4> QED
        BY <1>1, <4>1, <4>3, RecordKept
    <3> QED
      BY <3>1, <3>2
  <2>5. CASE InsertNearMiss(t)
    <3>1. CASE u = t
      BY <2>5, <3>1, RecordInsertNearMiss
    <3>2. CASE u # t
      <4>1. pc'[u] = pc[u] /\ UNCHANGED <<status, ids, trades, leg_risks>>
        BY <2>5, <3>2 DEF InsertNearMiss, Leave, Inv, TypeOK, TaskTypes
      <4>2. u \in near_misses' <=> u \in near_misses
        BY <2>5, <3>2 DEF InsertNearMiss, Written
      <4> QED
        BY <1>1, <4>1, <4>2, RecordKept
    <3> QED
      BY <3>1, <3>2
  <2> QED
    BY <1>3, <2>1, <2>2, <2>3, <2>4, <2>5 DEF TaskStep
<1>4. CASE Stop
  <2>1. Undisturbed /\ ids' = ids
    BY <1>4 DEF Stop
  <2>2. pc'[u] = pc[u] \/ (pc[u] \in Live /\ pc'[u] = "dropped")
    BY <1>4 DEF Stop
  <2> QED
    BY <1>1, <2>1, <2>2, RecordKept
<1>5. CASE \/ \E f \in Fetches : AnswerBalance(f) \/ ApplyBalance(f)
           \/ \E t \in Attempts : PlaceBatch(t) \/ \E s \in Sides : DecideOrder(t, s)
           \/ Tick \/ Start
  <2>1. Undisturbed /\ UNCHANGED <<pc, ids>>
    BY <1>5 DEF AnswerBalance, ApplyBalance, PlaceBatch, DecideOrder, Tick, Start
  <2> QED
    BY <1>1, <2>1, RecordKept
<1> QED
  BY <1>2, <1>3, <1>4, <1>5 DEF Next

-----------------------------------------------------------------------------
\* ---- Rows and orders, dry runs ----

\* An order that is filled stays filled.
LEMMA FilledForGood ==
  ASSUME Inv, Next, NEW t \in Attempts, NEW s \in Sides, order[t][s] = "filled"
  PROVE  order'[t][s] = "filled"
<1>1. batch[t] = "placed"
  BY DEF Inv, OrderInv
<1>2. ASSUME NEW u \in Attempts, PlaceBatch(u) PROVE order'[t] = order[t]
  BY <1>1, <1>2 DEF PlaceBatch, Inv, TypeOK, ExchangeTypes
<1>3. ASSUME NEW u \in Attempts, NEW v \in Sides, DecideOrder(u, v) PROVE order'[t][s] = order[t][s]
  BY <1>3 DEF DecideOrder, Inv, TypeOK, ExchangeTypes
<1>4. ASSUME NEW u \in Attempts, TaskStep(u) PROVE order' = order
  BY <1>4 DEF TaskStep, Acquire, GiveUp, SkipUnaffordable, PassBalance, InsertAlert, PostBatch,
     PayloadFails, DryRunExecute, BatchAnswered, BatchFails, Wake, CheckFill, InsertTrade,
     InsertLegRisk, InsertNearMiss, exchange
<1>5. CASE \/ \E u \in Attempts, o \in Opportunities : Spawn(u, o)
           \/ \E f \in Fetches : AnswerBalance(f) \/ ApplyBalance(f)
           \/ Tick \/ Stop \/ Start
  BY <1>5 DEF Spawn, AnswerBalance, ApplyBalance, Tick, Stop, Start, exchange
<1> QED
  BY <1>2, <1>3, <1>4, <1>5 DEF Next

\* The mode of a run never changes, and only InsertLegRisk writes risk rows.
LEMMA ModeAndRows ==
  ASSUME Next
  PROVE  /\ dry_run' = dry_run
         /\ \/ leg_risks' = leg_risks
            \/ \E t \in Attempts, s \in Sides : InsertLegRisk(t, s)
<1>1. ASSUME NEW u \in Attempts, TaskStep(u)
      PROVE  /\ dry_run' = dry_run
             /\ leg_risks' = leg_risks \/ \E s \in Sides : InsertLegRisk(u, s)
  BY <1>1 DEF TaskStep, Acquire, GiveUp, SkipUnaffordable, PassBalance, InsertAlert, PostBatch,
     PayloadFails, DryRunExecute, BatchAnswered, BatchFails, Wake, CheckFill, InsertTrade,
     InsertLegRisk, InsertNearMiss, process, tables
<1>2. CASE \/ \E u \in Attempts, o \in Opportunities : Spawn(u, o)
           \/ \E f \in Fetches : AnswerBalance(f) \/ ApplyBalance(f)
           \/ \E t \in Attempts : PlaceBatch(t) \/ \E s \in Sides : DecideOrder(t, s)
           \/ Tick \/ Stop \/ Start
  BY <1>2 DEF Spawn, AnswerBalance, ApplyBalance, PlaceBatch, DecideOrder, Tick, Stop, Start,
     process, tables
<1> QED
  BY <1>1, <1>2 DEF Next

\* LegRisksNameTheirOrder is inductive beside Inv and IdsInv.
LEMMA LegRisksStep ==
  ASSUME Inv, IdsInv, LegRisksNameTheirOrder, Next
  PROVE  LegRisksNameTheirOrder'
<1> SUFFICES ASSUME ~ dry_run, NEW row \in leg_risks'
             PROVE  /\ row.order_id \in {<<row.attempt, row.leg>>, EmptyId}
                    /\ row.reason = "FAILED" => order'[row.attempt][Other(row.leg)] = "filled"
  BY ModeAndRows DEF LegRisksNameTheirOrder
<1>1. CASE row \in leg_risks
  <2>1. row.attempt \in Attempts /\ row.leg \in Sides /\ Other(row.leg) \in Sides
    BY <1>1 DEF Inv, TypeOK, TableTypes, LegRisks, Other, Sides
  <2> QED
    BY <1>1, <2>1, FilledForGood DEF LegRisksNameTheirOrder
<1>2. CASE row \notin leg_risks
  <2>1. PICK t \in Attempts, s \in Sides : InsertLegRisk(t, s) /\ row \in RiskRows(t, s)
    BY <1>2, ModeAndRows DEF InsertLegRisk, Written
  <2>2. Other(s) \in Sides /\ Other(Other(s)) = s
    BY DEF Other, Sides
  <2>3. \A v \in Sides : ids[t][v] # None => ids[t][v] \in {<<t, v>>, EmptyId}
    BY DEF IdsInv, IdsOf
  <2>4. order' = order
    BY <2>1 DEF InsertLegRisk, exchange
  <2>5. CASE Unpaired(t, s) /\ row = RiskRow(t, Other(s), "FAILED")
    BY <2>2, <2>3, <2>4, <2>5 DEF Unpaired, RiskRow, Filled, Inv, OrderInv
  <2>6. CASE Unconfirmed(t, s) /\ row = RiskRow(t, s, "UNCONFIRMED")
    BY <2>3, <2>6 DEF Unconfirmed, RiskRow, Inv, OrderInv
  <2> QED
    BY <2>1, <2>5, <2>6 DEF RiskRows
<1> QED
  BY <1>1, <1>2

\* In a dry run nothing is sent, and so nothing is bought or recorded.
LEMMA DryRunStep ==
  ASSUME Inv, DryRunIsInert, Next
  PROVE  DryRunIsInert'
<1> SUFFICES ASSUME dry_run, \A t \in Attempts : batch[t] = "none", trades = {}, wallet = FUNDS
             PROVE  (\A t \in Attempts : batch'[t] = "none") /\ trades' = {} /\ wallet' = FUNDS
  BY ModeAndRows DEF DryRunIsInert
<1>1. \A t \in Attempts, s \in Sides : order[t][s] = "none" /\ ~ Filled(t, s)
  BY DEF Inv, OrderInv, Filled
<1>2. ASSUME NEW t \in Attempts, TaskStep(t)
      PROVE  (\A u \in Attempts : batch'[u] = "none") /\ trades' = {} /\ wallet' = FUNDS
  <2>1. ASSUME NEW s \in Sides, InsertTrade(t, s) PROVE trades' = {} /\ UNCHANGED <<batch, wallet>>
    BY <1>1, <2>1 DEF InsertTrade, Written, exchange
  <2>2. ~ PostBatch(t)
    BY DEF PostBatch, Submits
  <2> QED
    BY <1>2, <2>1, <2>2 DEF TaskStep, Acquire, GiveUp, SkipUnaffordable, PassBalance, InsertAlert,
       PayloadFails, DryRunExecute, BatchAnswered, BatchFails, Wake, CheckFill, InsertLegRisk,
       InsertNearMiss, exchange, tables
<1>3. ~ \E t \in Attempts : PlaceBatch(t) \/ \E s \in Sides : DecideOrder(t, s)
  BY <1>1 DEF PlaceBatch, DecideOrder
<1>4. CASE \/ \E t \in Attempts, o \in Opportunities : Spawn(t, o)
           \/ \E f \in Fetches : AnswerBalance(f) \/ ApplyBalance(f)
           \/ Tick \/ Stop \/ Start
  BY <1>4 DEF Spawn, AnswerBalance, ApplyBalance, Tick, Stop, Start, exchange, tables
<1> QED
  BY <1>2, <1>3, <1>4 DEF Next

-----------------------------------------------------------------------------
\* ---- Theorems ----

SettleInv == Inv /\ AlertInv /\ IdsInv /\ RecordInv

\* The invariant holds of every behaviour.
THEOREM SettlementInvariance == Spec => []SettleInv
<1>1. Init => SettleInv
  BY InitInv, AlertInvInit, IdsInvInit, RecordInvInit DEF SettleInv
<1>2. SettleInv /\ Next => SettleInv'
  BY TypeStep, PcInvStep, LockInvStep, QuietInvStep, OrderInvStep, AlertInvStep, IdsInvStep,
     RecordInvStep DEF SettleInv, Inv
<1>3. ASSUME SettleInv, UNCHANGED vars PROVE SettleInv'
  <2>1. Inv'
    BY <1>3, StutterInv DEF SettleInv
  <2>2. AlertInv' /\ IdsInv'
    BY <1>3, IdsKept DEF SettleInv, AlertInv, vars, process, local, tables, exchange
  <2>3. RecordInv'
    <3>1. UNCHANGED <<pc, status, ids, trades, leg_risks, near_misses>>
      BY <1>3 DEF vars, local, tables
    <3> QED
      BY <1>3, <3>1, RecordKept DEF SettleInv, RecordInv
  <2> QED
    BY <2>1, <2>2, <2>3 DEF SettleInv
<1> QED
  BY <1>1, <1>2, <1>3, PTL DEF Spec

\* A paired leg that did not fill beside one that did is flagged, on either
\* side.
THEOREM PairedLegsFlagged == Spec => []PairedLegFlagged
<1>1. SettleInv => PairedLegFlagged
  <2> SUFFICES ASSUME SettleInv, NoDb, NEW t \in Attempts, NEW s \in Sides, Concluded(t),
                      \A side \in Sides : ids[t][side] # None,
                      Filled(t, s), ~ Filled(t, Other(s))
               PROVE  RiskRowOf(t, Other(s))
    BY DEF PairedLegFlagged, NoDb
  <2>1. Other(s) \in Sides /\ ~ BothFilled(t)
    BY DEF Other, Sides, BothFilled
  <2>2. RiskRows(t, "YES") \cup RiskRows(t, "NO") \subseteq leg_risks
    BY <2>1 DEF SettleInv, RecordInv, RecordOf, RiskInv
  <2>3. CASE status[t][Other(s)] = "QUERY_ERR"
    <3>1. RiskRow(t, Other(s), "UNCONFIRMED") \in leg_risks
      BY <2>1, <2>2, <2>3 DEF RiskRows, Unconfirmed, Sides
    <3> QED
      BY <3>1 DEF RiskRowOf, RiskRow
  <2>4. CASE status[t][Other(s)] # "QUERY_ERR"
    <3>1. RiskRow(t, Other(s), "FAILED") \in leg_risks
      BY <2>1, <2>2, <2>4 DEF RiskRows, Unpaired, Filled, Sides
    <3> QED
      BY <3>1 DEF RiskRowOf, RiskRow
  <2> QED
    BY <2>3, <2>4
<1> QED
  BY SettlementInvariance, <1>1, PTL

\* Every filled order of a concluded attempt is a trade, has a risk row, or is
\* part of a near miss whose reason says that its answer was inconclusive.
THEOREM NoFillSilent == Spec => []NoSilentFill
<1>1. SettleInv => NoSilentFill
  <2> SUFFICES ASSUME SettleInv, NoDb, NEW t \in Attempts, NEW s \in Sides,
                      Concluded(t), order[t][s] = "filled"
               PROVE  \/ <<t, s>> \in trades \/ RiskRowOf(t, s)
                      \/ status[t][s] \in Inconclusive /\ t \in near_misses
    BY DEF NoSilentFill, NoDb
  <2>1. IdsOf(t, s) /\ TradeInv(t) /\ RiskInv(t) /\ MissInv(t)
    BY DEF SettleInv, IdsInv, RecordInv, RecordOf
  <2>2. status[t][s] \in {"FILLED", "QUERY_ERR"} \cup Inconclusive
    <3>1. status[t][s] \in Statuses /\ status[t][s] # None
      BY DEF SettleInv, Inv, TypeOK, TaskTypes, Concluded
    <3>2. status[t][s] # "UNFILLED"
      BY <2>1 DEF IdsOf
    <3>3. status[t][s] \in {"NO_ID", "VOID"} => Garbled
      BY <2>1, <3>1 DEF IdsOf
    <3>4. status[t][s] = "LIVE" => Delayed
      BY <2>1 DEF IdsOf
    <3> QED
      BY <3>1, <3>2, <3>3, <3>4 DEF Statuses, Inconclusive, Garbled, Delayed
  <2>3. CASE status[t][s] = "FILLED"
    BY <2>1, <2>3 DEF TradeInv, Filled, Sides
  <2>4. CASE status[t][s] = "QUERY_ERR"
    <3>1. ~ BothFilled(t)
      BY <2>4 DEF BothFilled, Filled
    <3>2. RiskRow(t, s, "UNCONFIRMED") \in leg_risks
      BY <2>1, <2>4, <3>1 DEF RiskInv, RiskRows, Unconfirmed, Sides
    <3> QED
      BY <3>2 DEF RiskRowOf, RiskRow
  <2>5. CASE status[t][s] \in Inconclusive
    <3>1. ~ BothFilled(t)
      BY <2>5 DEF BothFilled, Filled, Inconclusive
    <3> QED
      BY <2>1, <2>5, <3>1 DEF MissInv
  <2> QED
    BY <2>2, <2>3, <2>4, <2>5
<1> QED
  BY SettlementInvariance, <1>1, PTL

\* A concluded attempt is a completed pair or a near miss, never both.
THEOREM VerdictsComplete == Spec => []VerdictIsComplete
<1>1. SettleInv => VerdictIsComplete
  <2> SUFFICES ASSUME SettleInv, NoDb, NEW t \in Attempts, Concluded(t)
               PROVE  IF {t} \X Sides \subseteq trades
                      THEN t \notin near_misses /\ ~ \E s \in Sides : RiskRowOf(t, s)
                      ELSE t \in near_misses
    BY DEF VerdictIsComplete, NoDb
  <2>1. TradeInv(t) /\ RiskInv(t) /\ MissInv(t)
    BY DEF SettleInv, RecordInv, RecordOf
  <2>2. {t} \X Sides \subseteq trades <=> BothFilled(t)
    <3>1. BothFilled(t) => <<t, "YES">> \in trades /\ <<t, "NO">> \in trades
      BY <2>1 DEF TradeInv, BothFilled, Sides
    <3>2. \A s \in Sides : <<t, s>> \in {t} \X Sides
      OBVIOUS
    <3> QED
      BY <2>1, <3>1, <3>2 DEF TradeInv, BothFilled, Sides
  <2> QED
    BY <2>1, <2>2 DEF RiskInv, MissInv, RiskRowOf
<1> QED
  BY SettlementInvariance, <1>1, PTL

\* Risk rows name the order they are about, and a FAILED one stands beside a
\* filled order.
THEOREM RiskRowsTrue == Spec => []LegRisksNameTheirOrder
<1>1. Init => LegRisksNameTheirOrder
  BY DEF Init, LegRisksNameTheirOrder
<1>2. SettleInv /\ LegRisksNameTheirOrder /\ [Next]_vars => LegRisksNameTheirOrder'
  <2>1. ASSUME LegRisksNameTheirOrder, UNCHANGED vars PROVE LegRisksNameTheirOrder'
    BY <2>1 DEF LegRisksNameTheirOrder, vars, process, tables, exchange
  <2> QED
    BY <2>1, LegRisksStep DEF SettleInv
<1> QED
  BY SettlementInvariance, <1>1, <1>2, PTL DEF Spec

\* No batch without its alert.
THEOREM AlertFirst == Spec => []AlertBeforeFire
<1>1. SettleInv => AlertBeforeFire
  BY DEF SettleInv, AlertInv, AlertBeforeFire, NoDb
<1> QED
  BY SettlementInvariance, <1>1, PTL

\* A dry run sends, buys and records nothing.
THEOREM DryRunInert == Spec => []DryRunIsInert
<1>1. Init => DryRunIsInert
  BY DEF Init, DryRunIsInert
<1>2. Inv /\ DryRunIsInert /\ [Next]_vars => DryRunIsInert'
  <2>1. ASSUME DryRunIsInert, UNCHANGED vars PROVE DryRunIsInert'
    BY <2>1 DEF DryRunIsInert, vars, process, tables, exchange
  <2> QED
    BY <2>1, DryRunStep
<1> QED
  BY Invariance, <1>1, <1>2, PTL DEF Spec

\* An attempt past its answer ends at one of the two steps that follow the
\* judgement, and neither of them takes an answer back.
LEMMA HowJudgedEnds ==
  ASSUME Inv, Next, NEW t \in Attempts, pc[t] \in Past, pc'[t] = "done"
  PROVE  pc[t] \in {"trade_no", "miss"} /\ status' = status
<1> USE DEF Inv, TypeOK, TaskTypes, At, Goto, Leave, Past, Critical, Undecided
<1>1. ASSUME NEW u \in Attempts, TaskStep(u)
      PROVE  pc[t] \in {"trade_no", "miss"} /\ status' = status
  <2>1. u = t
    BY <1>1 DEF TaskStep, Acquire, GiveUp, SkipUnaffordable, PassBalance, InsertAlert, PostBatch,
       PayloadFails, DryRunExecute, BatchAnswered, BatchFails, Wake, CheckFill, InsertTrade,
       InsertLegRisk, InsertNearMiss
  <2>2. ~ Wake(t)
    BY DEF Wake
  <2>3. ASSUME NEW s \in Sides, CheckFill(t, s) \/ InsertLegRisk(t, s) PROVE FALSE
    <3>1. pc'[t] = Following[pc[t]] /\ pc[t] \in {QueryStep[s], RiskStep[s]}
      BY <2>3 DEF CheckFill, InsertLegRisk
    <3> QED
      BY <3>1, FollowingSteps
  <2>4. ASSUME NEW s \in Sides, InsertTrade(t, s) PROVE pc[t] = "trade_no" /\ status' = status
    BY <2>4, FollowingSteps DEF InsertTrade, TradeStep, Sides, local
  <2>5. InsertNearMiss(t) => pc[t] = "miss" /\ status' = status
    BY DEF InsertNearMiss, local
  <2> QED
    BY <1>1, <2>1, <2>2, <2>3, <2>4, <2>5 DEF TaskStep, Acquire, GiveUp, SkipUnaffordable, PassBalance,
       InsertAlert, PostBatch, PayloadFails, DryRunExecute, BatchAnswered, BatchFails
<1>2. ~ \E u \in Attempts, o \in Opportunities : Spawn(u, o)
  BY DEF Spawn
<1>3. ~ Stop
  BY DEF Stop, Live
<1>4. ~ \/ \E f \in Fetches : AnswerBalance(f) \/ ApplyBalance(f)
        \/ \E u \in Attempts : PlaceBatch(u) \/ \E s \in Sides : DecideOrder(u, s)
        \/ Tick \/ Start
  BY DEF AnswerBalance, ApplyBalance, PlaceBatch, DecideOrder, Tick, Start
<1> QED
  BY <1>1, <1>2, <1>3, <1>4 DEF Next

\* No path from an answer to the end of its attempt goes round the judgement.
THEOREM EndsJudged == Spec => AnsweredEndsJudged
<1>1. ASSUME SettleInv, [Next]_vars
      PROVE  [\A t \in Attempts :
                pc[t] \in Critical \ {"balance", "alert", "execute", "posted"} /\ pc'[t] = "done"
                  => Concluded(t)']_vars
  <2> SUFFICES ASSUME NEW t \in Attempts, pc'[t] = "done",
                      pc[t] \in Critical \ {"balance", "alert", "execute", "posted"}
               PROVE  \A s \in Sides : status'[t][s] # None
    BY DEF Concluded
  <2>1. pc[t] \in Past
    BY DEF Past, Critical, Undecided
  <2>2. pc[t] \in Judging /\ status' = status
    BY <1>1, <2>1, HowJudgedEnds DEF SettleInv, vars, Judging, Past, Critical, Undecided
  <2>3. Judged(t)
    BY <1>1, <2>2 DEF SettleInv, RecordInv, RecordOf, AskedInv
  <2> QED
    BY <2>2, <2>3 DEF Judged
<1> QED
  BY SettlementInvariance, <1>1, PTL DEF Spec, AnsweredEndsJudged
=============================================================================

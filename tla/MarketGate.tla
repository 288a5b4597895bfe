------------------------------ MODULE MarketGate ------------------------------
(***************************************************************************)
(* What the per-market mutex of src/src/main.rs promises, without tasks,   *)
(* tables, orders or money: a market deals with one opportunity at a time, *)
(* and once an order batch has been answered the market stays closed until *)
(* SETTLE ticks have gone by.  TradeExecution implements this module.      *)
(*                                                                         *)
(* The cooldown is absent on purpose: it is checked before the mutex is    *)
(* taken, so it promises nothing about the batches that are sent.          *)
(***************************************************************************)
EXTENDS Integers

CONSTANTS
  Markets,
  Attempts,
  SETTLE,     \* ticks a market stays closed after an answered batch
  None        \* nobody

VARIABLES
  holder,     \* market -> the attempt it is dealing with
  phase,      \* market -> how far that attempt is
  quiet       \* market -> ticks since the batch of its present attempt was
              \* answered; SETTLE when there is none

vars == <<holder, phase, quiet>>

Init ==
  /\ holder = [m \in Markets |-> None]
  /\ phase  = [m \in Markets |-> "open"]
  /\ quiet  = [m \in Markets |-> SETTLE]

Becomes(m, step) == phase' = [phase EXCEPT ![m] = step]

\* One attempt enters an open market.
Enter(m, t) ==
  /\ phase[m] = "open"
  /\ holder' = [holder EXCEPT ![m] = t]
  /\ Becomes(m, "deciding")
  /\ UNCHANGED quiet

\* It sends its orders, which takes a market that has settled.
Fire(m) ==
  /\ phase[m] = "deciding"
  /\ quiet[m] = SETTLE
  /\ Becomes(m, "firing")
  /\ UNCHANGED <<holder, quiet>>

\* Or it only pretends to (dry run).
Rehearse(m) ==
  /\ phase[m] = "deciding"
  /\ Becomes(m, "settling")
  /\ UNCHANGED <<holder, quiet>>

Answered(m) ==
  /\ phase[m] = "firing"
  /\ Becomes(m, "settling")
  /\ quiet' = [quiet EXCEPT ![m] = 0]
  /\ UNCHANGED holder

\* The market opens again: at any time before an answer, and after it only
\* when the orders have had their time to settle.
Close(m) ==
  /\ phase[m] # "open"
  /\ phase[m] = "settling" => quiet[m] = SETTLE
  /\ Becomes(m, "open")
  /\ holder' = [holder EXCEPT ![m] = None]
  /\ UNCHANGED quiet

Elapse ==
  /\ quiet' = [m \in Markets |-> IF quiet[m] < SETTLE THEN quiet[m] + 1 ELSE quiet[m]]
  /\ UNCHANGED <<holder, phase>>

\* The process dies and what it knew dies with it.
Crash ==
  /\ holder' = [m \in Markets |-> None]
  /\ phase'  = [m \in Markets |-> "open"]
  /\ quiet'  = [m \in Markets |-> SETTLE]

Next ==
  \/ \E m \in Markets, t \in Attempts : Enter(m, t)
  \/ \E m \in Markets : Fire(m) \/ Rehearse(m) \/ Answered(m) \/ Close(m)
  \/ Elapse
  \/ Crash

Spec == Init /\ [][Next]_vars

=============================================================================

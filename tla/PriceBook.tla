------------------------------- MODULE PriceBook -------------------------------
(***************************************************************************)
(* What the analyzer promises, without its maps, flags and locks: a book   *)
(* holds one quote per listed market, and an opportunity that comes out of *)
(* a step is the one of the book as that step leaves it.                   *)
(***************************************************************************)
EXTENDS Pricing

CONSTANTS
  Markets,
  Seeds,    \* quotes a market may be listed with
  Heard,    \* values [ask, size] one leg of a quote may take later
  None

VARIABLES
  book,     \* market -> its quote, None when it is not listed
  out       \* the opportunity the last step handed on, with its market

vars == <<book, out>>

\* A market that stays listed keeps its quote; a new one gets a seed.
List ==
  /\ \E listed \in SUBSET Markets, seed \in [Markets -> Seeds] :
        book' = [m \in Markets |-> IF m \notin listed   THEN None
                                   ELSE IF book[m] = None THEN seed[m]
                                   ELSE book[m]]
  /\ out' = None

\* A quote is only handed on as the opportunity it is.
Answer(m) ==
  out' \in {None} \cup (IF IsOpportunity(book'[m])
                        THEN {[market |-> m, opp |-> Opportunity(book'[m])]} ELSE {})

Replaced(q, leg, h) ==
  [ask |-> [q.ask EXCEPT ![leg] = h.ask], size |-> [q.size EXCEPT ![leg] = h.size]]

\* One leg of a listed market gets its new value, and the result is judged.
Hear(m) ==
  /\ book[m] # None
  /\ \E leg \in Legs, h \in Heard : book' = [book EXCEPT ![m] = Replaced(@, leg, h)]
  /\ Answer(m)

\* A listed market is judged as it stands.
Judge(m) ==
  /\ book[m] # None
  /\ UNCHANGED book
  /\ Answer(m)

\* An opportunity is handed on once.
Rest == out' = None /\ UNCHANGED book

Init == book = [m \in Markets |-> None] /\ out = None
Next == List \/ (\E m \in Markets : Hear(m) \/ Judge(m)) \/ Rest
Spec == Init /\ [][Next]_vars
=============================================================================

--------------------------- MODULE MCTradeExecution ---------------------------
(* Values for the constants of TradeExecution that a .cfg cannot write. *)
EXTENDS TradeExecution, TLC

\* One pair of legs, a cheap and a dear one.
OneCost  == {[YES |-> 1, NO |-> 2]}
\* Two opportunities of different cost.
TwoCosts == OneCost \cup {[YES |-> 1, NO |-> 1]}

\* Sound where only safety is checked: nothing tells two attempts, two
\* markets or two fetches apart.
Symmetry == Permutations(Attempts) \cup Permutations(Markets) \cup Permutations(Fetches)

=============================================================================

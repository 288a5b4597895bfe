-------------------------------- MODULE Analyzer --------------------------------
(***************************************************************************)
(* The ArbitrageAnalyzer (src/src/analyzer/mod.rs) and its two callers in  *)
(* src/src/main.rs: the refresh task loads the market list and then asks   *)
(* for every listed market, one read lock at a time; the consumer applies  *)
(* price updates, each analysed under the write lock that applied it.  The *)
(* two run on different threads, so updates fall between the analyses of a *)
(* refresh.  Updates may name any token, listed or not, in any order: the  *)
(* feed is not part of this module.                                        *)
(***************************************************************************)
EXTENDS Pricing

CONSTANTS
  Markets,   \* market ids
  Seeds,     \* pairs of REST prices a market may be listed with, 0 for none
  Asks,      \* prices of updates, 0 when missing or not a number
  Depths,    \* sizes of updates
  None       \* an absent entry

ASSUME InputAssumption ==
  Seeds \subseteq [Legs -> Nat] /\ Asks \subseteq Nat /\ Depths \subseteq Nat

Tokens == Markets \X Legs      \* the YES and the NO token of a market
DEFAULT_SIZE == 100 * UNIT     \* size until one is heard: 100 shares

MarketStates ==
  [market : Seeds,                     \* the metadata: REST prices it was listed with
   ask : [Legs -> Nat], size : [Legs -> Nat], ready : [Legs -> BOOLEAN],
   armed : BOOLEAN]

ASSUME NoneAssumption == None \notin Markets \cup MarketStates \cup Quotes

VARIABLES
  states,     \* marketId -> MarketState
  token_map,  \* tokenId -> marketId
  grace,      \* less than five minutes since boot_time?
  snapshot,   \* markets do_refresh has still to analyse
  opp,        \* what the last call returned to its caller, which spawns a trade
  listed,     \* history: the market list last loaded
  spoken,     \* history: markets an update was applied to since they were listed
  heard       \* history: per token the last ask and size heard since it was listed

vars == <<states, token_map, grace, snapshot, opp, listed, spoken, heard>>

Init ==
  /\ states = [m \in Markets |-> None]
  /\ token_map = [token \in Tokens |-> None]
  /\ grace = TRUE
  /\ snapshot = {}
  /\ opp = None
  /\ listed = {}
  /\ spoken = {}
  /\ heard = [token \in Tokens |-> None]

-----------------------------------------------------------------------------
\* ---- load_markets ----

\* The entry or_insert_with builds, pre-seeded from the REST prices.
NewState(seed) ==
  [market |-> seed, ask |-> seed, size |-> [leg \in Legs |-> DEFAULT_SIZE],
   ready |-> [leg \in Legs |-> seed[leg] # 0], armed |-> FALSE]

\* Mutated Merged: the refresh re-seeds every market, live prices included.
Reseeded(state, seed) == NewState(seed)

\* What an entry becomes when its market is listed (again).
Merged(state, seed) ==
  CASE state = None -> NewState(seed)
    [] state # None /\ state.armed -> state
    [] OTHER -> [state EXCEPT !.market = seed]

\* Mutated Retained: a market that trades live is not pruned.
RetainedIfArmed(m, active) == m \in active \/ (states[m] # None /\ states[m].armed)

Retained(m, active) == m \in active

\* Mutated Mapped: only the YES token of a pruned market is unmapped.
MappedNo(token, active) ==
  IF token[1] \in active \/ (token[2] = "NO" /\ token_map[token] # None) THEN token[1] ELSE None

\* The token's entry after the tokens of pruned markets are removed and
\* those of inserted ones added.
Mapped(token, active) ==
  CASE Retained(token[1], active) /\ states[token[1]] # None -> token_map[token]
    [] token[1] \in active                                   -> token[1]
    [] OTHER                                                 -> None

\* do_refresh got its list: both maps change under their write locks.
LoadMarkets(active, seed) ==
  /\ snapshot = {}
  /\ states' = [m \in Markets |-> IF m \in active THEN Merged(states[m], seed[m])
                                  ELSE IF Retained(m, active) THEN states[m] ELSE None]
  /\ token_map' = [token \in Tokens |-> Mapped(token, active)]
  /\ snapshot' = active
  /\ opp' = None
  /\ listed' = active
  /\ spoken' = spoken \cap active
  /\ heard' = [token \in Tokens |-> IF token[1] \in active THEN heard[token] ELSE None]
  /\ UNCHANGED grace

-----------------------------------------------------------------------------
\* ---- analyze_unlocked ----

Quote(state) == [ask |-> state.ask, size |-> state.size]

\* Mutated Eligible: the arming is not looked at after the boot window.
EligibleReady(state) == \A leg \in Legs : state.ready[leg]

\* Both legs have a price, and after the boot window the market is armed.
Eligible(state) ==
  /\ \A leg \in Legs : state.ready[leg]
  /\ state.armed \/ grace

Analyzed(m, state) ==
  IF Eligible(state) /\ IsOpportunity(Quote(state))
  THEN [market |-> m, opp |-> Opportunity(Quote(state))]
  ELSE None

\* analyze(): one market of the list, as it stands when its turn comes.
Analyze(m) ==
  /\ m \in snapshot
  /\ snapshot' = snapshot \ {m}
  /\ opp' = IF states[m] = None THEN None ELSE Analyzed(m, states[m])
  /\ UNCHANGED <<states, token_map, grace, listed, spoken, heard>>

-----------------------------------------------------------------------------
\* ---- update_price ----

\* Mutated Updated: an ask of 0 is stored like any other.
UpdatedByZero(state, leg, ask, size) ==
  [state EXCEPT !.armed = TRUE, !.ask[leg] = ask, !.size[leg] = size, !.ready[leg] = TRUE]

\* Any update arms the market; one without an ask changes nothing else.
Updated(state, leg, ask, size) ==
  IF ask = 0
  THEN [state EXCEPT !.armed = TRUE]
  ELSE [state EXCEPT !.armed = TRUE, !.ask[leg] = ask, !.size[leg] = size, !.ready[leg] = TRUE]

\* Mutated Judged: the state as it was before the update is analysed.
JudgedBefore(m, state) == Analyzed(m, states[m])

Judged(m, state) == Analyzed(m, state)

\* Both lookups succeed: token_map.get, then states.get_mut.
Known(token) == token_map[token] # None /\ states[token_map[token]] # None

UpdatePrice(token, ask, size) ==
  /\ Known(token)
  /\ LET m     == token_map[token]
         state == Updated(states[m], token[2], ask, size)
     IN /\ states' = [states EXCEPT ![m] = state]
        /\ opp' = Judged(m, state)
        /\ spoken' = spoken \cup {m}
  /\ heard' = [heard EXCEPT ![token] = IF ask = 0 THEN @ ELSE [ask |-> ask, size |-> size]]
  /\ UNCHANGED <<token_map, grace, snapshot, listed>>

\* An update for a token nobody knows (any more) is dropped.
IgnoreUpdate(token) ==
  /\ ~ Known(token)
  /\ opp' = None
  /\ UNCHANGED <<states, token_map, grace, snapshot, listed, spoken, heard>>

\* Five minutes have passed since boot_time.
GraceEnds ==
  /\ grace
  /\ grace' = FALSE
  /\ opp' = None
  /\ UNCHANGED <<states, token_map, snapshot, listed, spoken, heard>>

Next ==
  \/ \E active \in SUBSET Markets, seed \in [Markets -> Seeds] : LoadMarkets(active, seed)
  \/ \E m \in Markets : Analyze(m)
  \/ \E token \in Tokens, ask \in Asks, size \in Depths : UpdatePrice(token, ask, size)
  \/ \E token \in Tokens : IgnoreUpdate(token)
  \/ GraceEnds

Spec == Init /\ [][Next]_vars

-----------------------------------------------------------------------------
\* ---- Properties ----

\* A leg counts as ready exactly when it has a price, whether REST or the
\* feed gave it (analyzer mod.rs:95-103, 134-146).
ReadyMeansPriced ==
  \A m \in Markets :
    states[m] # None =>
      \A leg \in Legs : states[m].ready[leg] <=> states[m].ask[leg] # 0

\* The variables have their types, a leg without a price never passing for
\* ready among them.
TypeOK ==
  /\ states \in [Markets -> MarketStates \cup {None}]
  /\ token_map \in [Tokens -> Markets \cup {None}]
  /\ grace \in BOOLEAN
  /\ snapshot \subseteq Markets /\ listed \subseteq Markets /\ spoken \subseteq Markets
  /\ opp \in [market : Markets,
              opp : [ask : [Legs -> Nat], size : Nat]] \cup {None}
  /\ heard \in [Tokens -> [ask : Nat, size : Nat] \cup {None}]
  /\ ReadyMeansPriced

\* The two maps, each under its own lock, agree: a token is mapped exactly
\* while its market has a state, whatever was pruned and listed again
\* (analyzer mod.rs:72-106).
TokenMapCoherent ==
  \A token \in Tokens :
    token_map[token] = IF states[token[1]] = None THEN None ELSE token[1]

\* The book of a listed market is, per leg, the last ask and size heard since
\* it was listed: a refresh does not overwrite it, an update without a price
\* does not erase it, and nothing survives a pruning (analyzer mod.rs:85-112,
\* 134-146).
BookIsLastHeard ==
  \A token \in Tokens :
    heard[token] # None =>
      LET state == states[token[1]] IN
        /\ state # None
        /\ state.ask[token[2]]  = heard[token].ask
        /\ state.size[token[2]] = heard[token].size

\* An opportunity is only ever handed on for a market of the list last
\* loaded, though updates for pruned markets keep arriving (analyzer
\* mod.rs:72-80, 130).
OnlyListedTrade == [][opp' # None => opp'.market \in listed']_vars

\* Once the boot window is over, a market listed by REST alone is not traded:
\* the feed has spoken about it since it was listed (analyzer mod.rs:171).
NoColdTrade == [][opp' # None /\ ~ grace => opp'.market \in spoken']_vars

\* Refinement: whatever comes out is the opportunity of the book as the same
\* step left it, "eliminating the Unlock->RLock race window" (analyzer
\* mod.rs:9, 116-120).
Book ==
  INSTANCE PriceBook
  WITH book  <- [m \in Markets |-> IF states[m] = None THEN None ELSE Quote(states[m])],
       out   <- opp,
       Seeds <- {Quote(NewState(seed)) : seed \in Seeds},
       Heard <- [ask : Asks, size : Depths]

ImplementsBook == Book!Spec
=============================================================================

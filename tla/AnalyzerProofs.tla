----------------------------- MODULE AnalyzerProofs -----------------------------
(***************************************************************************)
(* The analyzer's invariants and its refinement of PriceBook, for every    *)
(* set of markets, prices and sizes and every configuration.               *)
(***************************************************************************)
EXTENDS Analyzer, PricingProofs

\* Exactly the listed markets have a state, and the snapshot loop is over them.
ListedHaveState ==
  /\ \A m \in Markets : states[m] # None <=> m \in listed
  /\ snapshot \subseteq listed

\* Only an update arms a market.
ArmedWasSpoken ==
  \A m \in Markets : states[m] # None /\ states[m].armed => m \in spoken

Inv == TypeOK /\ TokenMapCoherent /\ BookIsLastHeard /\ ListedHaveState /\ ArmedWasSpoken

Opps == [market : Markets, opp : [ask : [Legs -> Nat], size : Nat]]

-----------------------------------------------------------------------------
\* ---- What the operators return ----

\* The quote of a state and the opportunity of a quote have their types.
LEMMA QuoteType ==
  ASSUME NEW state \in MarketStates
  PROVE  Quote(state) \in Quotes
BY DEF MarketStates, Quote, Quotes

LEMMA OpportunityType ==
  ASSUME NEW q \in Quotes, IsOpportunity(q)
  PROVE  Opportunity(q) \in [ask : [Legs -> Nat], size : Nat]
<1>1. FinalSize(q) \in Nat
  BY SizeBounds
<1>2. \A leg \in Legs : Padded(q.ask[leg]) \in Nat
  BY PaddedBounds DEF Quotes
<1> QED
  BY <1>1, <1>2 DEF Opportunity

\* An analysis answers with nothing or with the market's own opportunity, and
\* with nothing for a market that is neither armed nor young.
LEMMA AnalyzedFacts ==
  ASSUME NEW m \in Markets, NEW state \in MarketStates
  PROVE  /\ Analyzed(m, state) \in Opps \cup {None}
         /\ Analyzed(m, state) # None =>
              /\ Analyzed(m, state).market = m
              /\ state.armed \/ grace
              /\ IsOpportunity(Quote(state))
              /\ Analyzed(m, state) = [market |-> m, opp |-> Opportunity(Quote(state))]
<1>1. CASE Eligible(state) /\ IsOpportunity(Quote(state))
  <2>1. Opportunity(Quote(state)) \in [ask : [Legs -> Nat], size : Nat]
    BY <1>1, QuoteType, OpportunityType
  <2> QED
    BY <1>1, <2>1 DEF Analyzed, Eligible, Opps
<1>2. CASE ~ (Eligible(state) /\ IsOpportunity(Quote(state)))
  BY <1>2 DEF Analyzed
<1> QED
  BY <1>1, <1>2

\* A market enters unarmed, ready on the legs REST gave a price for.
LEMMA NewStateType ==
  ASSUME NEW seed \in Seeds
  PROVE  /\ NewState(seed) \in MarketStates
         /\ ~ NewState(seed).armed
         /\ \A leg \in Legs : NewState(seed).ready[leg] <=> NewState(seed).ask[leg] # 0
<1>1. seed \in [Legs -> Nat]
  BY InputAssumption
<1>2. DEFAULT_SIZE \in Nat
  BY SMT DEF DEFAULT_SIZE, UNIT
<1> QED
  BY <1>1, <1>2 DEF NewState, MarketStates

\* A refresh replaces the metadata of a known market at most.
LEMMA MergedFacts ==
  ASSUME NEW seed \in Seeds, NEW state \in MarketStates
  PROVE  /\ Merged(None, seed) = NewState(seed)
         /\ Merged(state, seed) \in MarketStates
         /\ Merged(state, seed).ask = state.ask
         /\ Merged(state, seed).size = state.size
         /\ Merged(state, seed).ready = state.ready
         /\ Merged(state, seed).armed = state.armed
<1>1. state # None
  BY NoneAssumption
<1>2. Merged(None, seed) = NewState(seed)
  BY DEF Merged
<1>3. CASE state.armed
  BY <1>1, <1>2, <1>3 DEF Merged
<1>4. CASE ~ state.armed
  <2>1. Merged(state, seed) = [state EXCEPT !.market = seed]
    BY <1>1, <1>4 DEF Merged
  <2> QED
    BY <1>2, <2>1 DEF MarketStates
<1> QED
  BY <1>3, <1>4

\* A leg is ready exactly when it has a price.
Priced(state) == \A leg \in Legs : state.ready[leg] <=> state.ask[leg] # 0

\* new is the state with what was heard of one leg.
Heeds(new, state, leg, ask, size) ==
  /\ ask = 0 => new.ask = state.ask /\ new.size = state.size
  /\ ask # 0 => /\ new.ask  = [state.ask  EXCEPT ![leg] = ask]
                /\ new.size = [state.size EXCEPT ![leg] = size]

\* An update arms; without an ask it leaves the book, with one it replaces a leg.
LEMMA UpdatedFacts ==
  ASSUME NEW state \in MarketStates, NEW leg \in Legs, NEW ask \in Nat, NEW size \in Nat,
         Priced(state)
  PROVE  /\ Updated(state, leg, ask, size) \in MarketStates
         /\ Updated(state, leg, ask, size).armed
         /\ Priced(Updated(state, leg, ask, size))
         /\ Heeds(Updated(state, leg, ask, size), state, leg, ask, size)
<1>1. CASE ask = 0
  BY <1>1 DEF Updated, MarketStates, Priced, Heeds
<1>2. CASE ask # 0
  BY <1>2 DEF Updated, MarketStates, Priced, Heeds
<1> QED
  BY <1>1, <1>2

-----------------------------------------------------------------------------
\* ---- The invariant ----

\* The invariant holds at boot, with nothing listed.
LEMMA InitInv == Init => Inv
BY DEF Init, Inv, TypeOK, ReadyMeansPriced, TokenMapCoherent, BookIsLastHeard,
       ListedHaveState, ArmedWasSpoken, Tokens

\* Every action preserves the invariant.
LEMMA StepInv == Inv /\ [Next]_vars => Inv'
<1> SUFFICES ASSUME Inv, [Next]_vars PROVE Inv'
  OBVIOUS
<1> USE DEF Inv
<1>1. ASSUME NEW active \in SUBSET Markets, NEW seed \in [Markets -> Seeds],
             LoadMarkets(active, seed)
      PROVE  Inv'
  <2> DEFINE New(m) == Merged(states[m], seed[m])
  <2>1. states' = [m \in Markets |-> IF m \in active THEN New(m) ELSE None]
    BY <1>1 DEF LoadMarkets, Retained
  <2>2. ASSUME NEW m \in Markets
        PROVE  /\ New(m) \in MarketStates
               /\ \A leg \in Legs : New(m).ready[leg] <=> New(m).ask[leg] # 0
               /\ New(m).armed => states[m] # None /\ states[m].armed
               /\ states[m] # None => New(m).ask = states[m].ask /\ New(m).size = states[m].size
    <3>1. CASE states[m] = None
      BY <3>1, MergedFacts, NewStateType DEF Merged
    <3>2. CASE states[m] # None
      <4>1. states[m] \in MarketStates
        BY <3>2 DEF TypeOK
      <4> QED
        BY <3>2, <4>1, MergedFacts DEF TypeOK, ReadyMeansPriced
    <3> QED
      BY <3>1, <3>2
  <2>3. ASSUME NEW token \in Tokens
        PROVE  token_map'[token] = IF token[1] \in active THEN token[1] ELSE None
    <3>1. token_map'[token] = Mapped(token, active)
      BY <1>1 DEF LoadMarkets
    <3>2. CASE token[1] \in active /\ states[token[1]] # None
      BY <3>1, <3>2 DEF Mapped, Retained, TokenMapCoherent
    <3>3. CASE token[1] \in active /\ states[token[1]] = None
      BY <3>1, <3>3 DEF Mapped, Retained
    <3>4. CASE token[1] \notin active
      BY <3>1, <3>4 DEF Mapped, Retained
    <3> QED
      BY <3>2, <3>3, <3>4
  <2> HIDE DEF New
  <2>4. \A m \in Markets : states'[m] # None <=> m \in active
    BY <2>1, <2>2, NoneAssumption
  <2>5. TypeOK'
    <3>1. token_map' \in [Tokens -> Markets \cup {None}]
      <4>1. token_map' = [token \in Tokens |-> Mapped(token, active)]
        BY <1>1 DEF LoadMarkets
      <4>2. \A token \in Tokens : token_map'[token] \in Markets \cup {None}
        BY <2>3 DEF Tokens
      <4> QED
        BY <4>1, <4>2
    <3>2. heard' \in [Tokens -> [ask : Nat, size : Nat] \cup {None}]
      BY <1>1 DEF LoadMarkets, TypeOK
    <3>3. states' \in [Markets -> MarketStates \cup {None}]
      BY <2>1, <2>2
    <3>4. ReadyMeansPriced'
      BY <2>1, <2>2 DEF ReadyMeansPriced
    <3> QED
      BY <1>1, <3>1, <3>2, <3>3, <3>4 DEF TypeOK, LoadMarkets
  <2>6. TokenMapCoherent'
    BY <2>3, <2>4 DEF TokenMapCoherent, Tokens
  <2>7. BookIsLastHeard'
    <3> SUFFICES ASSUME NEW token \in Tokens, heard'[token] # None
                 PROVE  /\ states'[token[1]] # None
                        /\ states'[token[1]].ask[token[2]]  = heard'[token].ask
                        /\ states'[token[1]].size[token[2]] = heard'[token].size
      BY DEF BookIsLastHeard
    <3>1. token[1] \in active /\ heard'[token] = heard[token] /\ token[1] \in Markets
      BY <1>1 DEF LoadMarkets, Tokens
    <3>2. /\ states[token[1]] # None
          /\ states[token[1]].ask[token[2]]  = heard[token].ask
          /\ states[token[1]].size[token[2]] = heard[token].size
      BY <3>1 DEF BookIsLastHeard
    <3> QED
      BY <2>1, <2>2, <2>4, <3>1, <3>2
  <2>8. ListedHaveState'
    BY <1>1, <2>4 DEF ListedHaveState, LoadMarkets
  <2>9. ArmedWasSpoken'
    BY <1>1, <2>1, <2>2 DEF ArmedWasSpoken, LoadMarkets
  <2> QED
    BY <2>5, <2>6, <2>7, <2>8, <2>9
<1>2. ASSUME NEW m \in Markets, Analyze(m) PROVE Inv'
  <2>1. opp' \in Opps \cup {None}
    BY <1>2, AnalyzedFacts DEF Analyze, TypeOK
  <2> QED
    BY <1>2, <2>1 DEF Analyze, TypeOK, ReadyMeansPriced, TokenMapCoherent, BookIsLastHeard,
                      ListedHaveState, ArmedWasSpoken, Opps
<1>3. ASSUME NEW token \in Tokens, NEW ask \in Asks, NEW size \in Depths,
             UpdatePrice(token, ask, size)
      PROVE  Inv'
  <2> DEFINE m   == token[1]
             leg == token[2]
             new == Updated(states[m], leg, ask, size)
  <2>1. m \in Markets /\ leg \in Legs /\ ask \in Nat /\ size \in Nat
    BY InputAssumption DEF Tokens
  <2>2. token_map[token] = m /\ states[m] # None
    BY <1>3, <2>1 DEF UpdatePrice, Known, TokenMapCoherent
  <2>3. states[m] \in MarketStates /\ Priced(states[m])
    BY <2>1, <2>2 DEF TypeOK, ReadyMeansPriced, Priced
  <2>4. /\ new \in MarketStates /\ new.armed
        /\ Priced(new) /\ Heeds(new, states[m], leg, ask, size)
    BY <2>1, <2>3, UpdatedFacts
  <2>5. /\ states' = [states EXCEPT ![m] = new]
        /\ opp' = Analyzed(m, new)
        /\ spoken' = spoken \cup {m}
        /\ heard' = [heard EXCEPT ![token] = IF ask = 0 THEN @ ELSE [ask |-> ask, size |-> size]]
        /\ UNCHANGED <<token_map, grace, snapshot, listed>>
    BY <1>3, <2>2 DEF UpdatePrice, Judged
  <2>6. opp' \in Opps \cup {None}
    BY <2>1, <2>4, <2>5, AnalyzedFacts
  <2> HIDE DEF new
  <2>7. new # None
    BY <2>4, NoneAssumption
  <2>8. TypeOK'
    <3>1. states' \in [Markets -> MarketStates \cup {None}]
      BY <2>1, <2>4, <2>5 DEF TypeOK
    <3>2. ReadyMeansPriced'
      BY <2>1, <2>4, <2>5 DEF TypeOK, ReadyMeansPriced, Priced
    <3>3. heard' \in [Tokens -> [ask : Nat, size : Nat] \cup {None}]
      BY <2>1, <2>5 DEF TypeOK
    <3> QED
      BY <2>1, <2>5, <2>6, <3>1, <3>2, <3>3 DEF TypeOK, Opps
  <2>9. TokenMapCoherent'
    BY <2>1, <2>2, <2>5, <2>7 DEF TokenMapCoherent, TypeOK
  <2>10. BookIsLastHeard'
    <3> SUFFICES ASSUME NEW t \in Tokens, heard'[t] # None
                 PROVE  /\ states'[t[1]] # None
                        /\ states'[t[1]].ask[t[2]]  = heard'[t].ask
                        /\ states'[t[1]].size[t[2]] = heard'[t].size
      BY DEF BookIsLastHeard
    <3>1. t[1] \in Markets /\ t[2] \in Legs /\ (t[1] = m /\ t[2] = leg => t = token)
      BY DEF Tokens
    <3>2. CASE t # token \/ ask = 0
      <4>1. heard'[t] = heard[t]
        BY <2>5, <3>2 DEF TypeOK
      <4>2. /\ states[t[1]] # None
            /\ states[t[1]].ask[t[2]]  = heard[t].ask
            /\ states[t[1]].size[t[2]] = heard[t].size
        BY <4>1 DEF BookIsLastHeard
      <4>3. CASE t[1] # m
        BY <2>1, <2>5, <3>1, <4>1, <4>2, <4>3 DEF TypeOK
      <4>4. CASE t[1] = m
        <5>1. states'[t[1]] = new
          BY <2>1, <2>5, <4>4 DEF TypeOK
        <5>2. new.ask[t[2]] = states[m].ask[t[2]] /\ new.size[t[2]] = states[m].size[t[2]]
          <6>1. CASE ask = 0
            BY <2>4, <6>1 DEF Heeds
          <6>2. CASE ask # 0
            <7>1. t[2] # leg
              BY <3>1, <3>2, <4>4, <6>2
            <7> QED
              BY <2>3, <2>4, <3>1, <6>2, <7>1 DEF MarketStates, Heeds
          <6> QED
            BY <6>1, <6>2
        <5> QED
          BY <2>7, <4>1, <4>2, <4>4, <5>1, <5>2
      <4> QED
        BY <4>3, <4>4
    <3>3. CASE t = token /\ ask # 0
      <4>1. heard'[t] = [ask |-> ask, size |-> size]
        BY <2>5, <3>3 DEF TypeOK
      <4>2. states'[t[1]] = new
        BY <2>1, <2>5, <3>3 DEF TypeOK
      <4>3. new.ask[leg] = ask /\ new.size[leg] = size
        BY <2>1, <2>3, <2>4, <3>3 DEF MarketStates, Heeds
      <4> QED
        BY <2>7, <3>3, <4>1, <4>2, <4>3
    <3> QED
      BY <3>2, <3>3
  <2>11. ListedHaveState'
    BY <2>1, <2>2, <2>5, <2>7 DEF ListedHaveState, TypeOK
  <2>12. ArmedWasSpoken'
    BY <2>1, <2>5 DEF ArmedWasSpoken, TypeOK
  <2> QED
    BY <2>8, <2>9, <2>10, <2>11, <2>12
<1>4. ASSUME NEW token \in Tokens, IgnoreUpdate(token) PROVE Inv'
  BY <1>4 DEF IgnoreUpdate, TypeOK, ReadyMeansPriced, TokenMapCoherent, BookIsLastHeard,
              ListedHaveState, ArmedWasSpoken
<1>5. CASE GraceEnds
  BY <1>5 DEF GraceEnds, TypeOK, ReadyMeansPriced, TokenMapCoherent, BookIsLastHeard,
              ListedHaveState, ArmedWasSpoken
<1>6. CASE UNCHANGED vars
  BY <1>6 DEF vars, TypeOK, ReadyMeansPriced, TokenMapCoherent, BookIsLastHeard,
              ListedHaveState, ArmedWasSpoken
<1> QED
  BY <1>1, <1>2, <1>3, <1>4, <1>5, <1>6 DEF Next

\* The invariant holds throughout.
THEOREM Invariance == Spec => []Inv
BY InitInv, StepInv, PTL DEF Spec

\* The types, a leg being ready exactly when it has a price.
THEOREM AnalyzerTypes == Spec => []TypeOK
BY Invariance, PTL DEF Inv

\* The two maps agree.
THEOREM MapsAgree == Spec => []TokenMapCoherent
BY Invariance, PTL DEF Inv

\* The book is what was last heard since the market was listed.
THEOREM BookTrue == Spec => []BookIsLastHeard
BY Invariance, PTL DEF Inv

-----------------------------------------------------------------------------
\* ---- What a step hands on ----

\* An opportunity comes from a market that is listed and has a state after the
\* step; the market is armed or young, and the opportunity is that state's.
FromState(m) ==
  /\ m \in listed'
  /\ states'[m] \in MarketStates
  /\ states'[m].armed \/ grace
  /\ IsOpportunity(Quote(states'[m]))
  /\ opp' = [market |-> m, opp |-> Opportunity(Quote(states'[m]))]

\* A snapshot analysis hands on what the market's state holds at its turn.
LEMMA AnalyzeHandsOn ==
  ASSUME Inv, NEW m \in Markets, Analyze(m), opp' # None
  PROVE  FromState(m)
<1>1. states[m] # None /\ opp' = Analyzed(m, states[m])
  BY DEF Analyze
<1>2. states[m] \in MarketStates
  BY <1>1 DEF Inv, TypeOK
<1>3. m \in listed' /\ states' = states
  BY DEF Analyze, Inv, ListedHaveState
<1> QED
  BY <1>1, <1>2, <1>3, AnalyzedFacts DEF FromState

\* An update hands on what the state holds with the update applied.
LEMMA UpdateHandsOn ==
  ASSUME Inv, NEW token \in Tokens, NEW ask \in Asks, NEW size \in Depths,
         UpdatePrice(token, ask, size), opp' # None
  PROVE  FromState(token[1])
<1> DEFINE m   == token[1]
           new == Updated(states[m], token[2], ask, size)
<1>1. m \in Markets /\ token[2] \in Legs /\ ask \in Nat /\ size \in Nat
  BY InputAssumption DEF Tokens
<1>2. token_map[token] = m /\ states[m] # None
  BY <1>1 DEF UpdatePrice, Known, Inv, TokenMapCoherent
<1>3. states[m] \in MarketStates /\ Priced(states[m])
  BY <1>1, <1>2 DEF Inv, TypeOK, ReadyMeansPriced, Priced
<1>4. new \in MarketStates
  BY <1>1, <1>3, UpdatedFacts
<1>5. states' = [states EXCEPT ![m] = new] /\ opp' = Analyzed(m, new) /\ listed' = listed
  BY <1>2 DEF UpdatePrice, Judged
<1>6. states'[m] = new
  BY <1>1, <1>5 DEF Inv, TypeOK
<1>7. m \in listed
  BY <1>1, <1>2 DEF Inv, ListedHaveState
<1> HIDE DEF new
<1> QED
  BY <1>1, <1>4, <1>5, <1>6, <1>7, AnalyzedFacts DEF FromState

\* No other step hands anything on.
LEMMA HandedOn ==
  ASSUME Inv, [Next]_vars, vars' # vars, opp' # None
  PROVE  \E m \in Markets : FromState(m)
<1>1. ASSUME NEW active \in SUBSET Markets, NEW seed \in [Markets -> Seeds],
             LoadMarkets(active, seed)
      PROVE  FALSE
  BY <1>1 DEF LoadMarkets
<1>2. ASSUME NEW token \in Tokens, IgnoreUpdate(token) PROVE FALSE
  BY <1>2 DEF IgnoreUpdate
<1>3. CASE GraceEnds
  BY <1>3 DEF GraceEnds
<1>4. ASSUME NEW m \in Markets, Analyze(m) PROVE \E n \in Markets : FromState(n)
  BY <1>4, AnalyzeHandsOn
<1>5. ASSUME NEW token \in Tokens, NEW ask \in Asks, NEW size \in Depths,
             UpdatePrice(token, ask, size)
      PROVE  \E n \in Markets : FromState(n)
  BY <1>5, UpdateHandsOn DEF Tokens
<1> QED
  BY <1>1, <1>2, <1>3, <1>4, <1>5 DEF Next, vars

\* The market an opportunity names is the one it comes from.
LEMMA FromStateMarket ==
  ASSUME NEW m \in Markets, FromState(m)
  PROVE  opp'.market = m /\ states'[m] # None
BY NoneAssumption DEF FromState

\* An opportunity is handed on for a listed market only.
THEOREM ListedOnly == Spec => OnlyListedTrade
<1>1. Inv /\ [Next]_vars => [opp' # None => opp'.market \in listed']_vars
  <2> SUFFICES ASSUME Inv, [Next]_vars, vars' # vars, opp' # None
               PROVE  opp'.market \in listed'
    OBVIOUS
  <2>1. PICK m \in Markets : FromState(m)
    BY HandedOn
  <2> QED
    BY <2>1, FromStateMarket DEF FromState
<1> QED
  BY <1>1, Invariance, PTL DEF Spec, OnlyListedTrade

\* After the boot window only a market the feed has spoken about is handed on.
THEOREM ColdNever == Spec => NoColdTrade
<1>1. Inv /\ Inv' /\ [Next]_vars => [opp' # None /\ ~ grace => opp'.market \in spoken']_vars
  <2> SUFFICES ASSUME Inv, Inv', [Next]_vars, vars' # vars, opp' # None, ~ grace
               PROVE  opp'.market \in spoken'
    OBVIOUS
  <2>1. PICK m \in Markets : FromState(m)
    BY HandedOn
  <2> QED
    BY <2>1, FromStateMarket DEF FromState, Inv, ArmedWasSpoken
<1> QED
  BY <1>1, Invariance, PTL DEF Spec, NoColdTrade

-----------------------------------------------------------------------------
\* ---- The refinement of PriceBook ----

\* The abstract book computes with the same operators.
LEMMA SameOperators ==
  /\ \A q \in Quotes : Book!IsOpportunity(q) <=> IsOpportunity(q)
  /\ \A q \in Quotes : Book!Opportunity(q) = Opportunity(q)
  /\ Book!Legs = Legs
BY DEF Book!IsOpportunity, IsOpportunity, Book!Opportunity, Opportunity, Book!Legs, Legs,
       Book!AboveRedline, AboveRedline, Book!RawProfitable, RawProfitable,
       Book!FinalSize, FinalSize, Book!PaddedCombined, PaddedCombined, Book!Padded, Padded,
       Book!AvailableShares, AvailableShares, Book!Affordable, Affordable,
       Book!RawCombined, RawCombined, Book!Smaller, Smaller, Book!RoundedUp, RoundedUp,
       Book!UNIT, UNIT, Book!MIN_PRICE, MIN_PRICE

\* What the abstract variable book stands for.
Bk == [m \in Markets |-> IF states[m] = None THEN None ELSE Quote(states[m])]

\* The abstract entry of a market, before and after a step.
LEMMA BkEntry ==
  /\ \A m \in Markets :
       /\ states[m] = None => Bk[m] = None
       /\ states[m] # None => Bk[m] = Quote(states[m])
  /\ \A m \in Markets :
       /\ states'[m] = None => Bk'[m] = None
       /\ states'[m] # None => Bk'[m] = Quote(states'[m])
BY DEF Bk

\* A quote is never the absent entry.
LEMMA QuoteIsSome ==
  ASSUME NEW state \in MarketStates
  PROVE  Quote(state) # None
BY QuoteType, NoneAssumption

\* What a step hands on is an answer the abstract book allows.
LEMMA Answers ==
  ASSUME NEW m \in Markets, opp' = None \/ FromState(m)
  PROVE  Book!Answer(m)
<1>1. CASE opp' = None
  BY <1>1 DEF Book!Answer
<1>2. CASE FromState(m)
  <2>1. Bk'[m] = Quote(states'[m]) /\ Quote(states'[m]) \in Quotes
    BY <1>2, BkEntry, FromStateMarket, QuoteType DEF FromState
  <2>2. Book!IsOpportunity(Bk'[m]) /\ opp' = [market |-> m, opp |-> Book!Opportunity(Bk'[m])]
    BY <1>2, <2>1, SameOperators DEF FromState
  <2> QED
    BY <2>2 DEF Book!Answer, Bk
<1> QED
  BY <1>1, <1>2

\* Loading a list is listing.
LEMMA LoadIsList ==
  ASSUME Inv, NEW active \in SUBSET Markets, NEW seed \in [Markets -> Seeds],
         LoadMarkets(active, seed)
  PROVE  Book!List
<1> DEFINE quote == [m \in Markets |-> Quote(NewState(seed[m]))]
<1>1. quote \in [Markets -> {Quote(NewState(s)) : s \in Seeds}]
  OBVIOUS
<1>2. ASSUME NEW m \in Markets
      PROVE  Bk'[m] = IF m \notin active THEN None ELSE IF Bk[m] = None THEN quote[m] ELSE Bk[m]
  <2>1. states'[m] = IF m \in active THEN Merged(states[m], seed[m]) ELSE None
    BY <1>2 DEF LoadMarkets, Retained
  <2>2. CASE m \notin active
    BY <2>1, <2>2, BkEntry
  <2>3. CASE m \in active /\ states[m] = None
    <3>1. states'[m] = NewState(seed[m]) /\ NewState(seed[m]) \in MarketStates
      BY <2>1, <2>3, NewStateType DEF Merged
    <3> QED
      BY <2>3, <3>1, BkEntry, NoneAssumption
  <2>4. CASE m \in active /\ states[m] # None
    <3>1. states[m] \in MarketStates
      BY <2>4 DEF Inv, TypeOK
    <3>2. states'[m] \in MarketStates /\ Quote(states'[m]) = Quote(states[m])
      BY <2>1, <2>4, <3>1, MergedFacts DEF Quote
    <3> QED
      BY <2>4, <3>1, <3>2, BkEntry, QuoteIsSome, NoneAssumption
  <2> QED
    BY <2>2, <2>3, <2>4
<1>3. Bk' = [m \in Markets |-> IF m \notin active THEN None
                               ELSE IF Bk[m] = None THEN quote[m] ELSE Bk[m]]
  <2> HIDE DEF quote
  <2>1. Bk' = [m \in Markets |-> Bk'[m]]
    BY DEF Bk
  <2> QED
    BY <1>2, <2>1
<1>4. opp' = None
  BY DEF LoadMarkets
<1> HIDE DEF quote
<1> QED
  BY <1>1, <1>3, <1>4 DEF Book!List, Bk

\* An update with an ask is heard, one without is a judgement of the book as is.
LEMMA UpdateIsHeard ==
  ASSUME Inv, NEW token \in Tokens, NEW ask \in Asks, NEW size \in Depths,
         UpdatePrice(token, ask, size)
  PROVE  Book!Hear(token[1]) \/ Book!Judge(token[1])
<1> DEFINE m   == token[1]
           leg == token[2]
           new == Updated(states[m], leg, ask, size)
<1>1. m \in Markets /\ leg \in Legs /\ ask \in Nat /\ size \in Nat
  BY InputAssumption DEF Tokens
<1>2. token_map[token] = m /\ states[m] # None
  BY <1>1 DEF UpdatePrice, Known, Inv, TokenMapCoherent
<1>3. states[m] \in MarketStates /\ Priced(states[m])
  BY <1>1, <1>2 DEF Inv, TypeOK, ReadyMeansPriced, Priced
<1>4. new \in MarketStates /\ Heeds(new, states[m], leg, ask, size)
  BY <1>1, <1>3, UpdatedFacts
<1>5. states' = [states EXCEPT ![m] = new]
  BY <1>2 DEF UpdatePrice
<1>6. Bk[m] = Quote(states[m]) /\ Bk[m] # None
  BY <1>1, <1>2, <1>3, BkEntry, QuoteIsSome
<1>7. Book!Answer(m)
  BY <1>1, UpdateHandsOn, Answers
<1> HIDE DEF new
<1>8. Bk' = [Bk EXCEPT ![m] = Quote(new)]
  <2>1. ASSUME NEW n \in Markets
        PROVE  Bk'[n] = IF n = m THEN Quote(new) ELSE Bk[n]
    BY <1>1, <1>4, <1>5, BkEntry, NoneAssumption DEF Inv, TypeOK
  <2>2. Bk' = [n \in Markets |-> Bk'[n]] /\ Bk = [n \in Markets |-> Bk[n]]
    BY DEF Bk
  <2> QED
    BY <1>1, <2>1, <2>2
<1>9. CASE ask = 0
  <2>1. Bk' = Bk
    <3>1. Quote(new) = Bk[m]
      BY <1>4, <1>6, <1>9 DEF Quote, Heeds
    <3>2. Bk = [n \in Markets |-> Bk[n]]
      BY DEF Bk
    <3> QED
      BY <1>8, <3>1, <3>2
  <2> QED
    BY <1>6, <1>7, <2>1 DEF Book!Judge, Bk
<1>10. CASE ask # 0
  <2> DEFINE h == [ask |-> ask, size |-> size]
  <2>1. h \in [ask : Asks, size : Depths] /\ h.ask = ask /\ h.size = size
    OBVIOUS
  <2> HIDE DEF h
  <2>2. Quote(new) = Book!Replaced(Bk[m], leg, h)
    BY <1>4, <1>6, <1>10, <2>1 DEF Quote, Heeds, Book!Replaced
  <2>3. Bk' = [Bk EXCEPT ![m] = Book!Replaced(@, leg, h)]
    BY <1>8, <2>2
  <2>4. \E l \in Book!Legs, x \in [ask : Asks, size : Depths] :
          Bk' = [Bk EXCEPT ![m] = Book!Replaced(@, l, x)]
    BY <1>1, <2>1, <2>3, SameOperators
  <2> QED
    BY <1>6, <1>7, <2>4 DEF Book!Hear, Bk
<1> QED
  BY <1>9, <1>10

\* The book of the live states, answered by what they hold: the analyzer
\* implements PriceBook.
THEOREM BookRefinement == Spec => ImplementsBook
<1>1. Init => Book!Init
  BY DEF Init, Book!Init
<1>2. Inv /\ [Next]_vars => [Book!Next]_(Book!vars)
  <2> SUFFICES ASSUME Inv, [Next]_vars PROVE Book!Next \/ UNCHANGED Book!vars
    OBVIOUS
  <2>1. ASSUME NEW active \in SUBSET Markets, NEW seed \in [Markets -> Seeds],
               LoadMarkets(active, seed)
        PROVE  Book!Next
    BY <2>1, LoadIsList DEF Book!Next
  <2>2. ASSUME NEW m \in Markets, Analyze(m) PROVE Book!Next
    <3>1. UNCHANGED Bk
      BY <2>2 DEF Analyze, Bk
    <3>2. CASE states[m] = None
      BY <2>2, <3>1, <3>2 DEF Analyze, Book!Next, Book!Rest, Bk
    <3>3. CASE states[m] # None
      <4>1. Bk[m] # None
        BY <3>3, BkEntry, QuoteIsSome DEF Inv, TypeOK
      <4>2. Book!Answer(m)
        BY <2>2, AnalyzeHandsOn, Answers
      <4>3. Book!Judge(m)
        BY <3>1, <4>1, <4>2 DEF Book!Judge, Bk
      <4> QED
        BY <4>3 DEF Book!Next
    <3> QED
      BY <3>2, <3>3
  <2>3. ASSUME NEW token \in Tokens, NEW ask \in Asks, NEW size \in Depths,
               UpdatePrice(token, ask, size)
        PROVE  Book!Next
    <3>1. token[1] \in Markets
      BY DEF Tokens
    <3> QED
      BY <2>3, <3>1, UpdateIsHeard DEF Book!Next
  <2>4. ASSUME NEW token \in Tokens, IgnoreUpdate(token) PROVE Book!Next
    BY <2>4 DEF IgnoreUpdate, Book!Next, Book!Rest
  <2>5. CASE GraceEnds
    BY <2>5 DEF GraceEnds, Book!Next, Book!Rest
  <2>6. CASE UNCHANGED vars
    BY <2>6 DEF vars, Book!vars
  <2> QED
    BY <2>1, <2>2, <2>3, <2>4, <2>5, <2>6 DEF Next
<1> QED
  BY <1>1, <1>2, Invariance, PTL DEF Spec, ImplementsBook, Book!Spec
=============================================================================

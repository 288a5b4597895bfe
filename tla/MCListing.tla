------------------------------- MODULE MCListing -------------------------------
(* Lists of raw markets and environments for Listing. *)
EXTENDS Listing

Plain(id) ==
  [id |-> id, complete |-> TRUE, active |-> TRUE, prices |-> <<4500, 4600>>, group_end |-> None,
   end |-> 600, liquidity |-> 8000, crypto |-> FALSE]

\* Listed, and refused by every environment.
Broken(id) == [Plain(id) EXCEPT !.complete = FALSE]

\* Lists to page through: empty, one page exactly, two and a half, with gaps.
PagedLists ==
  {[i \in 1..n |-> IF i \in gaps THEN Broken(i) ELSE Plain(i)] :
     n \in {0, 2, 4, 5}, gaps \in {{}, {2, 3}}}

\* One market per shape of its fields.
Shapes ==
  [id : {1}, complete : {TRUE}, active : {TRUE}, crypto : BOOLEAN,
   prices : {<<4500, 4600>>, <<Unreadable, 4600>>, <<4500, Unreadable>>, <<0, -5>>,
             <<Unreadable, 4500, 4600>>},
   group_end : {None, Empty, 1499, 1500}, end : {600, 1500},
   liquidity : {Unreadable, 8000}]

SomeServers   == PagedLists \cup {<<raw>> : raw \in Shapes}
SomeNewcomers == {Plain(6)}

Set == [MIN_LIQUIDITY_USD |-> 5000, MAX_LIQUIDITY_USD |-> 9000, MAX_DAYS_UNTIL_RESOLUTION |-> 1,
        EXCLUDE_CRYPTO_MINUTES |-> TRUE]
Unset == [MIN_LIQUIDITY_USD |-> None, MAX_LIQUIDITY_USD |-> Unreadable,
          MAX_DAYS_UNTIL_RESOLUTION |-> None, EXCLUDE_CRYPTO_MINUTES |-> FALSE]
Odds  == [MIN_LIQUIDITY_USD |-> Unreadable, MAX_LIQUIDITY_USD |-> 0,
          MAX_DAYS_UNTIL_RESOLUTION |-> 0, EXCLUDE_CRYPTO_MINUTES |-> TRUE]

SomeEnvironments == {Set, Unset, Odds}
=============================================================================

--------------------------------- MODULE WsFeed ---------------------------------
(***************************************************************************)
(* How the market list becomes live subscriptions: do_refresh shards the   *)
(* list over the connections through watch channels (src/src/main.rs), and *)
(* each spawn_ws_listener task (src/src/api/websocket.rs) connects,        *)
(* subscribes to its shard, reconnects when the shard changes or the       *)
(* socket breaks.  The sends of one refresh, the listeners and the network *)
(* interleave.                                                             *)
(*                                                                         *)
(* A market stands for both of its token ids, which always travel together *)
(* (.take(500) cuts between markets), so an id list is a sequence of       *)
(* markets, compared in order as the code compares its Vec.  changed() and *)
(* the borrow() that follows it are one step: a list sent between the two  *)
(* only makes changed() fire once more, for a list already taken.          *)
(***************************************************************************)
EXTENDS Integers, Sequences, SequencesExt

CONSTANTS
  Markets,    \* market ids
  Lists,      \* market lists Gamma may answer with
  NUM_WS,     \* num_ws_connections
  CAPACITY,   \* markets one connection subscribes to (250)
  REFRESHES,  \* bound: lists fetched
  FAILURES    \* bound: connects that fail or hang, sockets that break

ASSUME SizeAssumption == NUM_WS \in Nat \ {0} /\ CAPACITY \in Nat \ {0}
ASSUME BoundAssumption == REFRESHES \in Nat /\ FAILURES \in Nat

\* A list may name a market twice: Listing says when.
ASSUME ListAssumption == \A list \in Lists : list \in Seq(Markets)

Conns == 1..NUM_WS

VARIABLES
  markets,      \* the list of the last refresh
  sending,      \* the connection do_refresh sends to next; NUM_WS + 1 when it is done
  watch,        \* value of each watch channel
  changed,      \* has the listener not yet seen that value?
  conn,         \* where each listener is
  current_ids,  \* the list each listener subscribes to
  link,         \* is the socket still working? (network)
  streamed,     \* markets the server pushes on the connection (server)
  refreshes, failures   \* counters of the bounds

orchestrator == <<markets, sending, refreshes>>
vars == <<orchestrator, watch, changed, conn, current_ids, link, streamed, failures>>

Init ==
  /\ markets = <<>> /\ sending = NUM_WS + 1 /\ refreshes = 0 /\ failures = 0
  /\ watch       = [i \in Conns |-> <<>>]
  /\ changed     = [i \in Conns |-> FALSE]
  /\ conn        = [i \in Conns |-> "connecting"]
  /\ current_ids = [i \in Conns |-> <<>>]
  /\ link        = [i \in Conns |-> FALSE]
  /\ streamed    = [i \in Conns |-> {}]

Refreshed == sending = NUM_WS + 1

-----------------------------------------------------------------------------
\* ---- do_refresh ----

\* A list was fetched; the sends follow.
Fetch(list) ==
  /\ Refreshed
  /\ refreshes < REFRESHES
  /\ markets' = list
  /\ sending' = 1
  /\ refreshes' = refreshes + 1
  /\ UNCHANGED <<watch, changed, conn, current_ids, link, streamed, failures>>

\* Mutated PerConnection: rounded down.
PerConnectionDown(count) == count \div NUM_WS

PerConnection(count) == (count + NUM_WS - 1) \div NUM_WS

\* Mutated Shard: the list is not cut to what one subscription may hold.
ShardUncut(list, i) ==
  LET per == PerConnection(Len(list))
  IN SubSeq(list, (i - 1) * per + 1, IF i * per < Len(list) THEN i * per ELSE Len(list))

\* Markets start+1 .. min(start + per, len), at most CAPACITY of them.
Shard(list, i) ==
  LET per   == PerConnection(Len(list))
      start == (i - 1) * per
      end   == IF start + per < Len(list) THEN start + per ELSE Len(list)
  IN SubSeq(list, start + 1, IF end - start > CAPACITY THEN start + CAPACITY ELSE end)

Start(list, i) == (i - 1) * PerConnection(Len(list))

SendShard ==
  /\ sending \in Conns
  /\ Start(markets, sending) < Len(markets)
  /\ watch'   = [watch   EXCEPT ![sending] = Shard(markets, sending)]
  /\ changed' = [changed EXCEPT ![sending] = TRUE]
  /\ sending' = sending + 1
  /\ UNCHANGED <<markets, refreshes, conn, current_ids, link, streamed, failures>>

\* "if start >= markets.len() { break; }": the rest of the channels keep
\* what they hold.
BreakOff ==
  /\ sending \in Conns
  /\ Start(markets, sending) >= Len(markets)
  /\ sending' = NUM_WS + 1
  /\ UNCHANGED <<markets, refreshes, watch, changed, conn, current_ids, link, streamed, failures>>

-----------------------------------------------------------------------------
\* ---- One listener ----

\* The listener leaves its inner loop, drops the socket and sleeps 1 s.
Reconnect(i) ==
  /\ conn' = [conn EXCEPT ![i] = "pausing"]
  /\ link' = [link EXCEPT ![i] = FALSE]
  /\ streamed' = [streamed EXCEPT ![i] = {}]

Connect(i) ==
  /\ conn[i] = "connecting"
  /\ conn' = [conn EXCEPT ![i] = "subscribing"]
  /\ link' = [link EXCEPT ![i] = TRUE]
  /\ UNCHANGED <<orchestrator, watch, changed, current_ids, streamed, failures>>

\* A failed connect sleeps 1 s as well.
ConnectFails(i) ==
  /\ conn[i] = "connecting"
  /\ failures < FAILURES
  /\ failures' = failures + 1
  /\ conn' = [conn EXCEPT ![i] = "pausing"]
  /\ UNCHANGED <<orchestrator, watch, changed, current_ids, link, streamed>>

\* An empty shard sends nothing; the result of the send is not looked at.
Subscribe(i) ==
  /\ conn[i] = "subscribing"
  /\ conn' = [conn EXCEPT ![i] = "up"]
  /\ streamed' = [streamed EXCEPT ![i] = IF link[i] THEN ToSet(current_ids[i]) ELSE {}]
  /\ UNCHANGED <<orchestrator, watch, changed, current_ids, link, failures>>

\* Mutated Adopted: the comparison is made, the assignment forgotten.
AdoptedNot(i) == current_ids[i]

Adopted(i) == watch[i]

Differs(i) == watch[i] # current_ids[i]

\* sub_rx.changed() with a list it does not have yet.
Resubscribe(i) ==
  /\ conn[i] = "up" /\ changed[i]
  /\ Differs(i)
  /\ changed' = [changed EXCEPT ![i] = FALSE]
  /\ current_ids' = [current_ids EXCEPT ![i] = Adopted(i)]
  /\ Reconnect(i)
  /\ UNCHANGED <<orchestrator, watch, failures>>

\* sub_rx.changed() with the list it has: the socket stays.
SameShard(i) ==
  /\ conn[i] = "up" /\ changed[i]
  /\ ~ Differs(i)
  /\ changed' = [changed EXCEPT ![i] = FALSE]
  /\ UNCHANGED <<orchestrator, watch, conn, current_ids, link, streamed, failures>>

\* A read error, the end of the stream, or a ping that cannot be sent.
NoticeBreak(i) ==
  /\ conn[i] = "up" /\ ~ link[i]
  /\ Reconnect(i)
  /\ UNCHANGED <<orchestrator, watch, changed, current_ids, failures>>

Pause(i) ==
  /\ conn[i] = "pausing"
  /\ conn' = [conn EXCEPT ![i] = "connecting"]
  /\ UNCHANGED <<orchestrator, watch, changed, current_ids, link, streamed, failures>>

-----------------------------------------------------------------------------
\* ---- The network (external) ----

\* The other side never answers the handshake.  connect_async has no timeout,
\* so no step of the listener leads out of this.
HandshakeHangs(i) ==
  /\ conn[i] = "connecting"
  /\ failures < FAILURES
  /\ failures' = failures + 1
  /\ conn' = [conn EXCEPT ![i] = "hung"]
  /\ UNCHANGED <<orchestrator, watch, changed, current_ids, link, streamed>>

\* The socket fails or falls silent.
BreakLink(i) ==
  /\ link[i]
  /\ failures < FAILURES
  /\ failures' = failures + 1
  /\ link' = [link EXCEPT ![i] = FALSE]
  /\ streamed' = [streamed EXCEPT ![i] = {}]
  /\ UNCHANGED <<orchestrator, watch, changed, conn, current_ids>>

\* What a listener does by itself, and what it does when the socket reports
\* an error.
Proceed(i) == Connect(i) \/ Subscribe(i) \/ Resubscribe(i) \/ SameShard(i) \/ Pause(i)

Listener(i) == Proceed(i) \/ NoticeBreak(i)

Next ==
  \/ \E list \in Lists : Fetch(list)
  \/ SendShard \/ BreakOff
  \/ \E i \in Conns : Listener(i) \/ ConnectFails(i) \/ HandshakeHangs(i) \/ BreakLink(i)

Spec == Init /\ [][Next]_vars

\* The tasks are polled, sleeps end, and a handshake that is answered ends.
\* select! polls its branches in random order, so a pending change is not
\* starved by messages.  Nothing makes NoticeBreak happen: no pong is waited
\* for, so a silent socket may stay up for ever.
Fairness == WF_vars(SendShard \/ BreakOff) /\ \A i \in Conns : WF_vars(Proceed(i))
FairSpec == Spec /\ Fairness

-----------------------------------------------------------------------------
\* ---- Properties ----

\* The variables have their types; a shard never exceeds what a connection may
\* subscribe to (main.rs:231-235).
TypeOK ==
  /\ markets \in Lists \cup {<<>>} /\ sending \in 1..NUM_WS + 1
  /\ {watch, current_ids} \subseteq [Conns -> Seq(Markets)]
  /\ {changed, link} \subseteq [Conns -> BOOLEAN]
  /\ conn \in [Conns -> {"connecting", "subscribing", "up", "pausing", "hung"}]
  /\ streamed \in [Conns -> SUBSET Markets]
  /\ \A i \in Conns : Len(watch[i]) <= CAPACITY /\ streamed[i] \subseteq ToSet(current_ids[i])
  /\ refreshes \in 0..REFRESHES /\ failures \in 0..FAILURES

\* Sharding loses no market: after a refresh whose list the connections can
\* carry, every market of it is in some shard (main.rs:224-237: rounding up,
\* the last short shard, the early break).
EveryMarketSharded ==
  Refreshed /\ Len(markets) <= NUM_WS * CAPACITY =>
    ToSet(markets) \subseteq UNION {ToSet(watch[i]) : i \in Conns}

\* The listener has a working socket and no list it has not seen: it waits for
\* messages and will do nothing else.
Quiet(i) == conn[i] = "up" /\ link[i] /\ ~ changed[i]

\* No wakeup is lost: a listener that waits streams what its channel holds,
\* though lists arrive while it connects, subscribes, sleeps or takes an
\* earlier one (websocket.rs:60-132).
NoLostWakeup == \A i \in Conns : Quiet(i) => streamed[i] = ToSet(watch[i])

\* When every listener waits and no send is due, every market of the list is
\* streamed, if the connections can carry it (main.rs:224-237, websocket.rs:
\* 76-106).
QuietIsStreamed ==
  Refreshed /\ Len(markets) <= NUM_WS * CAPACITY /\ (\A i \in Conns : Quiet(i))
    => ToSet(markets) \subseteq UNION {streamed[i] : i \in Conns}

\* The last list has a shard for the connection, and the listener took it.
Served(i) == Start(markets, i) < Len(markets) /\ conn[i] = "up" /\ ~ changed[i]

\* A connection the list reaches streams nothing but its own shard of it, so
\* what NoZombieSubscription forbids only happens beyond the end of the list
\* (main.rs:230, websocket.rs:99-106).
StreamsOwnShard ==
  Refreshed => \A i \in Conns : Served(i) => streamed[i] \subseteq ToSet(Shard(markets, i))

\* No market of a list without repetitions comes over two of these connections:
\* shards do not overlap, and an old one is given up before the new one is
\* subscribed to (main.rs:226-235, websocket.rs:103-106).
StreamedOnce ==
  Refreshed /\ IsInjective(markets) =>
    \A i, j \in Conns : Served(i) /\ Served(j) /\ i # j => streamed[i] \cap streamed[j] = {}

\* A refresh that finds the same shard does not interrupt the feed: a working
\* connection is only given up for a list that differs from the one it is
\* streaming (websocket.rs:99-106).
SteadyFeed ==
  [][\A i \in Conns :
       conn[i] = "up" /\ link[i] /\ conn'[i] # "up" => current_ids'[i] # current_ids[i]]_vars

\* A listener nothing brings back by itself: its handshake is never answered,
\* or its socket fell silent.
Stuck(i) == conn[i] = "hung" \/ (conn[i] = "up" /\ ~ link[i])

\* The listener has the list last sent to it, and streams it.
Settled(i) == conn[i] = "up" /\ current_ids[i] = watch[i] /\ streamed[i] = ToSet(watch[i])

\* However lists, reconnects and failures interleave, each connection ends up
\* streaming the list last sent to it, but for those that are stuck, and of
\* these one with a silent socket still takes the list: no wakeup is lost
\* between connecting, subscribing and sleeping (websocket.rs:60-132).
FeedConverges ==
  <>[](\A i \in Conns :
         Settled(i) \/ (Stuck(i) /\ (conn[i] = "up" => current_ids[i] = watch[i])))

\* End to end: the markets of the last list end up streamed, but for those
\* whose shard a stuck listener has: one stuck connection costs its own shard
\* and no other (main.rs:224-237, websocket.rs:60-132).
ListedIsStreamed ==
  <>[](Len(markets) <= NUM_WS * CAPACITY =>
         ToSet(markets) \subseteq
           UNION {IF Stuck(i) THEN ToSet(watch[i]) ELSE streamed[i] : i \in Conns})

\* ---- A property the code does not have ----

\* "reconnects when the list changes, clearing stale zombie subscriptions"
\* (websocket.rs:50-51): once a refresh is through and a connection has taken
\* its list, it streams markets of the current list only.
NoZombieSubscription ==
  \A i \in Conns :
    Refreshed /\ conn[i] = "up" /\ ~ changed[i] => streamed[i] \subseteq ToSet(markets)
=============================================================================

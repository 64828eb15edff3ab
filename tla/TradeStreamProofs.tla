--------------------------- MODULE TradeStreamProofs ---------------------------
(***************************************************************************)
(* Proofs about TradeStream: whatever the user, the network and the other  *)
(* writers do, the streams that are open are those of the tab on display   *)
(* and have one filter; the lists are in order and within their limits;    *)
(* and a stream that has caught up shows what the backend would answer.    *)
(***************************************************************************)
EXTENDS TradeStream, OrderingProofs

Closed(k) == sources[k].phase = "closed"

\* A stream is closed or has a filter; the tab is one of the dashboard.
StreamInv ==
  /\ tab \in Tabs
  /\ DOMAIN sources = Kinds
  /\ \A k \in Kinds : /\ "phase" \in DOMAIN sources[k]
                      /\ Closed(k) => sources[k] = NoSource
  /\ StreamsFollowTab

-----------------------------------------------------------------------------
(* What a step may do to the streams.                                      *)

LEMMA ClosedIsNone ==
  ASSUME StreamInv, NEW k \in Kinds
  PROVE  Closed(k) <=> sources[k] = NoSource
BY DEF StreamInv, Closed, NoSource

\* Open streams stay open with their filter, closed ones stay closed.
LEMMA SameStreams ==
  ASSUME StreamInv, UNCHANGED tab, DOMAIN sources' = Kinds,
         \A k \in Kinds :
           \/ sources'[k] = sources[k]
           \/ /\ ~Closed(k) /\ ~Closed(k)'
              /\ "phase" \in DOMAIN sources'[k]
              /\ sources'[k].mode = sources[k].mode
  PROVE  StreamInv'
<1>1. \A k \in Kinds : /\ "phase" \in DOMAIN sources'[k]
                       /\ Closed(k)' => sources'[k] = NoSource
  BY DEF StreamInv, Closed
<1>2. \A k \in Kinds : (sources'[k] # NoSource) <=> (sources[k] # NoSource)
  BY DEF StreamInv, Closed, NoSource
<1>3. \A k \in Kinds : sources[k] # NoSource => sources'[k].mode = sources[k].mode
  OBVIOUS
<1>4. {k \in Kinds : sources'[k] # NoSource} = {k \in Kinds : sources[k] # NoSource}
  BY <1>2
<1>5. StreamsFollowTab'
  BY <1>3, <1>4 DEF StreamInv, StreamsFollowTab
<1> QED BY <1>1, <1>5 DEF StreamInv

\* One stream changes and stays open.
LEMMA OneStream ==
  ASSUME StreamInv, UNCHANGED tab, NEW k \in Kinds, ~Closed(k),
         DOMAIN sources' = DOMAIN sources,
         \A l \in Kinds : l # k => sources'[l] = sources[l],
         "phase" \in DOMAIN sources'[k], sources'[k].phase # "closed",
         sources'[k].mode = sources[k].mode
  PROVE  StreamInv'
<1>1. DOMAIN sources' = Kinds
  BY DEF StreamInv
<1> QED BY <1>1, SameStreams DEF Closed

\* The streams of a tab are opened in place of all others.
LEMMA Restart ==
  ASSUME NEW t \in Tabs, NEW mode,
         tab' = t, sources' = startTradeStream(t, mode)
  PROVE  StreamInv'
<1>1. Streams(t) \subseteq Kinds
  BY DEF Kinds
<1>2. /\ DOMAIN sources' = Kinds
      /\ \A k \in Kinds : sources'[k] = IF k \in Streams(t) THEN NewSource(mode)
                                                             ELSE NoSource
  BY DEF startTradeStream
<1>3. /\ "phase" \in DOMAIN NewSource(mode) /\ NewSource(mode).phase = "connecting"
      /\ "phase" \in DOMAIN NoSource /\ NoSource.phase = "closed"
  BY DEF NewSource, NoSource
<1>4. \A k \in Kinds : /\ "phase" \in DOMAIN sources'[k]
                       /\ Closed(k)' => sources'[k] = NoSource
  BY <1>2, <1>3 DEF Closed
<1>5. {k \in Kinds : sources'[k] # NoSource} = Streams(t)
  BY <1>1, <1>2, <1>3
<1>6. StreamsFollowTab'
  BY <1>2, <1>5 DEF StreamsFollowTab
<1> QED BY <1>2, <1>4, <1>6 DEF StreamInv

\* An answer replaces the lists of streams that stay open.
LEMMA AnswerKeeps ==
  ASSUME StreamInv, UNCHANGED tab, NEW kinds, sources' = Overwritten(kinds),
         \A k \in kinds : k \in Kinds => sources[k].phase = "live"
  PROVE  StreamInv'
<1>1. DOMAIN sources' = Kinds
  BY DEF Overwritten
<1>2. ASSUME NEW k \in Kinds
      PROVE  \/ sources'[k] = sources[k]
             \/ /\ ~Closed(k) /\ ~Closed(k)'
                /\ "phase" \in DOMAIN sources'[k]
                /\ sources'[k].mode = sources[k].mode
  <2>1. CASE k \in kinds
    <3>1. sources'[k] = [sources[k] EXCEPT !.stale = TRUE] /\ sources[k].phase = "live"
      BY <2>1 DEF Overwritten
    <3>2. "phase" \in DOMAIN sources'[k] /\ sources'[k].phase = "live"
      BY <3>1 DEF StreamInv
    <3>3. sources'[k].mode = sources[k].mode
      BY <3>1
    <3> QED BY <3>1, <3>2, <3>3 DEF Closed
  <2>2. CASE k \notin kinds
    BY <2>2 DEF Overwritten
  <2> QED BY <2>1, <2>2
<1> QED BY <1>1, <1>2, SameStreams

LEMMA NoStream ==
  ASSUME StreamInv, UNCHANGED <<tab, sources>>
  PROVE  StreamInv'
BY DEF StreamInv, StreamsFollowTab, Closed

-----------------------------------------------------------------------------
(* The backend and the network.                                            *)

LEMMA PublishKeeps ==
  ASSUME StreamInv, NEW p \in pubs, Publish(p)
  PROVE  StreamInv'
<1>1. UNCHANGED tab /\ DOMAIN sources' = DOMAIN sources
      /\ \A l \in Kinds : l # p.kind => sources'[l] = sources[l]
  BY DEF Publish, StreamInv
<1>2. CASE Subscribed(p.kind) /\ p.kind \in Kinds
  <2>1. PICK value : \/ sources' = [sources EXCEPT ![p.kind].queue = value]
                     \/ sources' = [sources EXCEPT ![p.kind].missed = value]
    BY <1>2 DEF Publish
  <2>2. \/ sources'[p.kind] = [sources[p.kind] EXCEPT !.queue = value]
        \/ sources'[p.kind] = [sources[p.kind] EXCEPT !.missed = value]
    BY <1>2, <2>1 DEF StreamInv
  <2>3. /\ "phase" \in DOMAIN sources'[p.kind]
        /\ sources'[p.kind].phase = sources[p.kind].phase
        /\ sources'[p.kind].mode = sources[p.kind].mode
    <3>1. "phase" \in DOMAIN sources[p.kind]
      BY <1>2 DEF StreamInv
    <3>2. CASE sources'[p.kind] = [sources[p.kind] EXCEPT !.queue = value]
      BY <3>1, <3>2
    <3>3. CASE sources'[p.kind] = [sources[p.kind] EXCEPT !.missed = value]
      BY <3>1, <3>3
    <3> QED BY <2>2, <3>2, <3>3
  <2>4. sources[p.kind].phase # "closed" /\ ~Closed(p.kind)
    BY <1>2 DEF Subscribed, Closed
  <2> QED BY <1>1, <1>2, <2>3, <2>4, OneStream
<1>3. CASE ~Subscribed(p.kind) \/ p.kind \notin Kinds
  <2>1. DOMAIN sources' = Kinds /\ \A l \in Kinds : sources'[l] = sources[l]
    BY <1>1, <1>3 DEF Publish, StreamInv
  <2> QED BY <1>1, <2>1, SameStreams
<1> QED BY <1>2, <1>3

\* A stream that is not closed moves from phase to phase.
LEMMA StreamMoves ==
  ASSUME StreamInv, NEW k \in Kinds,
         Subscribe(k) \/ Snapshot(k) \/ Receive(k) \/ Disconnect(k) \/ Refuse(k)
  PROVE  StreamInv'
<1>1. UNCHANGED tab /\ ~Closed(k)
  BY DEF Subscribe, Snapshot, Receive, Disconnect, Refuse, Subscribed, Closed
<1>2. "phase" \in DOMAIN sources[k] /\ DOMAIN sources = Kinds
  BY DEF StreamInv
<1>3. CASE Subscribe(k)
  <2>1. sources' = [sources EXCEPT ![k].phase = "open", ![k].from = Now]
    BY <1>3 DEF Subscribe
  <2>2. DOMAIN sources' = DOMAIN sources
        /\ \A l \in Kinds : l # k => sources'[l] = sources[l]
    BY <1>2, <2>1
  <2>3. sources'[k] = [[sources[k] EXCEPT !.phase = "open"] EXCEPT !.from = Now]
    BY <1>2, <2>1
  <2>4. "phase" \in DOMAIN sources'[k] /\ sources'[k].phase = "open"
        /\ sources'[k].mode = sources[k].mode
    BY <1>2, <2>3
  <2> QED BY <1>1, <2>2, <2>4, OneStream
<1>4. CASE Snapshot(k)
  <2>1. PICK v : sources' = [sources EXCEPT ![k].phase = "live", ![k].seen = v,
                                            ![k].stale = FALSE]
    BY <1>4 DEF Snapshot
  <2>2. DOMAIN sources' = DOMAIN sources
        /\ \A l \in Kinds : l # k => sources'[l] = sources[l]
    BY <1>2, <2>1
  <2>3. sources'[k] = [[[sources[k] EXCEPT !.phase = "live"] EXCEPT !.seen = v]
                         EXCEPT !.stale = FALSE]
    BY <1>2, <2>1
  <2>4. "phase" \in DOMAIN sources'[k] /\ sources'[k].phase = "live"
        /\ sources'[k].mode = sources[k].mode
    BY <1>2, <2>3
  <2> QED BY <1>1, <2>2, <2>4, OneStream
<1>5. CASE Receive(k)
  <2>1. PICK queue, seen :
          sources' = [sources EXCEPT ![k].queue = queue, ![k].seen = seen]
    BY <1>5 DEF Receive
  <2>2. DOMAIN sources' = DOMAIN sources
        /\ \A l \in Kinds : l # k => sources'[l] = sources[l]
    BY <1>2, <2>1
  <2>3. sources'[k] = [[sources[k] EXCEPT !.queue = queue] EXCEPT !.seen = seen]
    BY <1>2, <2>1
  <2>4. "phase" \in DOMAIN sources'[k] /\ sources'[k].phase = sources[k].phase
        /\ sources'[k].mode = sources[k].mode
    BY <1>2, <2>3
  <2> QED BY <1>1, <2>2, <2>4, OneStream DEF Closed
<1>6. CASE Disconnect(k)
  <2>1. sources' = [sources EXCEPT ![k] = NewSource(sources[k].mode)]
    BY <1>6 DEF Disconnect
  <2>2. DOMAIN sources' = DOMAIN sources
        /\ \A l \in Kinds : l # k => sources'[l] = sources[l]
    BY <1>2, <2>1
  <2>3. sources'[k] = NewSource(sources[k].mode)
    BY <1>2, <2>1
  <2>4. "phase" \in DOMAIN sources'[k] /\ sources'[k].phase = "connecting"
        /\ sources'[k].mode = sources[k].mode
    BY <2>3 DEF NewSource
  <2> QED BY <1>1, <2>2, <2>4, OneStream
<1>7. CASE Refuse(k)
  <2>1. sources' = [sources EXCEPT ![k] =
                      [NewSource(sources[k].mode) EXCEPT !.phase = "dead"]]
    BY <1>7 DEF Refuse
  <2>2. DOMAIN sources' = DOMAIN sources
        /\ \A l \in Kinds : l # k => sources'[l] = sources[l]
    BY <1>2, <2>1
  <2>3. sources'[k] = [NewSource(sources[k].mode) EXCEPT !.phase = "dead"]
    BY <1>2, <2>1
  <2>4. "phase" \in DOMAIN sources'[k] /\ sources'[k].phase = "dead"
        /\ sources'[k].mode = sources[k].mode
    BY <2>3 DEF NewSource
  <2> QED BY <1>1, <2>2, <2>4, OneStream
<1> QED BY <1>3, <1>4, <1>5, <1>6, <1>7

-----------------------------------------------------------------------------
(* The page.                                                               *)

LEMMA LoadKeeps ==
  ASSUME StreamInv, NEW s \in Slots, LoadAnswered(s)
  PROVE  StreamInv'
<1>1. UNCHANGED tab /\ tab \in Tabs
  BY DEF LoadAnswered, StreamInv
<1>2. PICK v : sources' = IF requests[s].op = "load"
                          THEN startTradeStream(tab, requests[s].mode)
                          ELSE Overwritten({k \in Kinds : Unfit(k, v[k], requests[s].mode)})
  BY DEF LoadAnswered
<1>3. CASE requests[s].op = "load"
  BY <1>1, <1>2, <1>3, Restart
<1>4. CASE requests[s].op # "load"
  BY <1>1, <1>2, <1>4, AnswerKeeps DEF Unfit
<1> QED BY <1>3, <1>4

\* Adding a candidate opens its tab.
LEMMA AddKeeps ==
  ASSUME StreamInv, NEW s \in Slots, AddAnswered(s)
  PROVE  StreamInv'
<1>1. CASE tab # "candidates"
  <2>1. tab' = "candidates" /\ sources' = startTradeStream("candidates", filter)
    BY <1>1 DEF AddAnswered
  <2> QED BY <2>1, Restart, TradeStreamAssumption
<1>2. CASE tab = "candidates"
  <2>1. /\ UNCHANGED tab
        /\ \E v : sources' = Overwritten({k \in {"candidates"} : Unfit(k, v, filter)})
    BY <1>2 DEF AddAnswered
  <2> QED BY <2>1, AnswerKeeps DEF Unfit
<1> QED BY <1>1, <1>2

LEMMA RequestKeeps ==
  ASSUME StreamInv, NEW s \in InFlight,
         \/ LoadAnswered(s) \/ ActAnswered(s) \/ AddAnswered(s)
         \/ RemoveAnswered(s) \/ RequestFailed(s)
  PROVE  StreamInv'
<1>1. s \in Slots
  BY DEF InFlight
<1>2. CASE LoadAnswered(s)
  BY <1>1, <1>2, LoadKeeps
<1>3. CASE AddAnswered(s)
  BY <1>1, <1>3, AddKeeps
<1>4. CASE RemoveAnswered(s)
  <2>1. /\ UNCHANGED tab
        /\ \E v : sources' = Overwritten({k \in {"candidates"} : Unfit(k, v, filter)})
    BY <1>4 DEF RemoveAnswered
  <2> QED BY <2>1, AnswerKeeps DEF Unfit
<1>5. CASE ActAnswered(s) \/ RequestFailed(s)
  BY <1>5, NoStream DEF ActAnswered, RequestFailed
<1> QED BY <1>2, <1>3, <1>4, <1>5

LEMMA UserKeeps ==
  ASSUME StreamInv, User
  PROVE  StreamInv'
<1>1. CASE \E t \in Tabs : ChangeTab(t)
  <2>1. PICK t \in Tabs : tab' = t /\ sources' = startTradeStream(t, filter)
    BY <1>1 DEF ChangeTab
  <2> QED BY <2>1, Restart
<1>2. CASE \E mode \in Filters : ChangeFilter(mode)
  BY <1>2, NoStream DEF ChangeFilter
<1>3. CASE \E after \in {"refresh", "mode"} : refreshTradeDashboard(after)
  BY <1>3, NoStream DEF refreshTradeDashboard
<1>4. CASE Act
  BY <1>4, NoStream DEF Act
<1>5. CASE \E op \in {"add", "remove"}, id \in Ids : ChangePool(op, id)
  BY <1>5, NoStream DEF ChangePool
<1> QED BY <1>1, <1>2, <1>3, <1>4, <1>5 DEF User

LEMMA BackendKeeps ==
  ASSUME StreamInv, Backend
  PROVE  StreamInv'
<1>1. CASE Write
  BY <1>1, NoStream DEF Write
<1>2. CASE \E s \in InFlight : Execute(s)
  BY <1>2, NoStream DEF Execute
<1>3. CASE \E p \in pubs : Publish(p)
  BY <1>3, PublishKeeps
<1> QED BY <1>1, <1>2, <1>3 DEF Backend

-----------------------------------------------------------------------------
LEMMA StreamInit ==
  ASSUME Init
  PROVE  StreamInv
<1>1. tab \in Tabs /\ sources = [k \in Kinds |-> NoSource]
  BY DEF Init
<1>2. "phase" \in DOMAIN NoSource
  BY DEF NoSource
<1>3. {k \in Kinds : sources[k] # NoSource} = {}
  BY <1>1
<1> QED BY <1>1, <1>2, <1>3 DEF StreamInv, StreamsFollowTab

LEMMA StreamStep ==
  ASSUME StreamInv, [Next]_vars
  PROVE  StreamInv'
<1>1. CASE Backend
  BY <1>1, BackendKeeps
<1>2. CASE Network
  BY <1>2, StreamMoves, RequestKeeps DEF Network
<1>3. CASE User
  BY <1>3, UserKeeps
<1>4. CASE UNCHANGED vars
  BY <1>4, NoStream DEF vars
<1> QED BY <1>1, <1>2, <1>3, <1>4 DEF Next

\* The streams that are open are those of the tab on display and share one
\* filter (startTradeStream, openTradeStream, refreshTradeDashboard and the
\* watch on tradeTab), for any rows, writes, requests and faults.
THEOREM StreamsAlwaysFollowTab == Spec => []StreamsFollowTab
<1>1. Init => StreamInv
  BY StreamInit
<1>2. StreamInv /\ [Next]_vars => StreamInv'
  BY StreamStep
<1>3. StreamInv => StreamsFollowTab
  BY DEF StreamInv
<1> QED BY <1>1, <1>2, <1>3, PTL DEF Spec

-----------------------------------------------------------------------------
(* Types, for the rest.  The lists and queues are sequences here.          *)

Tables == [Kinds -> SUBSET Rows]

OpenSources(k) ==
  [phase : {"connecting", "open", "live", "dead"}, mode : Filters,
   from : 0..MaxWrites, seen : 0..MaxWrites,
   queue : {q \in Seq(Event(k)) : Len(q) <= QueueSize},
   missed : BOOLEAN, stale : BOOLEAN]

Typed ==
  /\ history \in Seq(Tables) /\ Len(history) \in 1..(MaxWrites + 1)
  /\ \A k \in Kinds : \A v \in 0..Now : IsFiniteSet(Table(k, v))
  /\ \A p \in pubs : p.kind \in Kinds /\ p \in Event(p.kind)
  /\ tab \in Tabs /\ filter \in Filters
  /\ lists \in [Kinds -> Seq(Rows)]
  /\ DOMAIN sources = Kinds /\ \A k \in Kinds : sources[k] \in {NoSource} \cup OpenSources(k)
  /\ requests \in [Slots -> Request \cup {NoRequest}]
  /\ loading \in BOOLEAN

LEMMA SourceFields ==
  ASSUME NEW k, NEW src \in {NoSource} \cup OpenSources(k), src.phase # "closed"
  PROVE  /\ src \in OpenSources(k)
         /\ src.phase \in {"connecting", "open", "live", "dead"} /\ src.mode \in Filters
         /\ src.from \in 0..MaxWrites /\ src.seen \in 0..MaxWrites
         /\ src.queue \in Seq(Event(k)) /\ Len(src.queue) <= QueueSize
         /\ src.missed \in BOOLEAN /\ src.stale \in BOOLEAN
BY DEF OpenSources, NoSource

LEMMA Numbers ==
  /\ MaxWrites \in Nat /\ Limit \in Nat /\ Limit > 0 /\ QueueSize \in Nat /\ QueueSize > 0
  /\ \A id \in Ids : id \in Nat
BY TradeStreamAssumption

LEMMA Constants ==
  /\ AnyId \in Ids /\ "candidates" \in Kinds /\ "all" \in Filters
  /\ \A t \in Tabs : Streams(t) \subseteq Kinds
<1>1. AnyId \in Ids /\ "all" \in Filters
  BY TradeStreamAssumption DEF AnyId
<1>2. \A t \in Tabs : Streams(t) \subseteq Kinds
  BY DEF Kinds
<1>3. "candidates" \in Kinds
  BY <1>2, TradeStreamAssumption DEF Streams
<1>. QED
  BY <1>1, <1>2, <1>3

\* A new stream, and one that has changed in one part.
LEMMA NewSourceOpen ==
  ASSUME NEW k, NEW mode \in Filters
  PROVE  /\ NewSource(mode) \in OpenSources(k)
         /\ [NewSource(mode) EXCEPT !.phase = "dead"] \in OpenSources(k)
<1>1. NewSource(mode) =
        [phase |-> "connecting", mode |-> mode, from |-> 0, seen |-> 0,
         queue |-> <<>>, missed |-> FALSE, stale |-> FALSE]
  BY DEF NewSource
<1>2. 0 \in 0..MaxWrites /\ <<>> \in {q \in Seq(Event(k)) : Len(q) <= QueueSize}
  BY Numbers
<1>3. NewSource(mode) \in OpenSources(k)
  BY <1>1, <1>2 DEF OpenSources
<1>4. [NewSource(mode) EXCEPT !.phase = "dead"] \in OpenSources(k)
  BY <1>3 DEF OpenSources
<1>. QED
  BY <1>3, <1>4

LEMMA SourceChanges ==
  ASSUME NEW k, NEW src \in OpenSources(k)
  PROVE  /\ \A q \in Seq(Event(k)) : Len(q) <= QueueSize =>
              [src EXCEPT !.queue = q] \in OpenSources(k)
         /\ [src EXCEPT !.missed = TRUE] \in OpenSources(k)
         /\ \A b \in BOOLEAN : [src EXCEPT !.stale = b] \in OpenSources(k)
         /\ \A v \in 0..MaxWrites : [src EXCEPT !.from = v] \in OpenSources(k)
         /\ \A v \in 0..MaxWrites : [src EXCEPT !.seen = v] \in OpenSources(k)
         /\ \A ph \in {"open", "live", "dead"} : [src EXCEPT !.phase = ph] \in OpenSources(k)
<1> USE DEF OpenSources
<1>1. \A q \in Seq(Event(k)) : Len(q) <= QueueSize =>
              [src EXCEPT !.queue = q] \in OpenSources(k)
  OBVIOUS
<1>2. [src EXCEPT !.missed = TRUE] \in OpenSources(k)
  OBVIOUS
<1>3. \A b \in BOOLEAN : [src EXCEPT !.stale = b] \in OpenSources(k)
  OBVIOUS
<1>4. \A v \in 0..MaxWrites : [src EXCEPT !.from = v] \in OpenSources(k)
  OBVIOUS
<1>5. \A v \in 0..MaxWrites : [src EXCEPT !.seen = v] \in OpenSources(k)
  OBVIOUS
<1>6. \A ph \in {"open", "live", "dead"} : [src EXCEPT !.phase = ph] \in OpenSources(k)
  OBVIOUS
<1>. QED
  BY <1>1, <1>2, <1>3, <1>4, <1>5, <1>6

LEMMA RowFields ==
  ASSUME NEW row \in Rows
  PROVE  row.id \in Ids /\ row.id \in Nat /\ row.at \in Nat /\ row.ver \in Nat
         /\ row.at \in 0..MaxWrites /\ row.ver \in 0..MaxWrites
BY Numbers DEF Rows

LEMMA EventFields ==
  ASSUME NEW k, NEW e \in Event(k)
  PROVE  e.kind = k /\ e.type \in {"upsert", "delete"} /\ e.row \in Rows
         /\ e.ver \in 1..MaxWrites /\ e.ver \in Nat
BY Numbers DEF Event

LEMMA Moments ==
  ASSUME Typed
  PROVE  /\ Now \in Nat /\ Now <= MaxWrites /\ Len(history) = Now + 1
         /\ \A k \in Kinds : \A v \in 0..Now :
              /\ Table(k, v) \subseteq Rows /\ IsFiniteSet(Table(k, v))
              /\ v + 1 \in 1..Len(history)
<1>1. Now \in Nat /\ Now <= MaxWrites /\ Len(history) = Now + 1
  BY Numbers DEF Typed, Now
<1>2. ASSUME NEW k \in Kinds, NEW v \in 0..Now
      PROVE  Table(k, v) \subseteq Rows /\ v + 1 \in 1..Len(history)
  <2>1. v + 1 \in 1..Len(history)
    BY <1>1
  <2>2. history[v + 1] \in Tables
    BY <2>1 DEF Typed
  <2>. QED
    BY <2>1, <2>2 DEF Tables, Table
<1>. QED
  BY <1>1, <1>2 DEF Typed

\* What a write leaves: the former moments are as they were.
LEMMA CommitIs ==
  ASSUME Typed, NEW k \in Kinds, NEW table \in SUBSET Rows, NEW event,
         Commit(k, table, event)
  PROVE  /\ pubs' = pubs \cup {event} /\ Now' = Now + 1
         /\ history' \in Seq(Tables) /\ Len(history') = Now + 2
         /\ \A l \in Kinds : \A v \in 0..Now : Table(l, v)' = Table(l, v)
         /\ \A v : v = Now + 1 =>
              /\ Table(k, v)' = table
              /\ \A l \in Kinds \ {k} : Table(l, v)' = Table(l, Now)
<1>1. Now \in Nat /\ Len(history) = Now + 1 /\ history \in Seq(Tables)
  BY Moments DEF Typed
<1>2. history[Now + 1] \in Tables
  BY <1>1
<1> DEFINE last == [history[Now + 1] EXCEPT ![k] = table]
<1>3. last \in Tables
  BY <1>2 DEF Tables
<1>4. history' = Append(history, last) /\ pubs' = pubs \cup {event}
  BY <1>1 DEF Commit
<1>5. /\ history' \in Seq(Tables) /\ Len(history') = Now + 2
      /\ history'[Now + 2] = last
      /\ \A i \in 1..(Now + 1) : history'[i] = history[i]
  <2> HIDE DEF last
  <2>. QED
    BY <1>1, <1>3, <1>4
<1>6. Now' = Now + 1
  BY <1>1, <1>5 DEF Now
<1>7. ASSUME NEW l \in Kinds, NEW v \in 0..Now PROVE Table(l, v)' = Table(l, v)
  BY <1>1, <1>5 DEF Table
<1>8. ASSUME NEW v, v = Now + 1
      PROVE  Table(k, v)' = table /\ \A l \in Kinds \ {k} : Table(l, v)' = Table(l, Now)
  <2>1. history'[v + 1] = last
    BY <1>1, <1>5, <1>8
  <2>. QED
    BY <1>2, <2>1 DEF Table, Tables
<1>. QED
  BY <1>4, <1>5, <1>6, <1>7, <1>8

-----------------------------------------------------------------------------
(* Lists.                                                                  *)

Coming(k, S) == {p \in S \X S : Comes(k, p[1], p[2])}

LEMMA ComesOrders ==
  ASSUME NEW k, NEW S \in SUBSET Rows
  PROVE  StrictOrder(S, Coming(k, S))
<1>1. \A r \in S : /\ r.id \in Nat /\ r.at \in Nat /\ r.ver \in Nat
                   /\ r = [id |-> r.id, at |-> r.at, ver |-> r.ver]
  <2> SUFFICES ASSUME NEW r \in S
               PROVE  /\ r.id \in Nat /\ r.at \in Nat /\ r.ver \in Nat
                      /\ r = [id |-> r.id, at |-> r.at, ver |-> r.ver]
    OBVIOUS
  <2>1. r \in Rows
    OBVIOUS
  <2>. QED
    BY <2>1, RowFields DEF Rows
<1>2. \A x, y \in S : x # y => x.id # y.id \/ x.at # y.at \/ x.ver # y.ver
  BY <1>1
<1>3. \A x, y \in S : <<x, y>> \in Coming(k, S) <=> Comes(k, x, y)
  BY DEF Coming
<1>4. \A x \in S : ~Comes(k, x, x)
  BY <1>1 DEF Comes, Before
<1>5. \A x, y \in S : x # y => Comes(k, x, y) \/ Comes(k, y, x)
  BY <1>1, <1>2 DEF Comes, Before
<1>6. ASSUME NEW x \in S, NEW y \in S, NEW z \in S, Comes(k, x, y), Comes(k, y, z)
      PROVE  Comes(k, x, z)
  <2>1. CASE k = "candidates"
    BY <1>1, <1>6, <2>1 DEF Comes, Before
  <2>2. CASE k # "candidates"
    BY <1>1, <1>6, <2>2 DEF Comes, Before
  <2>. QED
    BY <2>1, <2>2
<1>. QED
  BY <1>3, <1>4, <1>5, <1>6 DEF StrictOrder

\* How many rows come before a row.
Place(k, S, t) == Cardinality({y \in S : Comes(k, y, t)})

LEMMA SortedIs ==
  ASSUME NEW k, NEW S \in SUBSET Rows, IsFiniteSet(S), NEW s, s = limitSortedItems(k, S)
  PROVE  /\ s \in Seq(Rows) /\ ToSet(s) \subseteq S
         /\ \A i, j \in DOMAIN s : i < j => Comes(k, s[i], s[j])
         /\ k = "candidates" => ToSet(s) = S
         /\ k # "candidates" => Len(s) <= Limit
         /\ ToSet(s) = S \/ Len(s) = Limit
         /\ \A t \in S : k # "candidates" => (t \in ToSet(s) <=> Place(k, S, t) < Limit)
<1> DEFINE R == Coming(k, S)
           N == Cardinality(S)
           q == Arranged(S, R)
<1>1. /\ q \in Seq(S) /\ Len(q) = N /\ N \in Nat /\ DOMAIN q = 1..N
      /\ \A n \in DOMAIN q : Rank(S, R, q[n]) = n - 1
      /\ \A x \in S : \E n \in DOMAIN q : q[n] = x
      /\ \A i, j \in DOMAIN q : i < j => <<q[i], q[j]>> \in R
  <2>1. StrictOrder(S, R)
    BY ComesOrders
  <2> HIDE DEF R
  <2>. QED
    BY <2>1, ArrangedIs
<1>2. s = IF k = "candidates" \/ Len(q) <= Limit THEN q ELSE SubSeq(q, 1, Limit)
  BY DEF limitSortedItems, Coming
<1>3. \A t \in S : Rank(S, R, t) = Place(k, S, t)
  <2> SUFFICES ASSUME NEW t \in S PROVE Rank(S, R, t) = Place(k, S, t)
    OBVIOUS
  <2>1. {y \in S : <<y, t>> \in R} = {y \in S : Comes(k, y, t)}
    BY DEF Coming
  <2>. QED
    BY <2>1 DEF Rank, Place
<1>4. \A i, j \in DOMAIN q : i < j => Comes(k, q[i], q[j])
  BY <1>1 DEF Coming
<1>5. \A t \in S : Place(k, S, t) \in 0..(N - 1)
  BY <1>3, ComesOrders, RankInRange
<1>6. \A n \in 1..N : q[n] \in S /\ Place(k, S, q[n]) = n - 1
  BY <1>1, <1>3
<1>7. S = ToSet(q)
  BY <1>1, <1>6 DEF ToSet
<1> HIDE DEF R, N, q
<1>8. CASE k = "candidates" \/ Len(q) <= Limit
  <2>1. s = q /\ q \in Seq(Rows)
    BY <1>1, <1>2, <1>8
  <2>2. k # "candidates" => \A t \in S : Place(k, S, t) < Limit
    BY <1>1, <1>5, <1>8, Numbers
  <2>. QED
    BY <1>1, <1>4, <1>7, <1>8, <2>1, <2>2
<1>9. CASE k # "candidates" /\ ~(Len(q) <= Limit)
  <2>1. s = SubSeq(q, 1, Limit)
    BY <1>2, <1>9
  <2>2. Limit \in 1..N
    BY <1>1, <1>9, Numbers
  <2>3. s \in Seq(Rows) /\ Len(s) = Limit /\ DOMAIN s = 1..Limit
        /\ \A i \in 1..Limit : s[i] = q[i]
    <3>1. q \in Seq(Rows) /\ 1..Limit \subseteq 1..Len(q)
      BY <1>1, <2>2
    <3>. QED
      BY <2>1, <2>2, <3>1
  <2>4. 1..Limit \subseteq 1..N
    BY <1>1, <2>2
  <2>5. \A i, j \in DOMAIN s : i < j => Comes(k, s[i], s[j])
    BY <1>1, <1>4, <2>3, <2>4
  <2>6. ToSet(s) \subseteq S
    BY <1>6, <2>3, <2>4 DEF ToSet
  <2>7. ASSUME NEW t \in S PROVE t \in ToSet(s) <=> Place(k, S, t) < Limit
    <3>1. ASSUME t \in ToSet(s) PROVE Place(k, S, t) < Limit
      <4>1. PICK i \in 1..Limit : t = q[i]
        BY <2>3, <3>1 DEF ToSet
      <4>2. i \in 1..N
        BY <2>4
      <4>3. Place(k, S, t) = i - 1
        BY <1>6, <4>1, <4>2
      <4>. QED
        BY <4>3, Numbers
    <3>2. ASSUME Place(k, S, t) < Limit PROVE t \in ToSet(s)
      <4>1. PICK n \in 1..N : q[n] = t
        BY <1>1
      <4>2. Place(k, S, t) = n - 1
        BY <1>6, <4>1
      <4>3. n \in 1..Limit
        BY <1>1, <3>2, <4>2, Numbers
      <4>. QED
        BY <2>3, <4>1, <4>3 DEF ToSet
    <3>. QED
      BY <3>1, <3>2
  <2>8. Len(s) <= Limit
    BY <2>3, Numbers
  <2>. QED
    BY <1>9, <2>3, <2>5, <2>6, <2>7, <2>8
<1>. QED
  BY <1>8, <1>9

LEMMA RemoveIs ==
  ASSUME NEW list \in Seq(Rows), NEW id, NEW s, s = remove(list, id)
  PROVE  /\ s \in Seq(Rows) /\ Len(s) <= Len(list)
         /\ ToSet(s) = {r \in ToSet(list) : r.id # id}
         /\ \A i, j \in DOMAIN s : i < j =>
              \E a, b \in DOMAIN list : a < b /\ s[i] = list[a] /\ s[j] = list[b]
<1> DEFINE places == {i \in DOMAIN list : list[i].id # id}
<1>1. Len(list) \in Nat /\ list \in [1..Len(list) -> Rows] /\ DOMAIN list = 1..Len(list)
  OBVIOUS
<1>2. places \in SUBSET (1..Len(list)) /\ s = Sublist(list, places)
  BY <1>1 DEF remove
<1>3. /\ s \in Seq(Rows) /\ Len(s) <= Len(list)
      /\ \A n \in DOMAIN s : \E p \in places : s[n] = list[p]
      /\ \A p \in places : \E n \in DOMAIN s : s[n] = list[p]
      /\ \A i, j \in DOMAIN s : i < j =>
           \E p, q \in places : p < q /\ s[i] = list[p] /\ s[j] = list[q]
  <2> DEFINE m == Len(list)
  <2> HIDE DEF places, m
  <2>1. m \in Nat /\ list \in [1..m -> Rows] /\ places \in SUBSET (1..m)
    BY <1>1, <1>2 DEF m
  <2>2. s = Sublist(list, places)
    BY <1>2
  <2>3. s \in Seq(Rows) /\ Len(s) <= m
    BY <2>1, <2>2, SublistIs
  <2>4. \A n \in DOMAIN s : \E p \in places : s[n] = list[p]
    BY <2>1, <2>2, SublistIs
  <2>5. \A p \in places : \E n \in DOMAIN s : s[n] = list[p]
    BY <2>1, <2>2, SublistIs
  <2>6. InPlaceOrder(s, list, places)
    BY <2>1, <2>2, SublistIs
  <2>. QED
    BY <2>3, <2>4, <2>5, <2>6 DEF m, InPlaceOrder
<1>4. ToSet(s) = {r \in ToSet(list) : r.id # id}
  BY <1>3 DEF ToSet
<1>. QED
  BY <1>3, <1>4

-----------------------------------------------------------------------------
(* The tables and what is known of them.                                   *)

RowsOf(k, id, v) == {row \in Table(k, v) : row.id = id}

\* Rows that some table has had.
Known(k) == UNION {Table(k, v) : v \in 0..Now}

\* Two rows of one table have two ids; two rows of one time are versions of one
\* row, whichever tables they are from; and trades never go nor get older.
History ==
  \A k \in Kinds :
    /\ \A v \in 0..Now : \A r \in Table(k, v) : r.at <= v /\ r.ver <= v
    /\ \A v \in 0..Now : \A r, s \in Table(k, v) : r.id = s.id => r = s
    /\ \A r, s \in Known(k) : r.at = s.at => r.id = s.id
    /\ k # "candidates" => \A r \in Known(k) : \E t \in Table(k, Now) : t.id = r.id /\ r.at <= t.at

\* Events name rows the tables have had; of one write there is one.
Events ==
  /\ \A p \in pubs : p.ver <= Now /\ p.row \in Known(p.kind)
  /\ \A p, q \in pubs : p.ver = q.ver => p = q

\* A request was made before now; what was removed was gone at its moment.
Asked ==
  \A s \in Slots : requests[s] # NoRequest =>
    /\ requests[s].from <= Now
    /\ requests[s].op = "removed" =>
         RowsOf("candidates", requests[s].id, requests[s].from) = {}

\* The rows of a list are known, two of them have two ids, and they are in order.
Ordered(k, list) ==
  /\ ToSet(list) \subseteq Known(k)
  /\ \A i, j \in DOMAIN list : i < j =>
       list[i].id # list[j].id /\ Before(k, list[i], list[j])
  /\ k # "candidates" => Len(list) <= Limit

-----------------------------------------------------------------------------
(* What is on its way to a stream.                                         *)

Queued(k) == ToSet(sources[k].queue)
Unpublished(k) == {p \in pubs : p.kind = k}
Pending(k) == Queued(k) \cup Unpublished(k)

\* The last event of a row says what has become of it.
LastTells(k, events) ==
  \A e \in events :
    (\A f \in events : f.row.id = e.row.id => f.ver <= e.ver)
    => RowsOf(k, e.row.id, Now) = IF e.type = "upsert" THEN {e.row} ELSE {}

\* A row without an event later than v is as it was at v.
Covers(k, events, v) ==
  \A id \in Ids :
    (\A e \in events : e.row.id = id => e.ver <= v)
    => RowsOf(k, id, v) = RowsOf(k, id, Now)

Base(k) == IF sources[k].phase = "open" THEN sources[k].from ELSE sources[k].seen

\* What a stream has not got yet waits in its queue or to be published, in the
\* order of the writes, unless its queue has overflowed.
Stream(k) ==
  /\ sources[k].phase = "connecting" => sources[k].queue = <<>>
  /\ Subscribed(k) =>
       /\ Base(k) <= Now
       /\ \A i, j \in DOMAIN sources[k].queue : i < j =>
            sources[k].queue[i].ver < sources[k].queue[j].ver
       /\ \A e \in Queued(k) : /\ e.ver <= Now /\ e.row \in Known(k)
                               /\ \A p \in Unpublished(k) : e.ver < p.ver
       /\ ~sources[k].missed =>
            /\ LastTells(k, Pending(k))
            /\ \A v \in Base(k)..Now : Covers(k, Pending(k), v)

\* A list that a stream shows is right about each row that nothing is on its way
\* for: the rows it has are those of the table, and the first ones of the table
\* are on it.
Right(k, rows, mode, events) ==
  /\ \A r \in rows :
       /\ matchesTradeMode(k, r.id, mode)
       /\ (\A e \in events : e.row.id # r.id) => r \in Table(k, Now)
  /\ \A t \in ToSet(View(k, mode, Now)) :
       (\A e \in events : e.row.id # t.id) => t \in rows

Shown(k) ==
  (sources[k].phase = "live" /\ ~sources[k].missed /\ ~sources[k].stale)
  => Right(k, ToSet(lists[k]), sources[k].mode, Pending(k))

Showing(k) ==
  LastTells(k, Unpublished(k)) /\ Ordered(k, lists[k]) /\ Stream(k) /\ Shown(k)

StreamsShow == \A k \in Kinds : Showing(k)

-----------------------------------------------------------------------------
(* Writes.                                                                 *)

\* The backend has changed one row of one table, and has an event to publish.
Change(k, id, table, event) ==
  /\ table \subseteq Rows /\ IsFiniteSet(table)
  /\ event \in Event(k) /\ event.row.id = id /\ event.ver = Now + 1
  /\ \A r \in Rows : r.id # id => (r \in table <=> r \in Table(k, Now))
  /\ event.type = "upsert" =>
       /\ {r \in table : r.id = id} = {event.row}
       /\ event.row.ver = Now + 1 /\ event.row.at <= Now + 1
       /\ event.row.at = Now + 1 \/ \E r \in RowsOf(k, id, Now) : r.at = event.row.at
       /\ \A r \in RowsOf(k, id, Now) : r.at <= event.row.at
  /\ event.type = "delete" =>
       /\ k = "candidates" /\ event.row \in Table(k, Now)
       /\ {r \in table : r.id = id} = {}

LEMMA PutChanges ==
  ASSUME Typed, History, NEW k \in Kinds, NEW id \in Ids, Now < MaxWrites, Put(k, id)
  PROVE  \E table, event : Change(k, id, table, event) /\ Commit(k, table, event)
<1> DEFINE old == {row \in Table(k, Now) : row.id = id}
           at == IF old = {} \/ k = "positions" THEN Now + 1 ELSE (CHOOSE row \in old : TRUE).at
           row == [id |-> id, at |-> at, ver |-> Now + 1]
           table == (Table(k, Now) \ old) \cup {row}
           event == [kind |-> k, type |-> "upsert", row |-> row, ver |-> Now + 1]
<1>1. Commit(k, table, event)
  BY DEF Put
<1>2. /\ Now \in Nat /\ Now + 1 \in 1..MaxWrites /\ Now + 1 \in 0..MaxWrites /\ Now \in 0..Now
      /\ Table(k, Now) \subseteq Rows /\ IsFiniteSet(Table(k, Now))
  BY Moments, Numbers
<1>3. \A r, s \in old : r = s
  BY <1>2 DEF History
<1>4. \A r \in old : r \in Rows /\ r.at <= Now /\ r.at \in Nat
  BY <1>2, RowFields DEF History
<1>5. \/ at = Now + 1
      \/ \E r \in old : r.at = at
  OBVIOUS
<1>6. \A r \in old : r.at <= at
  <2>1. CASE old = {} \/ k = "positions"
    BY <1>2, <1>4, <2>1
  <2>2. CASE ~(old = {} \/ k = "positions")
    <3>1. (CHOOSE r \in old : TRUE) \in old
      BY <2>2
    <3>2. \A r \in old : r = CHOOSE x \in old : TRUE
      BY <1>3, <3>1
    <3>3. \A r \in old : r.at = at
      BY <2>2, <3>2
    <3>. QED
      BY <1>4, <3>3
  <2>. QED
    BY <2>1, <2>2
<1>7. at \in 0..MaxWrites /\ at <= Now + 1
  <2>1. ASSUME NEW r \in old, r.at = at PROVE at \in 0..MaxWrites /\ at <= Now + 1
    BY <1>2, <1>4, <2>1, RowFields
  <2>. QED
    BY <1>2, <1>5, <2>1
<1> HIDE DEF at
<1>8. row \in Rows /\ row.id = id /\ row.at = at /\ row.ver = Now + 1
  BY <1>2, <1>7 DEF Rows
<1> HIDE DEF row
<1>9. event \in Event(k) /\ event.row = row /\ event.ver = Now + 1 /\ event.type = "upsert"
  BY <1>2, <1>8 DEF Event
<1>10. table \subseteq Rows /\ IsFiniteSet(table)
  <2>1. IsFiniteSet(Table(k, Now) \ old)
    BY <1>2, FS_Subset
  <2>. QED
    BY <1>2, <1>8, <2>1, FS_AddElement
<1>11. \A r \in Rows : r.id # id => (r \in table <=> r \in Table(k, Now))
  BY <1>8
<1>12. {r \in table : r.id = id} = {row}
  BY <1>8
<1>13. old = RowsOf(k, id, Now)
  BY DEF RowsOf
<1>14. event.row.id = id
  BY <1>8, <1>9
<1> HIDE DEF event, table, old
<1>15. Change(k, id, table, event)
  BY <1>5, <1>6, <1>7, <1>8, <1>9, <1>10, <1>11, <1>12, <1>13, <1>14 DEF Change
<1>. QED
  BY <1>1, <1>15

LEMMA DiscardChanges ==
  ASSUME Typed, History, NEW id \in Ids, Now < MaxWrites, Discard(id)
  PROVE  \E table, event :
           /\ Change("candidates", id, table, event) /\ Commit("candidates", table, event)
           /\ event.type = "delete"
<1>0. "candidates" \in Kinds
  BY Constants
<1>1. /\ Now \in Nat /\ Now + 1 \in 1..MaxWrites /\ Now \in 0..Now
      /\ Table("candidates", Now) \subseteq Rows /\ IsFiniteSet(Table("candidates", Now))
  BY <1>0, Moments, Numbers
<1>2. PICK row \in Table("candidates", Now) :
        /\ row.id = id
        /\ Commit("candidates", Table("candidates", Now) \ {row},
                  [kind |-> "candidates", type |-> "delete", row |-> row, ver |-> Now + 1])
  BY DEF Discard
<1> DEFINE table == Table("candidates", Now) \ {row}
           event == [kind |-> "candidates", type |-> "delete", row |-> row, ver |-> Now + 1]
<1>3. event \in Event("candidates") /\ event.row = row /\ event.ver = Now + 1
      /\ event.type = "delete"
  BY <1>1, <1>2 DEF Event
<1>4. table \subseteq Rows /\ IsFiniteSet(table)
  BY <1>1, FS_Subset
<1>5. \A r \in Table("candidates", Now) : r.id = id => r = row
  BY <1>0, <1>1, <1>2 DEF History
<1>6. {r \in table : r.id = id} = {}
  BY <1>5
<1>7. \A r \in Rows : r.id # id => (r \in table <=> r \in Table("candidates", Now))
  BY <1>2
<1>8. Commit("candidates", table, event)
  BY <1>2
<1> HIDE DEF event, table
<1>9. Change("candidates", id, table, event)
  BY <1>2, <1>3, <1>4, <1>6, <1>7 DEF Change
<1>. QED
  BY <1>3, <1>8, <1>9

\* Every write of the backend is a change of one row.
LEMMA WriteChanges ==
  ASSUME Typed, History, Write \/ \E s \in InFlight : Execute(s)
  PROVE  /\ UNCHANGED <<tab, filter, lists, sources, loading>>
         /\ \E k \in Kinds, id \in Ids : \E table, event :
              Change(k, id, table, event) /\ Commit(k, table, event)
<1>0. "candidates" \in Kinds
  BY Constants
<1>1. CASE Write
  <2>1. CASE \E k \in Kinds, id \in Ids : Put(k, id)
    BY <1>1, <2>1, PutChanges DEF Write
  <2>2. CASE \E id \in Ids : Discard(id)
    BY <1>0, <1>1, <2>2, DiscardChanges DEF Write
  <2>. QED
    BY <1>1, <2>1, <2>2 DEF Write
<1>2. CASE \E s \in InFlight : Execute(s)
  <2>1. PICK s \in InFlight : Execute(s)
    BY <1>2
  <2>2. requests[s] \in Request
    BY DEF Typed, InFlight
  <2>3. requests[s].id \in Ids
    BY <2>2 DEF Request
  <2>4. CASE Put("candidates", requests[s].id)
    BY <1>0, <2>1, <2>3, <2>4, PutChanges DEF Execute
  <2>5. CASE Discard(requests[s].id)
    BY <1>0, <2>1, <2>3, <2>5, DiscardChanges DEF Execute
  <2>. QED
    BY <2>1, <2>4, <2>5 DEF Execute
<1>. QED
  BY <1>1, <1>2

LEMMA ChangeIs ==
  ASSUME Typed, History, NEW k \in Kinds, NEW id \in Ids, NEW table, NEW event,
         Change(k, id, table, event), Commit(k, table, event)
  PROVE  /\ Now' = Now + 1 /\ pubs' = pubs \cup {event}
         /\ history' \in Seq(Tables) /\ Len(history') = Now + 2
         /\ \A l \in Kinds : \A v \in 0..Now : Table(l, v)' = Table(l, v)
         /\ \A v : v = Now + 1 =>
              /\ Table(k, v)' = table
              /\ \A l \in Kinds \ {k} : Table(l, v)' = Table(l, Now)
         /\ Table(k, Now)' = table
         /\ \A l \in Kinds \ {k} : Table(l, Now)' = Table(l, Now)
         /\ \A l \in Kinds \ {k} : Known(l)' = Known(l)
         /\ Known(k) \subseteq Known(k)' /\ event.row \in Known(k)'
         /\ \A r \in Known(k)' : r \in Known(k) \/ (event.type = "upsert" /\ r = event.row)
<1>1. /\ Now' = Now + 1 /\ pubs' = pubs \cup {event}
      /\ history' \in Seq(Tables) /\ Len(history') = Now + 2
      /\ \A l \in Kinds : \A v \in 0..Now : Table(l, v)' = Table(l, v)
      /\ \A v : v = Now + 1 =>
           /\ Table(k, v)' = table
           /\ \A l \in Kinds \ {k} : Table(l, v)' = Table(l, Now)
  BY CommitIs DEF Change
<1>2. /\ Now \in Nat /\ \A v : v \in 0..(Now + 1) <=> v \in 0..Now \/ v = Now + 1
      /\ Now \in 0..Now /\ Now + 1 \in 0..(Now + 1)
  BY Moments
<1>3. \A l \in Kinds : Table(l, Now)' = (history'[(Now + 1) + 1])[l]
  BY <1>1 DEF Table
<1>4. \A l \in Kinds : \A v : v = Now + 1 => Table(l, v)' = (history'[(Now + 1) + 1])[l]
  BY DEF Table
<1>5. /\ Table(k, Now)' = table
      /\ \A l \in Kinds \ {k} : Table(l, Now)' = Table(l, Now)
  BY <1>1, <1>3, <1>4
<1>6. \A l \in Kinds : Known(l)' = UNION {Table(l, v)' : v \in 0..(Now + 1)}
  BY <1>1 DEF Known
<1>7. \A l \in Kinds \ {k} : Known(l)' = Known(l)
  BY <1>1, <1>2, <1>6 DEF Known
<1>8. \A r : r \in Known(k)' <=> r \in Known(k) \/ r \in table
  BY <1>1, <1>2, <1>6 DEF Known
<1>9. table \subseteq Rows /\ Table(k, Now) \subseteq Known(k)
  BY <1>2 DEF Change, Known
<1>10. \A r \in table : r \in Table(k, Now) \/ (event.type = "upsert" /\ r = event.row)
  <2>1. event.type \in {"upsert", "delete"}
    BY EventFields DEF Change
  <2>. QED
    BY <1>9, <2>1 DEF Change
<1>11. event.row \in Table(k, Now) \cup table
  <2>1. event.type \in {"upsert", "delete"}
    BY EventFields DEF Change
  <2>. QED
    BY <2>1 DEF Change
<1>12. /\ Known(k) \subseteq Known(k)' /\ event.row \in Known(k)'
       /\ \A r \in Known(k)' : r \in Known(k) \/ (event.type = "upsert" /\ r = event.row)
  BY <1>8, <1>9, <1>10, <1>11
<1>. QED
  BY <1>1, <1>5, <1>7, <1>12

LEMMA ChangeRows ==
  ASSUME Typed, History, NEW k \in Kinds, NEW id \in Ids, NEW table, NEW event,
         Change(k, id, table, event), Commit(k, table, event)
  PROVE  /\ \A l \in Kinds, i \in Ids : \A v \in 0..Now : RowsOf(l, i, v)' = RowsOf(l, i, v)
         /\ \A l \in Kinds, i \in Ids : l # k \/ i # id => RowsOf(l, i, Now)' = RowsOf(l, i, Now)
         /\ RowsOf(k, id, Now)' = IF event.type = "upsert" THEN {event.row} ELSE {}
         /\ \A l \in Kinds, i \in Ids : \A v : v = Now + 1 => RowsOf(l, i, v)' = RowsOf(l, i, Now)'
<1>1. /\ Now' = Now + 1
      /\ \A l \in Kinds : \A v \in 0..Now : Table(l, v)' = Table(l, v)
      /\ Table(k, Now)' = table
      /\ \A v : v = Now + 1 =>
           /\ Table(k, v)' = table
           /\ \A l \in Kinds \ {k} : Table(l, v)' = Table(l, Now)
      /\ \A l \in Kinds \ {k} : Table(l, Now)' = Table(l, Now)
  BY ChangeIs
<1>2. \A l \in Kinds, i \in Ids : \A v \in 0..Now : RowsOf(l, i, v)' = RowsOf(l, i, v)
  BY <1>1 DEF RowsOf
<1>3. \A l \in Kinds, i \in Ids : RowsOf(l, i, Now)' = {r \in Table(l, Now)' : r.id = i}
  BY DEF RowsOf
<1>4. \A l \in Kinds, i \in Ids : \A v : v = Now + 1 => RowsOf(l, i, v)' = RowsOf(l, i, Now)'
  BY <1>1, <1>3 DEF RowsOf
<1>5. ASSUME NEW i \in Ids, i # id PROVE RowsOf(k, i, Now)' = RowsOf(k, i, Now)
  <2>1. Table(k, Now) \subseteq Rows /\ table \subseteq Rows
    BY Moments DEF Change
  <2>2. \A r \in Rows : r.id = i => (r \in table <=> r \in Table(k, Now))
    BY <1>5 DEF Change
  <2>3. {r \in table : r.id = i} = {r \in Table(k, Now) : r.id = i}
    BY <2>1, <2>2
  <2>. QED
    BY <1>1, <1>3, <2>3 DEF RowsOf
<1>6. \A l \in Kinds \ {k}, i \in Ids : RowsOf(l, i, Now)' = RowsOf(l, i, Now)
  BY <1>1, <1>3 DEF RowsOf
<1>7. RowsOf(k, id, Now)' = IF event.type = "upsert" THEN {event.row} ELSE {}
  <2>1. event.type \in {"upsert", "delete"}
    BY EventFields DEF Change
  <2>. QED
    BY <1>1, <1>3, <2>1 DEF Change
<1>. QED
  BY <1>2, <1>4, <1>5, <1>6, <1>7

LEMMA HistoryChanges ==
  ASSUME Typed, History, NEW k \in Kinds, NEW id \in Ids, NEW table, NEW event,
         Change(k, id, table, event), Commit(k, table, event)
  PROVE  History'
<1>1. /\ Now' = Now + 1
      /\ \A l \in Kinds : \A v \in 0..Now : Table(l, v)' = Table(l, v)
      /\ \A v : v = Now + 1 =>
           /\ Table(k, v)' = table
           /\ \A l \in Kinds \ {k} : Table(l, v)' = Table(l, Now)
      /\ Table(k, Now)' = table
      /\ \A l \in Kinds \ {k} : Table(l, Now)' = Table(l, Now)
      /\ \A l \in Kinds \ {k} : Known(l)' = Known(l)
      /\ Known(k) \subseteq Known(k)' /\ event.row \in Known(k)'
      /\ \A r \in Known(k)' : r \in Known(k) \/ (event.type = "upsert" /\ r = event.row)
  BY ChangeIs
<1>2. /\ Now \in Nat /\ \A v : v \in 0..(Now + 1) <=> v \in 0..Now \/ v = Now + 1
      /\ Now \in 0..Now /\ \A l \in Kinds : Table(l, Now) \subseteq Rows
  BY Moments
<1>3. event.type \in {"upsert", "delete"} /\ event.row \in Rows /\ event.row.id = id
  BY EventFields DEF Change
<1>4. \A r \in table : r \in Table(k, Now) \/ (event.type = "upsert" /\ r = event.row)
  BY <1>3 DEF Change
<1>5. \A l \in Kinds : \A v \in 0..(Now + 1) : \A r \in Table(l, v)' : r.at <= v /\ r.ver <= v
  <2>1. \A l \in Kinds : \A v \in 0..Now : \A r \in Table(l, v)' : r.at <= v /\ r.ver <= v
    BY <1>1 DEF History
  <2>2. \A l \in Kinds : \A r \in Table(l, Now) : r.at <= Now + 1 /\ r.ver <= Now + 1
    BY <1>2, RowFields DEF History
  <2>3. event.type = "upsert" => event.row.at <= Now + 1 /\ event.row.ver <= Now + 1
    BY <1>2 DEF Change
  <2>4. \A r \in table : r.at <= Now + 1 /\ r.ver <= Now + 1
    BY <1>4, <2>2, <2>3
  <2>. QED
    BY <1>1, <1>2, <2>1, <2>2, <2>4
<1>6. \A l \in Kinds : \A v \in 0..(Now + 1) : \A r, s \in Table(l, v)' : r.id = s.id => r = s
  <2>1. \A l \in Kinds : \A r, s \in Table(l, Now) : r.id = s.id => r = s
    BY <1>2 DEF History
  <2>2. ASSUME NEW r \in table, NEW s \in table, r.id = s.id PROVE r = s
    <3>1. CASE r.id = id
      <4>1. r \in {x \in table : x.id = id} /\ s \in {x \in table : x.id = id}
        BY <2>2, <3>1
      <4>. QED
        BY <1>3, <4>1 DEF Change
    <3>2. CASE r.id # id
      <4>1. r \in Table(k, Now) /\ s \in Table(k, Now)
        BY <1>3, <1>4, <2>2, <3>2
      <4>. QED
        BY <2>1, <2>2, <4>1
    <3>. QED
      BY <3>1, <3>2
  <2>3. \A l \in Kinds : \A v \in 0..Now : \A r, s \in Table(l, v)' : r.id = s.id => r = s
    BY <1>1 DEF History
  <2>. QED
    BY <1>1, <1>2, <2>1, <2>2, <2>3
<1>7. ASSUME NEW r \in Known(k)', NEW s \in Known(k)', r.at = s.at PROVE r.id = s.id
  <2>1. \A x, y \in Known(k) : x.at = y.at => x.id = y.id
    BY DEF History
  <2>2. \A x \in Known(k) : x \in Rows /\ x.at <= Now
    <3>1. ASSUME NEW x \in Known(k) PROVE x \in Rows /\ x.at <= Now
      <4>1. PICK v \in 0..Now : x \in Table(k, v)
        BY DEF Known
      <4>2. x \in Rows /\ x.at <= v /\ v <= Now /\ v \in Int /\ x.at \in Int
        BY <1>2, <4>1, Moments, RowFields DEF History
      <4>. QED
        BY <1>2, <4>2
    <3>. QED
      BY <3>1
  <2>3. \A x \in Known(k) : event.type = "upsert" /\ x.at = event.row.at => x.id = id
    <3> SUFFICES ASSUME NEW x \in Known(k), event.type = "upsert", x.at = event.row.at
                 PROVE  x.id = id
      OBVIOUS
    <3>1. x.at <= Now /\ x.at \in Int
      BY <2>2, RowFields
    <3>2. PICK y \in RowsOf(k, id, Now) : y.at = event.row.at
      BY <1>2, <3>1 DEF Change
    <3>3. y \in Known(k) /\ y.id = id
      BY <1>2 DEF RowsOf, Known
    <3>. QED
      BY <2>1, <3>2, <3>3
  <2>. QED
    BY <1>1, <1>3, <1>7, <2>1, <2>3
<1>8. ASSUME k # "candidates", NEW r \in Known(k)'
      PROVE  \E t \in table : t.id = r.id /\ r.at <= t.at
  <2>1. event.type = "upsert"
    BY <1>3, <1>8 DEF Change
  <2>2. event.row \in table /\ event.row.at \in Int
    BY <1>3, <2>1, RowFields DEF Change
  <2>3. CASE r \in Known(k)
    <3>1. PICK t \in Table(k, Now) : t.id = r.id /\ r.at <= t.at
      BY <1>8, <2>3 DEF History
    <3>2. t \in Rows /\ t.at \in Int
      BY <1>2, RowFields
    <3>3. r.at \in Int
      <4>1. r \in Rows
        BY <2>3, Moments DEF Known
      <4>. QED
        BY <4>1, RowFields
    <3>4. CASE t.id # id
      BY <3>1, <3>2, <3>4 DEF Change
    <3>5. CASE t.id = id
      <4>1. t.at <= event.row.at
        BY <2>1, <3>5 DEF Change, RowsOf
      <4>. QED
        BY <1>3, <2>2, <3>1, <3>2, <3>3, <3>5, <4>1
    <3>. QED
      BY <3>4, <3>5
  <2>4. CASE r = event.row
    BY <2>2, <2>4
  <2>. QED
    BY <1>1, <2>3, <2>4
<1>9. \A l \in Kinds \ {k} : \A r, s \in Known(l)' : r.at = s.at => r.id = s.id
  BY <1>1 DEF History
<1>10. \A l \in Kinds \ {k} : l # "candidates" =>
         \A r \in Known(l)' : \E t \in Table(l, Now)' : t.id = r.id /\ r.at <= t.at
  BY <1>1 DEF History
<1>11. k # "candidates" =>
         \A r \in Known(k)' : \E t \in Table(k, Now)' : t.id = r.id /\ r.at <= t.at
  BY <1>1, <1>8
<1>12. \A l \in Kinds : \A r, s \in Known(l)' : r.at = s.at => r.id = s.id
  BY <1>7, <1>9
<1>13. \A l \in Kinds : l # "candidates" =>
         \A r \in Known(l)' : \E t \in Table(l, Now)' : t.id = r.id /\ r.at <= t.at
  BY <1>10, <1>11
<1>14. \A l \in Kinds : \A v \in 0..Now' :
         /\ \A r \in Table(l, v)' : r.at <= v /\ r.ver <= v
         /\ \A r, s \in Table(l, v)' : r.id = s.id => r = s
  BY <1>1, <1>5, <1>6
<1>. QED
  BY <1>12, <1>13, <1>14 DEF History

LEMMA EventsChange ==
  ASSUME Typed, History, Events, NEW k \in Kinds, NEW id \in Ids, NEW table, NEW event,
         Change(k, id, table, event), Commit(k, table, event)
  PROVE  Events'
<1>1. /\ Now' = Now + 1 /\ pubs' = pubs \cup {event}
      /\ \A l \in Kinds \ {k} : Known(l)' = Known(l)
      /\ Known(k) \subseteq Known(k)' /\ event.row \in Known(k)'
  BY ChangeIs
<1>2. event.kind = k /\ event.ver = Now + 1 /\ Now \in Nat
  BY Moments, EventFields DEF Change
<1>3. \A p \in pubs : p.kind \in Kinds /\ p.ver <= Now /\ p.ver \in Nat /\ p.row \in Known(p.kind)
  BY EventFields DEF Typed, Events
<1>4. ASSUME NEW p \in pubs' PROVE p.ver <= Now + 1 /\ p.row \in Known(p.kind)'
  <2>1. CASE p = event
    BY <1>1, <1>2, <2>1
  <2>2. CASE p \in pubs
    <3>1. p.ver <= Now + 1
      BY <1>2, <1>3, <2>2
    <3>2. \A l \in Kinds : \A r \in Known(l) : r \in Known(l)'
      BY <1>1
    <3>3. \A l : p.kind = l => p.row \in Known(l)'
      BY <1>3, <2>2, <3>2
    <3>. QED
      BY <3>1, <3>3
  <2>. QED
    BY <1>1, <2>1, <2>2
<1>5. ASSUME NEW p \in pubs', NEW q \in pubs', p.ver = q.ver PROVE p = q
  <2>1. \A x \in pubs : x.ver # event.ver
    BY <1>2, <1>3
  <2>. QED
    BY <1>1, <1>5, <2>1 DEF Events
<1>. QED
  BY <1>1, <1>4, <1>5 DEF Events

-----------------------------------------------------------------------------
(* The lists a view and an event make.                                     *)

\* Rows of one kind with no id twice.
Single(k, S) ==
  S \subseteq Known(k) /\ \A r, s \in S : r.id = s.id => r = s

LEMMA KnownRows ==
  ASSUME Typed, History, NEW k \in Kinds, NEW r \in Known(k)
  PROVE  r \in Rows /\ r.id \in Nat /\ r.at \in Nat /\ r.ver \in Nat /\ r.at <= Now
<1>1. PICK v \in 0..Now : r \in Table(k, v)
  BY DEF Known
<1>2. r \in Rows /\ r.at <= v /\ v <= Now /\ v \in Nat /\ Now \in Nat
  BY <1>1, Moments DEF History
<1>3. r.id \in Nat /\ r.at \in Nat /\ r.ver \in Nat
  BY <1>2, RowFields
<1>. QED
  BY <1>2, <1>3

LEMMA SortedOrdered ==
  ASSUME Typed, History, NEW k \in Kinds, NEW S, Single(k, S), IsFiniteSet(S),
         NEW s, s = limitSortedItems(k, S)
  PROVE  s \in Seq(Rows) /\ Ordered(k, s)
<1>1. S \in SUBSET Rows
  BY KnownRows DEF Single
<1>2. /\ s \in Seq(Rows) /\ ToSet(s) \subseteq S
      /\ \A i, j \in DOMAIN s : i < j => Comes(k, s[i], s[j])
      /\ k # "candidates" => Len(s) <= Limit
  BY <1>1, SortedIs
<1>3. \A i \in DOMAIN s : s[i] \in S
  BY <1>2 DEF ToSet
<1>4. ASSUME NEW a \in S, NEW b \in S, Comes(k, a, b)
      PROVE  a.id # b.id /\ Before(k, a, b)
  <2>1. /\ a \in Known(k) /\ b \in Known(k)
        /\ a.id \in Nat /\ a.at \in Nat /\ a.ver \in Nat
        /\ b.id \in Nat /\ b.at \in Nat /\ b.ver \in Nat
    BY KnownRows DEF Single
  <2>2. a # b
    BY <1>4, <2>1 DEF Comes, Before
  <2>3. a.id # b.id
    BY <2>2 DEF Single
  <2>4. a.at # b.at
    BY <2>1, <2>3 DEF History
  <2>5. Before(k, a, b)
    BY <1>4, <2>1, <2>3, <2>4 DEF Comes, Before
  <2>. QED
    BY <2>3, <2>5
<1>5. \A i, j \in DOMAIN s : i < j => s[i].id # s[j].id /\ Before(k, s[i], s[j])
  BY <1>2, <1>3, <1>4
<1>6. ToSet(s) \subseteq Known(k)
  BY <1>2 DEF Single
<1>. QED
  BY <1>2, <1>5, <1>6 DEF Ordered

LEMMA RemoveOrdered ==
  ASSUME NEW k, NEW list \in Seq(Rows), Ordered(k, list), NEW id, NEW s, s = remove(list, id)
  PROVE  s \in Seq(Rows) /\ Ordered(k, s)
<1>1. /\ s \in Seq(Rows) /\ Len(s) <= Len(list)
      /\ ToSet(s) = {r \in ToSet(list) : r.id # id}
      /\ \A i, j \in DOMAIN s : i < j =>
           \E a, b \in DOMAIN list : a < b /\ s[i] = list[a] /\ s[j] = list[b]
  BY RemoveIs
<1>2. \A i, j \in DOMAIN s : i < j => s[i].id # s[j].id /\ Before(k, s[i], s[j])
  BY <1>1 DEF Ordered
<1>3. k # "candidates" => Len(s) <= Limit
  <2>1. Len(s) \in Nat /\ Len(list) \in Nat
    BY <1>1
  <2>. QED
    BY <1>1, <2>1, Numbers DEF Ordered
<1>4. ToSet(s) \subseteq Known(k)
  BY <1>1 DEF Ordered
<1>. QED
  BY <1>1, <1>2, <1>3, <1>4 DEF Ordered

\* The rows a filter passes.
Passing(k, mode, v) == {row \in Table(k, v) : matchesTradeMode(k, row.id, mode)}

LEMMA PassingSingle ==
  ASSUME Typed, History, NEW k \in Kinds, NEW mode, NEW v \in 0..Now
  PROVE  Single(k, Passing(k, mode, v)) /\ IsFiniteSet(Passing(k, mode, v))
<1>1. IsFiniteSet(Passing(k, mode, v))
  BY Moments, FS_Subset DEF Passing
<1>2. Passing(k, mode, v) \subseteq Known(k)
  BY DEF Passing, Known
<1>3. \A r, s \in Passing(k, mode, v) : r.id = s.id => r = s
  BY DEF Passing, History
<1>. QED
  BY <1>1, <1>2, <1>3 DEF Single

LEMMA ViewOrdered ==
  ASSUME Typed, History, NEW k \in Kinds, NEW mode, NEW v \in 0..Now
  PROVE  View(k, mode, v) \in Seq(Rows) /\ Ordered(k, View(k, mode, v))
BY PassingSingle, SortedOrdered DEF View, Passing

LEMMA ListSingle ==
  ASSUME NEW k, NEW list \in Seq(Rows), Ordered(k, list)
  PROVE  Single(k, ToSet(list)) /\ IsFiniteSet(ToSet(list))
<1>1. ASSUME NEW r \in ToSet(list), NEW s \in ToSet(list), r.id = s.id PROVE r = s
  <2>1. PICK i \in DOMAIN list, j \in DOMAIN list : r = list[i] /\ s = list[j]
    BY DEF ToSet
  <2>2. i \in Nat /\ j \in Nat
    OBVIOUS
  <2>3. ~(i < j) /\ ~(j < i)
    BY <1>1, <2>1 DEF Ordered
  <2>. QED
    BY <2>1, <2>2, <2>3
<1>2. IsFiniteSet(ToSet(list))
  <2>1. IsFiniteSet(1..Len(list)) /\ DOMAIN list = 1..Len(list)
    BY FS_Interval
  <2>2. list \in Surjection(1..Len(list), ToSet(list))
    BY <2>1 DEF ToSet, Surjection
  <2>. QED
    BY <2>1, <2>2, FS_Surjection
<1>. QED
  BY <1>1, <1>2 DEF Single, Ordered

LEMMA UpsertSingle ==
  ASSUME NEW k, NEW S, Single(k, S), IsFiniteSet(S), NEW row \in Known(k)
  PROVE  /\ Single(k, Without(S, row.id) \cup {row})
         /\ IsFiniteSet(Without(S, row.id) \cup {row})
<1>1. IsFiniteSet(Without(S, row.id))
  BY FS_Subset DEF Without
<1>2. IsFiniteSet(Without(S, row.id) \cup {row})
  BY <1>1, FS_AddElement
<1>. QED
  BY <1>2 DEF Single, Without

-----------------------------------------------------------------------------
(* What the limit cuts.                                                    *)

\* Each row of M has a version in N that is as young.
Younger(M, N) == \A y \in M : \E u \in N : u.id = y.id /\ y.at <= u.at

\* A row that is on the page of N is on the page of M, whose rows are older.
LEMMA CutKeeps ==
  ASSUME Typed, History, NEW k \in Kinds,
         NEW M, Single(k, M), IsFiniteSet(M), NEW N, N \subseteq Rows, IsFiniteSet(N),
         k # "candidates" => Younger(M, N),
         NEW t \in M, t \in N, t \in ToSet(limitSortedItems(k, N))
  PROVE  t \in ToSet(limitSortedItems(k, M))
<1>1. M \in SUBSET Rows /\ N \in SUBSET Rows
  BY KnownRows DEF Single
<1>2. CASE k = "candidates"
  BY <1>1, <1>2, SortedIs
<1>3. CASE k # "candidates"
  <2>1. Place(k, N, t) < Limit
    BY <1>1, <1>3, SortedIs
  <2> DEFINE A == {y \in M : Comes(k, y, t)}
             B == {u \in N : Comes(k, u, t)}
             f == [y \in A |-> CHOOSE u \in N : u.id = y.id /\ y.at <= u.at]
  <2>2. \A y \in M : y \in Rows /\ y.id \in Nat /\ y.at \in Nat /\ y.ver \in Nat
    BY <1>1, RowFields
  <2>3. \A u \in N : u.id \in Nat /\ u.at \in Nat /\ u.ver \in Nat
    BY <1>1, RowFields
  <2>4. \A y \in A : y.at > t.at
    <3> SUFFICES ASSUME NEW y \in A PROVE y.at > t.at
      OBVIOUS
    <3>1. y \in M /\ Comes(k, y, t)
      OBVIOUS
    <3>2. y.id = t.id => y = t
      BY <3>1 DEF Single
    <3>3. y.at = t.at => y.id = t.id
      BY <3>1 DEF Single, History
    <3>4. y # t
      BY <2>2, <3>1 DEF Comes, Before
    <3>5. y.at # t.at
      BY <3>2, <3>3, <3>4
    <3>6. y.at \in Nat /\ t.at \in Nat
      BY <2>2, <3>1
    <3>. QED
      BY <1>3, <3>1, <3>5, <3>6 DEF Comes, Before
  <2>5. \A y \in A : f[y] \in N /\ f[y].id = y.id /\ y.at <= f[y].at
    BY <1>3 DEF Younger
  <2>6. \A y \in A : f[y] \in B
    <3> SUFFICES ASSUME NEW y \in A PROVE f[y] \in B
      OBVIOUS
    <3>1. f[y] \in N /\ y.at <= f[y].at /\ y.at > t.at
      BY <2>4, <2>5
    <3>2. f[y].at > t.at
      <4> HIDE DEF f
      <4>. QED
        BY <2>2, <2>3, <3>1
    <3>. QED
      BY <1>3, <3>1, <3>2 DEF Comes, Before
  <2>7. \A y, z \in A : f[y] = f[z] => y = z
    <3> SUFFICES ASSUME NEW y \in A, NEW z \in A, f[y] = f[z] PROVE y = z
      OBVIOUS
    <3>1. y.id = z.id
      BY <2>5
    <3>. QED
      BY <3>1 DEF Single
  <2>8. f \in Injection(A, B)
    <3>1. f \in [A -> B]
      BY <2>6
    <3>. QED
      BY <2>7, <3>1 DEF Injection, IsInjective
  <2>9. IsFiniteSet(A) /\ IsFiniteSet(B)
    BY FS_Subset
  <2>10. Cardinality(A) <= Cardinality(B) /\ Cardinality(A) \in Nat /\ Cardinality(B) \in Nat
    <3> HIDE DEF f, A, B
    <3>. QED
      BY <2>8, <2>9, FS_Injection, FS_CardinalityType
  <2>11. Place(k, M, t) <= Place(k, N, t) /\ Place(k, M, t) \in Nat /\ Place(k, N, t) \in Nat
    BY <2>10 DEF Place
  <2>12. Place(k, M, t) < Limit
    BY <2>1, <2>11, Numbers
  <2>. QED
    BY <1>1, <1>3, <2>12, SortedIs
<1>. QED
  BY <1>2, <1>3

\* The rows of a trade list are older than those of its table.
LEMMA TableYounger ==
  ASSUME History, NEW k \in Kinds, k # "candidates", NEW mode, NEW M \in SUBSET Known(k),
         \A y \in M : matchesTradeMode(k, y.id, mode)
  PROVE  Younger(M, Passing(k, mode, Now))
<1> SUFFICES ASSUME NEW y \in M
             PROVE  \E u \in Passing(k, mode, Now) : u.id = y.id /\ y.at <= u.at
  BY DEF Younger
<1>1. PICK u \in Table(k, Now) : u.id = y.id /\ y.at <= u.at
  BY DEF History
<1>2. matchesTradeMode(k, u.id, mode)
  BY <1>1
<1>. QED
  BY <1>1, <1>2 DEF Passing

LEMMA ViewIs ==
  ASSUME Typed, History, NEW k \in Kinds, NEW mode, NEW v \in 0..Now
  PROVE  /\ View(k, mode, v) = limitSortedItems(k, Passing(k, mode, v))
         /\ Passing(k, mode, v) \subseteq Rows
         /\ ToSet(View(k, mode, v)) \subseteq Passing(k, mode, v)
<1>1. View(k, mode, v) = limitSortedItems(k, Passing(k, mode, v))
  BY DEF View, Passing
<1>2. Passing(k, mode, v) \subseteq Rows /\ IsFiniteSet(Passing(k, mode, v))
  BY Moments, PassingSingle DEF Passing
<1>3. Passing(k, mode, v) \in SUBSET Rows
  BY <1>2
<1>. QED
  BY <1>1, <1>2, <1>3, SortedIs

-----------------------------------------------------------------------------
(* A list stays right.                                                     *)

\* The lists of a moment that the events still to come cover.
LEMMA ViewRight ==
  ASSUME Typed, History, NEW k \in Kinds, NEW mode, NEW events, NEW v \in 0..Now,
         Covers(k, events, v)
  PROVE  Right(k, ToSet(View(k, mode, v)), mode, events)
<1> DEFINE M == Passing(k, mode, v)
           N == Passing(k, mode, Now)
<1>0. Now \in 0..Now
  BY Moments
<1>1. /\ View(k, mode, v) = limitSortedItems(k, M) /\ M \subseteq Rows
      /\ ToSet(View(k, mode, v)) \subseteq M
      /\ Single(k, M) /\ IsFiniteSet(M)
  BY ViewIs, PassingSingle
<1>2. /\ View(k, mode, Now) = limitSortedItems(k, N) /\ N \subseteq Rows
      /\ ToSet(View(k, mode, Now)) \subseteq N
      /\ Single(k, N) /\ IsFiniteSet(N)
  BY <1>0, ViewIs, PassingSingle
<1>3. ASSUME NEW r \in Rows, \A e \in events : e.row.id # r.id
      PROVE  r \in Table(k, v) <=> r \in Table(k, Now)
  <2>1. r.id \in Ids
    BY RowFields
  <2>2. RowsOf(k, r.id, v) = RowsOf(k, r.id, Now)
    BY <1>3, <2>1 DEF Covers
  <2>. QED
    BY <2>2 DEF RowsOf
<1>4. ASSUME NEW r \in ToSet(View(k, mode, v))
      PROVE  /\ matchesTradeMode(k, r.id, mode)
             /\ (\A e \in events : e.row.id # r.id) => r \in Table(k, Now)
  BY <1>1, <1>3 DEF Passing
<1>5. ASSUME NEW t \in ToSet(View(k, mode, Now)), \A e \in events : e.row.id # t.id
      PROVE  t \in ToSet(View(k, mode, v))
  <2>1. t \in N /\ t \in Rows
    BY <1>2
  <2>2. t \in M
    BY <1>3, <1>5, <2>1 DEF Passing
  <2>3. k # "candidates" => Younger(M, N)
    BY <1>1, TableYounger DEF Single, Passing
  <2> HIDE DEF M, N
  <2>. QED
    BY <1>1, <1>2, <2>1, <2>2, <2>3, CutKeeps
<1>. QED
  BY <1>4, <1>5 DEF Right

\* A row replaces its older version in a list.
LEMMA UpsertRight ==
  ASSUME Typed, History, NEW k \in Kinds, NEW mode,
         NEW list \in Seq(Rows), Ordered(k, list), NEW row \in Known(k),
         NEW events, NEW fewer,
         Right(k, ToSet(list), mode, events),
         matchesTradeMode(k, row.id, mode),
         \A e \in events : e \in fewer \/ e.row.id = row.id,
         (\A e \in fewer : e.row.id # row.id) => RowsOf(k, row.id, Now) = {row}
  PROVE  Right(k, ToSet(upsertSorted(k, list, row)), mode, fewer)
<1> DEFINE S == Without(ToSet(list), row.id) \cup {row}
           N == Passing(k, mode, Now)
<1>0. Now \in 0..Now
  BY Moments
<1>1. Single(k, S) /\ IsFiniteSet(S)
  BY ListSingle, UpsertSingle
<1>2. upsertSorted(k, list, row) = limitSortedItems(k, S)
  BY DEF upsertSorted
<1>3. S \in SUBSET Rows /\ S \subseteq Known(k)
  BY <1>1, KnownRows DEF Single
<1>4. ToSet(limitSortedItems(k, S)) \subseteq S
  <2> HIDE DEF S
  <2>. QED
    BY <1>1, <1>3, SortedIs
<1>5. /\ View(k, mode, Now) = limitSortedItems(k, N) /\ N \subseteq Rows
      /\ ToSet(View(k, mode, Now)) \subseteq N /\ IsFiniteSet(N)
  BY <1>0, ViewIs, PassingSingle
<1>6. \A r \in S : matchesTradeMode(k, r.id, mode)
  BY DEF Right, Without
<1>7. ASSUME NEW r \in S, \A e \in fewer : e.row.id # r.id PROVE r \in Table(k, Now)
  <2>1. CASE r = row
    BY <1>7, <2>1 DEF RowsOf
  <2>2. CASE r \in ToSet(list) /\ r.id # row.id
    <3>1. \A e \in events : e.row.id # r.id
      BY <1>7, <2>2
    <3>. QED
      BY <2>2, <3>1 DEF Right
  <2>. QED
    BY <2>1, <2>2 DEF Without
<1>8. ASSUME NEW t \in ToSet(View(k, mode, Now)), \A e \in fewer : e.row.id # t.id
      PROVE  t \in ToSet(limitSortedItems(k, S))
  <2>1. t \in N
    BY <1>5
  <2>2. t \in S
    <3>1. CASE t.id = row.id
      <4>1. t \in RowsOf(k, row.id, Now)
        BY <2>1, <3>1 DEF RowsOf, Passing
      <4>. QED
        BY <1>8, <3>1, <4>1
    <3>2. CASE t.id # row.id
      <4>1. \A e \in events : e.row.id # t.id
        BY <1>8, <3>2
      <4>2. t \in ToSet(list)
        BY <4>1 DEF Right
      <4>. QED
        BY <3>2, <4>2 DEF Without
    <3>. QED
      BY <3>1, <3>2
  <2>3. k # "candidates" => Younger(S, N)
    <3> HIDE DEF S
    <3>. QED
      BY <1>3, <1>6, TableYounger
  <2> HIDE DEF S, N
  <2>. QED
    BY <1>1, <1>5, <1>8, <2>1, <2>2, <2>3, CutKeeps
<1>9. \A r \in ToSet(limitSortedItems(k, S)) :
        /\ matchesTradeMode(k, r.id, mode)
        /\ (\A e \in fewer : e.row.id # r.id) => r \in Table(k, Now)
  <2> HIDE DEF S
  <2>. QED
    BY <1>4, <1>6, <1>7
<1> HIDE DEF S
<1>. QED
  BY <1>2, <1>8, <1>9 DEF Right

\* A row is taken out of a list.
LEMMA RemoveRight ==
  ASSUME Typed, History, NEW k \in Kinds, NEW mode,
         NEW list \in Seq(Rows), NEW id, NEW events, NEW fewer,
         Right(k, ToSet(list), mode, events),
         \A e \in events : e \in fewer \/ e.row.id = id,
         (\A e \in fewer : e.row.id # id) => RowsOf(k, id, Now) = {}
  PROVE  Right(k, ToSet(remove(list, id)), mode, fewer)
<1>0. Now \in 0..Now
  BY Moments
<1>1. ToSet(remove(list, id)) = {r \in ToSet(list) : r.id # id}
  BY RemoveIs
<1>2. ToSet(View(k, mode, Now)) \subseteq Table(k, Now)
  BY <1>0, ViewIs DEF Passing
<1>3. ASSUME NEW t \in ToSet(View(k, mode, Now)), \A e \in fewer : e.row.id # t.id
      PROVE  t \in ToSet(list) /\ t.id # id
  <2>1. t.id # id
    BY <1>2, <1>3 DEF RowsOf
  <2>2. \A e \in events : e.row.id # t.id
    BY <1>3, <2>1
  <2>. QED
    BY <2>1, <2>2 DEF Right
<1>4. ASSUME NEW r \in ToSet(list), r.id # id
      PROVE  /\ matchesTradeMode(k, r.id, mode)
             /\ (\A e \in fewer : e.row.id # r.id) => r \in Table(k, Now)
  BY <1>4 DEF Right
<1>. QED
  BY <1>1, <1>3, <1>4 DEF Right

-----------------------------------------------------------------------------
(* Steps that leave the tables alone.                                      *)

LEMMA Still ==
  ASSUME UNCHANGED history
  PROVE  /\ Now' = Now
         /\ \A k, v : Table(k, v)' = Table(k, v)
         /\ \A k : Table(k, Now)' = Table(k, Now)
         /\ \A k, i, v : RowsOf(k, i, v)' = RowsOf(k, i, v)
         /\ \A k : Known(k)' = Known(k)
         /\ \A k, events : LastTells(k, events)' <=> LastTells(k, events)
         /\ \A k, events, v : Covers(k, events, v)' <=> Covers(k, events, v)
         /\ \A k, list : Ordered(k, list)' <=> Ordered(k, list)
         /\ \A k, rows, mode, events :
              Right(k, rows, mode, events)' <=> Right(k, rows, mode, events)
<1>1. Now' = Now
  BY DEF Now
<1>2. \A k, v : Table(k, v)' = Table(k, v)
  BY DEF Table
<1>3. \A k : Table(k, Now)' = Table(k, Now)
  BY DEF Table, Now
<1>4. \A k, i, v : RowsOf(k, i, v)' = RowsOf(k, i, v)
  BY <1>2 DEF RowsOf
<1>5. \A k, i : RowsOf(k, i, Now)' = RowsOf(k, i, Now)
  BY <1>3 DEF RowsOf
<1>6. \A k : Known(k)' = Known(k)
  BY DEF Known, Table, Now
<1>7. \A k, events : LastTells(k, events)' <=> LastTells(k, events)
  BY DEF LastTells, RowsOf, Table, Now
<1>8. \A k, events, v : Covers(k, events, v)' <=> Covers(k, events, v)
  BY DEF Covers, RowsOf, Table, Now
<1>9. \A k, list : Ordered(k, list)' <=> Ordered(k, list)
  BY <1>6 DEF Ordered
<1>10. \A k, mode : View(k, mode, Now)' = View(k, mode, Now)
  BY DEF View, Table, Now
<1>11. \A k, rows, mode, events : Right(k, rows, mode, events)' <=> Right(k, rows, mode, events)
  BY <1>3, <1>10 DEF Right
<1>. QED
  BY <1>1, <1>2, <1>3, <1>4, <1>6, <1>7, <1>8, <1>9, <1>11

\* A stream and a list that the step does not touch.
LEMMA Quiet ==
  ASSUME UNCHANGED history, NEW k, Showing(k),
         lists'[k] = lists[k], sources'[k] = sources[k], Unpublished(k)' = Unpublished(k)
  PROVE  Showing(k)'
<1>1. Pending(k)' = Pending(k) /\ Queued(k)' = Queued(k)
  BY DEF Pending, Queued
<1>2. /\ LastTells(k, Unpublished(k))' /\ Ordered(k, lists[k])'
  BY Still DEF Showing
<1>3. Base(k)' = Base(k) /\ (Subscribed(k)' <=> Subscribed(k))
  BY DEF Base, Subscribed
<1>4. Stream(k)'
  BY <1>1, <1>3, Still DEF Showing, Stream
<1>5. Shown(k)'
  BY <1>1, Still DEF Showing, Shown
<1>. QED
  BY <1>2, <1>4, <1>5 DEF Showing

\* The first of several events is taken away.
LEMMA FirstGone ==
  ASSUME NEW k, NEW events, NEW fewer \in SUBSET events, LastTells(k, events),
         NEW p, \A e \in events : e \in fewer \/ e = p,
         \A e \in fewer : p.ver <= e.ver
  PROVE  LastTells(k, fewer)
<1> SUFFICES ASSUME NEW e \in fewer, \A f \in fewer : f.row.id = e.row.id => f.ver <= e.ver
             PROVE  RowsOf(k, e.row.id, Now) = IF e.type = "upsert" THEN {e.row} ELSE {}
  BY DEF LastTells
<1>1. \A f \in events : f.row.id = e.row.id => f.ver <= e.ver
  OBVIOUS
<1>. QED
  BY <1>1 DEF LastTells

LEMMA FirstCovered ==
  ASSUME NEW k, NEW events, NEW fewer \in SUBSET events, NEW v, Covers(k, events, v),
         NEW p, \A e \in events : e \in fewer \/ e = p, p.ver <= v
  PROVE  Covers(k, fewer, v)
BY DEF Covers

\* An event joins the end of the queue of a stream, or is lost.
LEMMA PublishShows ==
  ASSUME Typed, Events, StreamsShow, NEW p \in pubs, Publish(p)
  PROVE  StreamsShow'
<1> DEFINE k == p.kind
<1>1. /\ k \in Kinds /\ p \in Event(k) /\ p.ver \in Nat /\ p.ver <= Now /\ p.row \in Known(k)
  BY EventFields DEF Typed, Events
<1>2. /\ pubs' = pubs \ {p} /\ UNCHANGED history /\ UNCHANGED lists
      /\ \A q \in pubs : q.kind = k => p.ver <= q.ver
  BY DEF Publish
<1>3. \A l \in Kinds : l # k => Unpublished(l)' = Unpublished(l)
  BY <1>2 DEF Unpublished
<1>4. Unpublished(k)' = Unpublished(k) \ {p} /\ p \in Unpublished(k)
  BY <1>2 DEF Unpublished
<1>5. \A q \in Unpublished(k)' : p.ver < q.ver
  <2> SUFFICES ASSUME NEW q \in Unpublished(k)' PROVE p.ver < q.ver
    OBVIOUS
  <2>1. q \in pubs /\ q.kind = k /\ q # p
    BY <1>4 DEF Unpublished
  <2>2. q.ver \in Nat /\ p.ver <= q.ver
    BY <1>2, <2>1, EventFields DEF Typed
  <2>3. q.ver # p.ver
    BY <2>1 DEF Events
  <2>. QED
    BY <1>1, <2>2, <2>3
<1>6. \A l \in Kinds : l # k => sources'[l] = sources[l]
  BY DEF Publish, Typed
<1>7. \A l \in Kinds : l # k => Showing(l)'
  BY <1>2, <1>3, <1>6, Quiet DEF StreamsShow
<1>8. /\ LastTells(k, Unpublished(k)) /\ Ordered(k, lists[k]) /\ Stream(k) /\ Shown(k)
  BY <1>1 DEF StreamsShow, Showing
<1>9. LastTells(k, Unpublished(k))' /\ Ordered(k, lists[k])'
  <2>1. LastTells(k, Unpublished(k)')
    <3>1. \A e \in Unpublished(k)' : p.ver <= e.ver
      <4>1. \A e \in Unpublished(k)' : e.ver \in Nat
        BY <1>4, EventFields DEF Unpublished, Typed
      <4>. QED
        BY <1>1, <1>5, <4>1
    <3>2. Unpublished(k)' \in SUBSET Unpublished(k)
      BY <1>4
    <3>3. \A e \in Unpublished(k) : e \in Unpublished(k)' \/ e = p
      BY <1>4
    <3>. QED
      BY <1>8, <3>1, <3>2, <3>3, FirstGone
  <2>. QED
    BY <1>2, <1>8, <2>1, Still
<1>10. CASE ~Subscribed(k)
  <2>1. sources' = sources
    BY <1>10 DEF Publish
  <2>2. Stream(k)'
    BY <1>8, <1>10, <2>1 DEF Stream, Subscribed
  <2>3. Shown(k)'
    BY <1>10, <2>1 DEF Shown, Subscribed
  <2>. QED
    BY <1>7, <1>9, <2>2, <2>3 DEF StreamsShow, Showing
<1>11. CASE Subscribed(k) /\ Len(sources[k].queue) < QueueSize
  <2>1. sources[k] \in OpenSources(k)
    BY <1>1, <1>11 DEF Typed, Subscribed, NoSource
  <2>2. sources[k].queue \in Seq(Event(k))
    BY <2>1 DEF OpenSources
  <2>3. sources'[k] = [sources[k] EXCEPT !.queue = Append(sources[k].queue, p)]
    BY <1>1, <1>11 DEF Publish, Typed
  <2>4. /\ sources'[k].phase = sources[k].phase /\ sources'[k].from = sources[k].from
        /\ sources'[k].seen = sources[k].seen /\ sources'[k].missed = sources[k].missed
        /\ sources'[k].stale = sources[k].stale /\ sources'[k].mode = sources[k].mode
        /\ sources'[k].queue = Append(sources[k].queue, p)
    BY <2>1, <2>3 DEF OpenSources
  <2> DEFINE q == sources[k].queue
             r == Append(q, p)
  <2>5. /\ DOMAIN q = 1..Len(q) /\ DOMAIN r = 1..(Len(q) + 1) /\ Len(q) \in Nat
        /\ \A i \in DOMAIN q : r[i] = q[i] /\ i \in DOMAIN r
        /\ r[Len(q) + 1] = p
        /\ \A i \in DOMAIN r : i \in DOMAIN q \/ i = Len(q) + 1
    BY <1>1, <2>2
  <2>6. ToSet(r) = ToSet(q) \cup {p}
    <3> HIDE DEF q, r
    <3>1. \A x \in ToSet(r) : x \in ToSet(q) \/ x = p
      BY <2>5 DEF ToSet
    <3>2. \A x \in ToSet(q) : x \in ToSet(r)
      BY <2>5 DEF ToSet
    <3>3. p \in ToSet(r)
      <4>1. Len(q) + 1 \in DOMAIN r
        BY <2>5
      <4>. QED
        BY <2>5, <4>1 DEF ToSet
    <3>. QED
      BY <3>1, <3>2, <3>3
  <2>7. Queued(k)' = Queued(k) \cup {p} /\ Queued(k) = ToSet(q)
    BY <2>4, <2>6 DEF Queued
  <2>8. Pending(k)' = Pending(k)
    BY <1>4, <2>7 DEF Pending
  <2>9. \A i, j \in DOMAIN r : i < j => r[i].ver < r[j].ver
    <3> SUFFICES ASSUME NEW i \in DOMAIN r, NEW j \in DOMAIN r, i < j
                 PROVE  r[i].ver < r[j].ver
      OBVIOUS
    <3>1. i \in DOMAIN q
      <4> HIDE DEF q, r
      <4>. QED
        BY <2>5
    <3>2. CASE j \in DOMAIN q
      BY <1>8, <1>11, <2>5, <3>1, <3>2 DEF Stream
    <3>3. CASE j = Len(q) + 1
      <4>1. q[i] \in Queued(k)
        BY <2>7, <3>1 DEF ToSet
      <4>2. q[i].ver < p.ver
        BY <1>4, <1>8, <1>11, <4>1 DEF Stream
      <4>. QED
        BY <2>5, <3>1, <3>3, <4>2
    <3>. QED
      BY <2>5, <3>2, <3>3
  <2>10. \A e \in Queued(k)' : /\ e.ver <= Now /\ e.row \in Known(k)
                               /\ \A x \in Unpublished(k)' : e.ver < x.ver
    BY <1>1, <1>4, <1>5, <1>8, <1>11, <2>7 DEF Stream
  <2>11. Base(k)' = Base(k)
    BY <2>4 DEF Base
  <2>12. Stream(k)'
    <3>1. sources'[k].phase # "connecting"
      BY <1>11, <2>4 DEF Subscribed
    <3>2. Base(k) <= Now /\ (~sources[k].missed =>
            /\ LastTells(k, Pending(k))
            /\ \A v \in Base(k)..Now : Covers(k, Pending(k), v))
      BY <1>8, <1>11 DEF Stream
    <3>3. ~sources'[k].missed =>
            /\ LastTells(k, Pending(k))'
            /\ \A v \in Base(k)..Now : Covers(k, Pending(k), v)'
      BY <1>2, <2>4, <2>8, <3>2, Still
    <3>4. /\ Now' = Now /\ Known(k)' = Known(k)
      BY <1>2, Still
    <3>5. \A i, j \in DOMAIN sources'[k].queue : i < j =>
            sources'[k].queue[i].ver < sources'[k].queue[j].ver
      BY <2>4, <2>9
    <3>. QED
      BY <3>1, <3>2, <3>3, <3>4, <3>5, <2>10, <2>11 DEF Stream
  <2>13. Shown(k)'
    BY <1>2, <1>8, <2>4, <2>8, Still DEF Shown
  <2>. QED
    BY <1>7, <1>9, <2>12, <2>13 DEF StreamsShow, Showing
<1>12. CASE Subscribed(k) /\ ~(Len(sources[k].queue) < QueueSize)
  <2>1. sources[k] \in OpenSources(k)
    BY <1>1, <1>12 DEF Typed, Subscribed, NoSource
  <2>2. sources'[k] = [sources[k] EXCEPT !.missed = TRUE]
    BY <1>1, <1>12 DEF Publish, Typed
  <2>3. /\ sources'[k].phase = sources[k].phase /\ sources'[k].from = sources[k].from
        /\ sources'[k].seen = sources[k].seen /\ sources'[k].missed
        /\ sources'[k].queue = sources[k].queue
    BY <2>1, <2>2 DEF OpenSources
  <2>4. Stream(k)'
    <3>1. Base(k)' = Base(k) /\ Queued(k)' = Queued(k) /\ Now' = Now /\ Known(k)' = Known(k)
      BY <1>2, <2>3, Still DEF Base, Queued
    <3>2. \A e \in Queued(k) : /\ e.ver <= Now /\ e.row \in Known(k)
                               /\ \A x \in Unpublished(k)' : e.ver < x.ver
      BY <1>4, <1>8, <1>12 DEF Stream
    <3>. QED
      BY <1>8, <1>12, <2>3, <3>1, <3>2 DEF Stream, Subscribed
  <2>5. Shown(k)'
    BY <2>3 DEF Shown
  <2>. QED
    BY <1>7, <1>9, <2>4, <2>5 DEF StreamsShow, Showing
<1>. QED
  BY <1>10, <1>11, <1>12

\* A stream that waits or is closed shows nothing.
LEMMA IdleShows ==
  ASSUME UNCHANGED history, UNCHANGED pubs, NEW k, LastTells(k, Unpublished(k)),
         sources'[k].phase \notin {"open", "live"},
         sources'[k].phase = "connecting" => sources'[k].queue = <<>>,
         NEW list, lists'[k] = list, Ordered(k, list)
  PROVE  Showing(k)'
<1>1. Unpublished(k)' = Unpublished(k)
  BY DEF Unpublished
<1>2. LastTells(k, Unpublished(k))' /\ Ordered(k, lists[k])'
  BY <1>1, Still
<1>3. Stream(k)' /\ Shown(k)'
  BY DEF Stream, Shown, Subscribed
<1>. QED
  BY <1>2, <1>3 DEF Showing

\* The stream listens to the broker from now on.
LEMMA SubscribeShows ==
  ASSUME Typed, StreamsShow, NEW k \in Kinds, Subscribe(k)
  PROVE  StreamsShow'
<1>1. UNCHANGED history /\ UNCHANGED pubs /\ UNCHANGED lists
  BY DEF Subscribe
<1>2. \A l \in Kinds : Unpublished(l)' = Unpublished(l)
  BY <1>1 DEF Unpublished
<1>3. \A l \in Kinds : l # k => sources'[l] = sources[l]
  BY DEF Subscribe, Typed
<1>4. \A l \in Kinds : l # k => Showing(l)'
  BY <1>1, <1>2, <1>3, Quiet DEF StreamsShow
<1>5. LastTells(k, Unpublished(k)) /\ Ordered(k, lists[k]) /\ Stream(k)
  BY DEF StreamsShow, Showing
<1>6. sources[k] \in OpenSources(k) /\ sources[k].phase = "connecting"
  BY DEF Typed, Subscribe, NoSource
<1>7. sources[k].queue = <<>>
  BY <1>5, <1>6 DEF Stream
<1>8. sources'[k] = [[sources[k] EXCEPT !.phase = "open"] EXCEPT !.from = Now]
  BY DEF Typed, Subscribe
<1>9. /\ sources'[k].phase = "open" /\ sources'[k].from = Now /\ sources'[k].queue = <<>>
  BY <1>6, <1>7, <1>8 DEF OpenSources
<1>10. Queued(k)' = {} /\ Pending(k)' = Unpublished(k)
  BY <1>1, <1>9 DEF Queued, Pending, ToSet, Unpublished
<1>11. Now' = Now /\ Now \in Nat /\ Base(k)' = Now
  BY <1>1, <1>9, Still, Moments DEF Base
<1>12. LastTells(k, Unpublished(k))' /\ LastTells(k, Pending(k))' /\ Ordered(k, lists[k])'
  BY <1>1, <1>2, <1>5, <1>10, Still
<1>13. \A v \in Now..Now : Covers(k, Pending(k), v)'
  <2>1. Covers(k, Pending(k)', Now)
    BY DEF Covers
  <2>2. Covers(k, Pending(k), Now)'
    BY <1>1, <1>11, <2>1, Still
  <2>3. \A v : v = Now => Covers(k, Pending(k), v)'
    BY <1>1, <2>1, Still
  <2>. QED
    BY <1>11, <2>3
<1>14. Stream(k)'
  BY <1>9, <1>10, <1>11, <1>12, <1>13 DEF Stream
<1>15. Shown(k)'
  BY <1>9 DEF Shown
<1>. QED
  BY <1>4, <1>12, <1>14, <1>15 DEF StreamsShow, Showing

\* A stream stays as right as it was about a moment that is not behind it.
LEMMA AheadShows ==
  ASSUME UNCHANGED history, UNCHANGED pubs, NEW k, LastTells(k, Unpublished(k)), Stream(k),
         Subscribed(k), Subscribed(k)',
         sources'[k].queue = sources[k].queue, sources'[k].missed = sources[k].missed,
         NEW v \in Nat, Base(k)' = v, Base(k) \in Nat, Base(k) <= v, v <= Now, Now \in Nat,
         NEW list, lists'[k] = list, Ordered(k, list),
         sources'[k].phase = "live" /\ ~sources[k].missed /\ ~sources'[k].stale
           => Right(k, ToSet(list), sources'[k].mode, Pending(k))
  PROVE  Showing(k)'
<1>1. Unpublished(k)' = Unpublished(k) /\ Queued(k)' = Queued(k) /\ Pending(k)' = Pending(k)
  BY DEF Unpublished, Queued, Pending
<1>2. LastTells(k, Unpublished(k))' /\ Ordered(k, lists[k])' /\ Now' = Now /\ Known(k)' = Known(k)
  BY <1>1, Still
<1>3. ~sources'[k].missed =>
        /\ LastTells(k, Pending(k))'
        /\ \A w \in Base(k)'..Now : Covers(k, Pending(k), w)'
  <2>1. \A w \in v..Now : w \in Base(k)..Now
    OBVIOUS
  <2>. QED
    BY <1>1, <2>1, Still DEF Stream
<1>4. Stream(k)'
  BY <1>1, <1>2, <1>3 DEF Stream, Subscribed
<1>5. Shown(k)'
  BY <1>1, Still DEF Shown
<1>. QED
  BY <1>2, <1>4, <1>5 DEF Showing

LEMMA BaseIs ==
  ASSUME Typed, StreamsShow, NEW k \in Kinds, Subscribed(k)
  PROVE  /\ sources[k] \in OpenSources(k) /\ Base(k) \in Nat /\ Base(k) <= Now
         /\ \A e \in Pending(k) : e \in Event(k) /\ e.ver \in Nat
         /\ \A r \in ToSet(lists[k]) : r \in Rows
<1>1. sources[k] \in OpenSources(k)
  BY DEF Typed, Subscribed, NoSource
<1>2. Base(k) \in Nat
  BY <1>1, Numbers DEF OpenSources, Base
<1>3. Base(k) <= Now
  BY DEF StreamsShow, Showing, Stream
<1>4. \A e \in Queued(k) : e \in Event(k)
  BY <1>1 DEF OpenSources, Queued, ToSet
<1>5. \A e \in Unpublished(k) : e \in Event(k)
  BY DEF Unpublished, Typed
<1>6. \A r \in ToSet(lists[k]) : r \in Rows
  BY DEF Typed, ToSet
<1>. QED
  BY <1>1, <1>2, <1>3, <1>4, <1>5, <1>6, EventFields DEF Pending

\* The list is the one of a moment after the subscription.
LEMMA SnapshotShows ==
  ASSUME Typed, History, StreamsShow, NEW k \in Kinds, Snapshot(k)
  PROVE  StreamsShow'
<1>1. UNCHANGED history /\ UNCHANGED pubs
  BY DEF Snapshot
<1>2. \A l \in Kinds : Unpublished(l)' = Unpublished(l)
  BY <1>1 DEF Unpublished
<1>3. sources[k].phase = "open" /\ Subscribed(k)
  BY DEF Snapshot, Subscribed
<1>4. PICK v \in sources[k].from..Now :
        /\ lists' = [lists EXCEPT ![k] = View(k, sources[k].mode, v)]
        /\ sources' = [sources EXCEPT ![k].phase = "live", ![k].seen = v, ![k].stale = FALSE]
  BY DEF Snapshot
<1>5. \A l \in Kinds : l # k => sources'[l] = sources[l] /\ lists'[l] = lists[l]
  BY <1>4 DEF Typed
<1>6. \A l \in Kinds : l # k => Showing(l)'
  BY <1>1, <1>2, <1>5, Quiet DEF StreamsShow
<1>7. LastTells(k, Unpublished(k)) /\ Stream(k)
  BY DEF StreamsShow, Showing
<1>8. sources[k] \in OpenSources(k) /\ Base(k) \in Nat /\ Base(k) = sources[k].from
  BY <1>3, BaseIs DEF Base
<1>9. Now \in Nat /\ v \in Nat /\ v \in 0..Now /\ Base(k) <= v /\ v <= Now /\ v \in Base(k)..Now
  BY <1>8, Moments
<1>10. sources'[k] =
         [[[sources[k] EXCEPT !.phase = "live"] EXCEPT !.seen = v] EXCEPT !.stale = FALSE]
  BY <1>4 DEF Typed
<1>11. /\ sources'[k].phase = "live" /\ sources'[k].seen = v /\ sources'[k].stale = FALSE
       /\ sources'[k].queue = sources[k].queue /\ sources'[k].missed = sources[k].missed
       /\ sources'[k].mode = sources[k].mode
  BY <1>8, <1>10 DEF OpenSources
<1>12. Subscribed(k)' /\ Base(k)' = v
  BY <1>11 DEF Subscribed, Base
<1>13. lists'[k] = View(k, sources[k].mode, v)
  BY <1>4 DEF Typed
<1>14. Ordered(k, View(k, sources[k].mode, v))
  BY <1>9, ViewOrdered
<1>15. ~sources[k].missed =>
         Right(k, ToSet(View(k, sources[k].mode, v)), sources[k].mode, Pending(k))
  BY <1>3, <1>7, <1>9, ViewRight DEF Stream
<1>16. Showing(k)'
  <2> DEFINE list == View(k, sources[k].mode, v)
  <2> HIDE DEF list
  <2>. QED
    BY <1>1, <1>3, <1>7, <1>8, <1>9, <1>11, <1>12, <1>13, <1>14, <1>15, AheadShows DEF list
<1>. QED
  BY <1>6, <1>16 DEF StreamsShow

\* The first event of the queue changes the list, or does not pass the filter.
LEMMA ReceiveShows ==
  ASSUME Typed, History, StreamsShow, NEW k \in Kinds, Receive(k)
  PROVE  StreamsShow'
<1> DEFINE src == sources[k]
           q == src.queue
           event == Head(q)
           row == event.row
<1>1. UNCHANGED history /\ UNCHANGED pubs
  BY DEF Receive
<1>2. \A l \in Kinds : Unpublished(l)' = Unpublished(l)
  BY <1>1 DEF Unpublished
<1>3. src.phase = "live" /\ q # <<>> /\ Subscribed(k)
  BY DEF Receive, Subscribed
<1>4. \A l \in Kinds : l # k => sources'[l] = sources[l] /\ lists'[l] = lists[l]
  BY DEF Receive, Typed
<1>5. \A l \in Kinds : l # k => Showing(l)'
  BY <1>1, <1>2, <1>4, Quiet DEF StreamsShow
<1>6. LastTells(k, Unpublished(k)) /\ Ordered(k, lists[k]) /\ Stream(k) /\ Shown(k)
  BY DEF StreamsShow, Showing
<1>7. /\ src \in OpenSources(k) /\ Base(k) \in Nat /\ Base(k) = src.seen
      /\ \A e \in Pending(k) : e \in Event(k) /\ e.ver \in Nat
  BY <1>3, BaseIs DEF Base
<1>8. /\ q \in Seq(Event(k)) /\ Len(q) \in Nat /\ Len(q) > 0 /\ DOMAIN q = 1..Len(q)
      /\ 1 \in DOMAIN q /\ event = q[1]
      /\ Len(Tail(q)) = Len(q) - 1 /\ DOMAIN Tail(q) = 1..(Len(q) - 1)
      /\ \A i \in 1..(Len(q) - 1) : Tail(q)[i] = q[i + 1]
  <2>1. q \in Seq(Event(k))
    BY <1>7 DEF OpenSources
  <2>. QED
    BY <1>3, <2>1
<1>9. event \in Event(k) /\ event \in Queued(k) /\ row \in Rows /\ event.ver \in Nat
  BY <1>8, EventFields DEF Queued, ToSet
<1>10. \A i, j \in DOMAIN q : i < j => q[i].ver < q[j].ver
  BY <1>3, <1>6 DEF Stream
<1>11. sources'[k] = [[src EXCEPT !.queue = Tail(q)] EXCEPT
                         !.seen = IF event.ver > src.seen THEN event.ver ELSE src.seen]
  BY DEF Receive, Typed
<1>12. /\ sources'[k].queue = Tail(q) /\ sources'[k].phase = "live"
       /\ sources'[k].seen = IF event.ver > src.seen THEN event.ver ELSE src.seen
       /\ sources'[k].mode = src.mode /\ sources'[k].missed = src.missed
       /\ sources'[k].stale = src.stale
  BY <1>3, <1>7, <1>11 DEF OpenSources
<1>13. ToSet(q) = ToSet(Tail(q)) \cup {event}
  <2>1. \A i \in DOMAIN q : i = 1 \/ (i - 1 \in 1..(Len(q) - 1) /\ q[i] = Tail(q)[i - 1])
    <3> HIDE DEF q, event
    <3>. QED
      BY <1>8
  <2>2. \A i \in 1..(Len(q) - 1) : i + 1 \in DOMAIN q /\ Tail(q)[i] = q[i + 1]
    <3> HIDE DEF q, event
    <3>. QED
      BY <1>8
  <2> HIDE DEF q, event
  <2>3. \A x \in ToSet(q) : x \in ToSet(Tail(q)) \/ x = event
    <3> SUFFICES ASSUME NEW i \in DOMAIN q PROVE q[i] \in ToSet(Tail(q)) \/ q[i] = event
      BY DEF ToSet
    <3>1. CASE i = 1
      BY <1>8, <3>1
    <3>2. CASE i # 1
      <4>1. i - 1 \in DOMAIN Tail(q) /\ q[i] = Tail(q)[i - 1]
        BY <1>8, <2>1, <3>2
      <4>. QED
        BY <4>1 DEF ToSet
    <3>. QED
      BY <3>1, <3>2
  <2>4. \A x \in ToSet(Tail(q)) : x \in ToSet(q)
    <3> SUFFICES ASSUME NEW i \in 1..(Len(q) - 1) PROVE Tail(q)[i] \in ToSet(q)
      BY <1>8 DEF ToSet
    <3>. QED
      BY <2>2 DEF ToSet
  <2>5. event \in ToSet(q)
    BY <1>8 DEF ToSet
  <2>. QED
    BY <2>3, <2>4, <2>5
<1>14. \A e \in ToSet(Tail(q)) : event.ver < e.ver
  <2> SUFFICES ASSUME NEW i \in 1..(Len(q) - 1) PROVE event.ver < Tail(q)[i].ver
    BY <1>8 DEF ToSet
  <2>1. i + 1 \in DOMAIN q /\ 1 < i + 1
    <3> HIDE DEF q, event
    <3>. QED
      BY <1>8
  <2>. QED
    BY <1>8, <1>10, <2>1
<1>15. Queued(k)' = ToSet(Tail(q)) /\ Queued(k) = ToSet(q)
  BY <1>12 DEF Queued
<1> HIDE DEF event
<1>16. /\ Pending(k)' \in SUBSET Pending(k)
       /\ \A e \in Pending(k) : e \in Pending(k)' \/ e = event
       /\ \A e \in Pending(k)' : event.ver < e.ver /\ event.ver <= e.ver
       /\ event \in Pending(k)
  <2>1. \A e \in Unpublished(k) : event.ver < e.ver
    BY <1>3, <1>6, <1>9 DEF Stream
  <2>2. Pending(k)' = ToSet(Tail(q)) \cup Unpublished(k)
    BY <1>2, <1>15 DEF Pending
  <2>3. Pending(k) = ToSet(q) \cup Unpublished(k)
    BY <1>15 DEF Pending
  <2>4. \A e \in Pending(k)' : event.ver < e.ver
    BY <1>14, <2>1, <2>2
  <2>5. /\ Pending(k)' \in SUBSET Pending(k) /\ event \in Pending(k)
        /\ \A e \in Pending(k) : e \in Pending(k)' \/ e = event
    BY <1>13, <2>2, <2>3
  <2>6. \A e \in Pending(k)' : event.ver <= e.ver
    <3>1. \A e \in Pending(k)' : e.ver \in Nat
      BY <1>7, <2>5
    <3>. QED
      BY <1>9, <2>4, <3>1
  <2>. QED
    BY <2>4, <2>5, <2>6
<1>17. /\ event.ver <= Now /\ row \in Known(k) /\ Base(k) <= Now /\ Now \in Nat
  BY <1>3, <1>6, <1>9, Moments DEF Stream
<1>18. /\ Base(k)' \in Nat /\ Base(k) <= Base(k)' /\ event.ver <= Base(k)' /\ Base(k)' <= Now
  <2>1. Base(k)' = IF event.ver > src.seen THEN event.ver ELSE src.seen
    BY <1>12 DEF Base
  <2>. QED
    BY <1>7, <1>9, <1>17, <2>1
<1>19. Stream(k)'
  <2>1. ~src.missed => LastTells(k, Pending(k)')
    <3>1. ~src.missed => LastTells(k, Pending(k))
      BY <1>3, <1>6 DEF Stream
    <3>. QED
      BY <1>16, <3>1, FirstGone
  <2>2. ASSUME ~src.missed, NEW w \in Base(k)'..Now PROVE Covers(k, Pending(k)', w)
    <3>1. w \in Base(k)..Now /\ event.ver <= w
      BY <1>7, <1>9, <1>17, <1>18
    <3>2. Covers(k, Pending(k), w)
      BY <1>3, <1>6, <2>2, <3>1 DEF Stream
    <3>. QED
      BY <1>16, <3>1, <3>2, FirstCovered
  <2>3. Now' = Now /\ Known(k)' = Known(k)
    BY <1>1, Still
  <2>4. ~sources'[k].missed =>
            /\ LastTells(k, Pending(k))'
            /\ \A w \in Base(k)'..Now' : Covers(k, Pending(k), w)'
    BY <1>1, <1>12, <2>1, <2>2, <2>3, Still
  <2>5. \A i, j \in 1..(Len(q) - 1) : i < j => Tail(q)[i].ver < Tail(q)[j].ver
    <3> SUFFICES ASSUME NEW i \in 1..(Len(q) - 1), NEW j \in 1..(Len(q) - 1), i < j
                 PROVE  Tail(q)[i].ver < Tail(q)[j].ver
      OBVIOUS
    <3>1. i + 1 \in DOMAIN q /\ j + 1 \in DOMAIN q /\ i + 1 < j + 1
      <4> HIDE DEF q
      <4>. QED
        BY <1>8
    <3>. QED
      BY <1>8, <1>10, <3>1
  <2>6. \A i, j \in DOMAIN sources'[k].queue : i < j =>
          sources'[k].queue[i].ver < sources'[k].queue[j].ver
    BY <1>8, <1>12, <2>5
  <2>7. \A e \in Queued(k)' : /\ e.ver <= Now /\ e.row \in Known(k)
                              /\ \A p \in Unpublished(k)' : e.ver < p.ver
    <3>1. \A e \in Queued(k)' : e \in Queued(k)
      BY <1>13, <1>15
    <3>. QED
      BY <1>2, <1>3, <1>6, <3>1 DEF Stream
  <2>. QED
    BY <1>12, <1>18, <2>3, <2>4, <2>6, <2>7 DEF Stream
<1> DEFINE fits == matchesTradeMode(k, row.id, src.mode)
<1>20. lists'[k] = IF ~fits THEN lists[k]
                   ELSE IF event.type = "upsert" THEN upsertSorted(k, lists[k], row)
                   ELSE remove(lists[k], row.id)
  BY DEF Receive, Typed, event
<1>21. lists[k] \in Seq(Rows)
  BY DEF Typed
<1>22. Ordered(k, lists'[k])
  <2>1. upsertSorted(k, lists[k], row) =
          limitSortedItems(k, Without(ToSet(lists[k]), row.id) \cup {row})
    BY DEF upsertSorted
  <2>2. Ordered(k, upsertSorted(k, lists[k], row))
    <3> DEFINE S == Without(ToSet(lists[k]), row.id) \cup {row}
    <3>1. Single(k, S) /\ IsFiniteSet(S)
      BY <1>6, <1>17, <1>21, ListSingle, UpsertSingle
    <3> HIDE DEF S
    <3>2. Ordered(k, limitSortedItems(k, S))
      BY <3>1, SortedOrdered
    <3>. QED
      BY <2>1, <3>2 DEF S
  <2>3. Ordered(k, remove(lists[k], row.id))
    BY <1>6, <1>21, RemoveOrdered
  <2>. QED
    BY <1>6, <1>20, <2>2, <2>3
<1>23. ASSUME ~src.missed, ~src.stale
       PROVE  Right(k, ToSet(lists'[k]), src.mode, Pending(k)')
  <2>1. Right(k, ToSet(lists[k]), src.mode, Pending(k))
    BY <1>3, <1>6, <1>23 DEF Shown
  <2>2. \A e \in Pending(k) : e \in Pending(k)' \/ e.row.id = row.id
    BY <1>16
  <2>3. (\A e \in Pending(k)' : e.row.id # row.id) =>
          RowsOf(k, row.id, Now) = IF event.type = "upsert" THEN {row} ELSE {}
    <3> SUFFICES ASSUME \A e \in Pending(k)' : e.row.id # row.id
                 PROVE  RowsOf(k, row.id, Now) = IF event.type = "upsert" THEN {row} ELSE {}
      OBVIOUS
    <3>1. \A f \in Pending(k) : f.row.id = row.id => f.ver <= event.ver
      BY <1>9, <1>16
    <3>2. LastTells(k, Pending(k))
      BY <1>3, <1>6, <1>23 DEF Stream
    <3>. QED
      BY <1>16, <3>1, <3>2 DEF LastTells
  <2>4. CASE fits /\ event.type = "upsert"
    BY <1>6, <1>17, <1>20, <1>21, <2>1, <2>2, <2>3, <2>4, UpsertRight
  <2>5. CASE fits /\ event.type # "upsert"
    BY <1>20, <1>21, <2>1, <2>2, <2>3, <2>5, RemoveRight
  <2>6. CASE ~fits
    <3>1. lists'[k] = lists[k]
      BY <1>20, <2>6
    <3>2. \A id : matchesTradeMode(k, id, src.mode) => id # row.id
      BY <2>6
    <3>3. \A t \in ToSet(View(k, src.mode, Now)) : matchesTradeMode(k, t.id, src.mode)
      <4>1. Now \in 0..Now
        BY <1>17
      <4>. QED
        BY <4>1, ViewIs DEF Passing
    <3>4. \A t : t.id # row.id =>
            ((\A e \in Pending(k)' : e.row.id # t.id) => \A e \in Pending(k) : e.row.id # t.id)
      BY <2>2
    <3>. QED
      BY <2>1, <3>1, <3>2, <3>3, <3>4 DEF Right
  <2>. QED
    BY <2>4, <2>5, <2>6
<1>24. LastTells(k, Unpublished(k))' /\ Ordered(k, lists[k])'
  BY <1>1, <1>2, <1>6, <1>22, Still
<1>25. Shown(k)'
  BY <1>1, <1>12, <1>23, Still DEF Shown
<1>. QED
  BY <1>5, <1>19, <1>24, <1>25 DEF StreamsShow, Showing

\* A stream breaks.
LEMMA BreakShows ==
  ASSUME Typed, StreamsShow, NEW k \in Kinds, Disconnect(k) \/ Refuse(k)
  PROVE  StreamsShow'
<1>1. UNCHANGED history /\ UNCHANGED pubs /\ UNCHANGED lists
  BY DEF Disconnect, Refuse
<1>2. \A l \in Kinds : Unpublished(l)' = Unpublished(l)
  BY <1>1 DEF Unpublished
<1>3. \A l \in Kinds : l # k => sources'[l] = sources[l]
  BY DEF Disconnect, Refuse, Typed
<1>4. \A l \in Kinds : l # k => Showing(l)'
  BY <1>1, <1>2, <1>3, Quiet DEF StreamsShow
<1>5. LastTells(k, Unpublished(k)) /\ Ordered(k, lists[k])
  BY DEF StreamsShow, Showing
<1>6. \/ sources'[k] = NewSource(sources[k].mode)
      \/ sources'[k] = [NewSource(sources[k].mode) EXCEPT !.phase = "dead"]
  BY DEF Disconnect, Refuse, Typed
<1>7. /\ sources'[k].phase \in {"connecting", "dead"} /\ sources'[k].queue = <<>>
  BY <1>6 DEF NewSource
<1>8. lists'[k] = lists[k]
  BY <1>1
<1>9. Showing(k)'
  BY <1>1, <1>5, <1>7, <1>8, IdleShows
<1>. QED
  BY <1>4, <1>9 DEF StreamsShow

\* All streams are closed, those of a tab to connect again.
LEMMA RestartShows ==
  ASSUME StreamsShow, UNCHANGED history, UNCHANGED pubs,
         NEW t, NEW mode, sources' = startTradeStream(t, mode),
         \A k \in Kinds : Ordered(k, lists'[k])
  PROVE  StreamsShow'
<1> SUFFICES ASSUME NEW k \in Kinds PROVE Showing(k)'
  BY DEF StreamsShow
<1>1. sources'[k] = NewSource(mode) \/ sources'[k] = NoSource
  BY DEF startTradeStream
<1>2. /\ sources'[k].phase \in {"connecting", "closed"}
      /\ sources'[k].phase = "connecting" => sources'[k].queue = <<>>
  BY <1>1 DEF NewSource, NoSource
<1>3. LastTells(k, Unpublished(k))
  BY DEF StreamsShow, Showing
<1>4. Ordered(k, lists'[k])
  OBVIOUS
<1>. QED
  BY <1>2, <1>3, <1>4, IdleShows

\* An answer replaces lists; the streams that it does not fit are marked.
LEMMA AnswerShows ==
  ASSUME Typed, StreamsShow, UNCHANGED history, UNCHANGED pubs,
         NEW kinds, sources' = Overwritten(kinds),
         \A k \in kinds : k \in Kinds => Subscribed(k),
         \A k \in Kinds : Ordered(k, lists'[k]),
         \A k \in Kinds : k \notin kinds => lists'[k] = lists[k] \/
           (Shown(k) /\ Stream(k) /\ sources[k].phase = "live"
              /\ ~sources[k].missed /\ ~sources[k].stale
            => Right(k, ToSet(lists'[k]), sources[k].mode, Pending(k)))
  PROVE  StreamsShow'
<1> SUFFICES ASSUME NEW k \in Kinds PROVE Showing(k)'
  BY DEF StreamsShow
<1>1. LastTells(k, Unpublished(k)) /\ Stream(k) /\ Shown(k)
  BY DEF StreamsShow, Showing
<1>2. sources'[k] = IF k \in kinds THEN [sources[k] EXCEPT !.stale = TRUE] ELSE sources[k]
  BY DEF Overwritten
<1>3. Ordered(k, lists'[k])
  OBVIOUS
<1>4. CASE Subscribed(k)
  <2>1. sources[k] \in OpenSources(k) /\ Base(k) \in Nat /\ Base(k) <= Now
    BY <1>4, BaseIs
  <2>2. /\ sources'[k].phase = sources[k].phase /\ sources'[k].from = sources[k].from
        /\ sources'[k].seen = sources[k].seen /\ sources'[k].missed = sources[k].missed
        /\ sources'[k].queue = sources[k].queue /\ sources'[k].mode = sources[k].mode
        /\ sources'[k].stale = (k \in kinds \/ sources[k].stale)
    BY <1>2, <2>1 DEF OpenSources
  <2>3. Subscribed(k)' /\ Base(k)' = Base(k)
    BY <1>4, <2>2 DEF Subscribed, Base
  <2>4. sources'[k].phase = "live" /\ ~sources[k].missed /\ ~sources'[k].stale
        => Right(k, ToSet(lists'[k]), sources'[k].mode, Pending(k))
    BY <1>1, <2>2 DEF Shown
  <2>5. Now \in Nat
    BY Moments
  <2>. QED
    BY <1>1, <1>3, <1>4, <2>1, <2>2, <2>3, <2>4, <2>5, AheadShows
<1>5. CASE ~Subscribed(k)
  <2>1. sources'[k] = sources[k]
    BY <1>2, <1>5
  <2>2. sources'[k].phase \notin {"open", "live"}
    BY <1>5, <2>1 DEF Subscribed
  <2>3. sources'[k].phase = "connecting" => sources'[k].queue = <<>>
    BY <1>1, <2>1 DEF Stream
  <2>. QED
    BY <1>1, <1>3, <2>2, <2>3, IdleShows
<1>. QED
  BY <1>4, <1>5

\* The lists of a load are those of moments since it was started.
LEMMA LoadShows ==
  ASSUME Typed, History, StreamsShow, NEW s \in InFlight, LoadAnswered(s)
  PROVE  StreamsShow'
<1>1. UNCHANGED history /\ UNCHANGED pubs
  BY DEF LoadAnswered
<1> DEFINE mode == requests[s].mode
<1>2. requests[s] \in Request
  BY DEF Typed, InFlight
<1>3. requests[s].from \in Nat /\ Now \in Nat
  BY <1>2, Moments, Numbers DEF Request
<1>4. PICK v \in [Kinds -> requests[s].from..Now] :
        /\ lists' = [k \in Kinds |-> View(k, mode, v[k])]
        /\ sources' = IF requests[s].op = "load" THEN startTradeStream(tab, mode)
                      ELSE Overwritten({k \in Kinds : Unfit(k, v[k], mode)})
  BY DEF LoadAnswered
<1>5. \A k \in Kinds : v[k] \in 0..Now /\ v[k] \in Nat /\ v[k] <= Now
  BY <1>3
<1>6. \A k \in Kinds : lists'[k] = View(k, mode, v[k])
  BY <1>4
<1>7. \A k \in Kinds : Ordered(k, lists'[k])
  BY <1>5, <1>6, ViewOrdered
<1>8. CASE requests[s].op = "load"
  BY <1>1, <1>4, <1>7, <1>8, RestartShows
<1>9. CASE requests[s].op # "load"
  <2> DEFINE kinds == {k \in Kinds : Unfit(k, v[k], mode)}
  <2>1. sources' = Overwritten(kinds)
    BY <1>4, <1>9
  <2>2. \A k \in kinds : k \in Kinds => Subscribed(k)
    BY DEF Unfit, Subscribed
  <2>3. ASSUME NEW k \in Kinds, k \notin kinds, Stream(k),
               sources[k].phase = "live", ~sources[k].missed
        PROVE  Right(k, ToSet(lists'[k]), sources[k].mode, Pending(k))
    <3>1. Subscribed(k)
      BY <2>3 DEF Subscribed
    <3>2. Base(k) = sources[k].seen /\ Base(k) \in Nat
      BY <2>3, <3>1, BaseIs DEF Base
    <3>3. ~(v[k] < sources[k].seen) /\ (k = "candidates" \/ mode = sources[k].mode)
      BY <2>3 DEF Unfit
    <3>4. v[k] \in Base(k)..Now
      BY <1>3, <1>5, <3>2, <3>3
    <3>5. Covers(k, Pending(k), v[k])
      BY <2>3, <3>1, <3>4 DEF Stream
    <3>6. View(k, mode, v[k]) = View(k, sources[k].mode, v[k])
      BY <3>3 DEF View, matchesTradeMode
    <3>7. Right(k, ToSet(View(k, sources[k].mode, v[k])), sources[k].mode, Pending(k))
      BY <1>5, <3>5, ViewRight
    <3>. QED
      BY <1>6, <3>6, <3>7
  <2> HIDE DEF kinds
  <2>. QED
    BY <1>1, <1>7, <2>1, <2>2, <2>3, AnswerShows
<1>. QED
  BY <1>8, <1>9

\* A candidate that was added is shown, in the state of its moment.
LEMMA AddShows ==
  ASSUME Typed, History, Asked, StreamsShow, NEW s \in InFlight, AddAnswered(s)
  PROVE  StreamsShow'
<1>1. UNCHANGED history /\ UNCHANGED pubs
  BY DEF AddAnswered
<1> DEFINE c == "candidates"
           v == requests[s].from
<1>2. c \in Kinds
  BY Constants
<1>3. requests[s] \in Request /\ requests[s] # NoRequest /\ s \in Slots
  BY DEF Typed, InFlight
<1>4. v \in Nat /\ Now \in Nat /\ v <= Now /\ v \in 0..Now
  BY <1>3, Moments, Numbers DEF Request, Asked
<1>5. PICK row \in Table(c, v) : /\ row.id = requests[s].id
                                 /\ lists' = [lists EXCEPT ![c] = upsertSorted(c, @, row)]
  BY DEF AddAnswered
<1>6. row \in Known(c)
  BY <1>4 DEF Known
<1>7. lists'[c] = upsertSorted(c, lists[c], row)
      /\ \A k \in Kinds : k # c => lists'[k] = lists[k]
  BY <1>2, <1>5 DEF Typed
<1>8. \A k \in Kinds : Ordered(k, lists[k]) /\ lists[k] \in Seq(Rows)
  BY DEF StreamsShow, Showing, Typed
<1>9. Ordered(c, lists'[c])
  <2> DEFINE S == Without(ToSet(lists[c]), row.id) \cup {row}
  <2>1. Single(c, S) /\ IsFiniteSet(S)
    BY <1>2, <1>6, <1>8, ListSingle, UpsertSingle
  <2>2. lists'[c] = limitSortedItems(c, S)
    BY <1>7 DEF upsertSorted
  <2> HIDE DEF S
  <2>. QED
    BY <1>2, <2>1, <2>2, SortedOrdered
<1>10. \A k \in Kinds : Ordered(k, lists'[k])
  BY <1>7, <1>8, <1>9
<1>11. CASE tab # "candidates"
  BY <1>1, <1>10, <1>11, RestartShows DEF AddAnswered
<1>12. CASE tab = "candidates"
  <2> DEFINE kinds == {k \in {c} : Unfit(k, v, filter)}
  <2>1. sources' = Overwritten(kinds)
    BY <1>12 DEF AddAnswered
  <2>2. \A k \in kinds : k \in Kinds => Subscribed(k)
    BY DEF Unfit, Subscribed
  <2>3. ASSUME c \notin kinds, Stream(c), Shown(c),
               sources[c].phase = "live", ~sources[c].missed, ~sources[c].stale
        PROVE  Right(c, ToSet(lists'[c]), sources[c].mode, Pending(c))
    <3>1. Subscribed(c)
      BY <2>3 DEF Subscribed
    <3>2. Base(c) = sources[c].seen /\ Base(c) \in Nat
      BY <1>2, <2>3, <3>1, BaseIs DEF Base
    <3>3. ~(v < sources[c].seen)
      BY <2>3 DEF Unfit
    <3>4. v \in Base(c)..Now
      BY <1>4, <3>2, <3>3
    <3>5. Covers(c, Pending(c), v)
      BY <2>3, <3>1, <3>4 DEF Stream
    <3>6. RowsOf(c, row.id, v) = {row}
      <4>1. \A r \in Table(c, v) : r.id = row.id => r = row
        BY <1>2, <1>4 DEF History
      <4>. QED
        BY <4>1 DEF RowsOf
    <3>7. row.id \in Ids
      BY <1>2, <1>6, KnownRows, RowFields
    <3>8. (\A e \in Pending(c) : e.row.id # row.id) => RowsOf(c, row.id, Now) = {row}
      BY <3>5, <3>6, <3>7 DEF Covers
    <3>9. Right(c, ToSet(lists[c]), sources[c].mode, Pending(c))
      BY <2>3 DEF Shown
    <3>10. matchesTradeMode(c, row.id, sources[c].mode)
      BY DEF matchesTradeMode
    <3>. QED
      BY <1>2, <1>6, <1>7, <1>8, <3>8, <3>9, <3>10, UpsertRight
  <2>4. \A k \in Kinds : k \notin kinds => lists'[k] = lists[k] \/
           (Shown(k) /\ Stream(k) /\ sources[k].phase = "live"
              /\ ~sources[k].missed /\ ~sources[k].stale
            => Right(k, ToSet(lists'[k]), sources[k].mode, Pending(k)))
    BY <1>7, <2>3
  <2> HIDE DEF kinds
  <2>. QED
    BY <1>1, <1>10, <2>1, <2>2, <2>4, AnswerShows
<1>. QED
  BY <1>11, <1>12

\* A candidate that was removed is taken out.
LEMMA RemoveShows ==
  ASSUME Typed, History, Asked, StreamsShow, NEW s \in InFlight, RemoveAnswered(s)
  PROVE  StreamsShow'
<1>1. UNCHANGED history /\ UNCHANGED pubs
  BY DEF RemoveAnswered
<1> DEFINE c == "candidates"
           v == requests[s].from
           id == requests[s].id
<1>2. c \in Kinds
  BY Constants
<1>3. requests[s] \in Request /\ requests[s] # NoRequest /\ s \in Slots /\ id \in Ids
      /\ requests[s].op = "removed"
  BY DEF Typed, InFlight, Request, RemoveAnswered
<1>4. v \in Nat /\ Now \in Nat /\ v <= Now /\ RowsOf(c, id, v) = {}
  BY <1>3, Moments, Numbers DEF Request, Asked
<1>5. lists'[c] = remove(lists[c], id) /\ \A k \in Kinds : k # c => lists'[k] = lists[k]
  BY <1>2 DEF Typed, RemoveAnswered
<1>6. \A k \in Kinds : Ordered(k, lists[k]) /\ lists[k] \in Seq(Rows)
  BY DEF StreamsShow, Showing, Typed
<1>7. \A k \in Kinds : Ordered(k, lists'[k])
  BY <1>2, <1>5, <1>6, RemoveOrdered
<1> DEFINE kinds == {k \in {c} : Unfit(k, v, filter)}
<1>8. sources' = Overwritten(kinds)
  BY DEF RemoveAnswered
<1>9. \A k \in kinds : k \in Kinds => Subscribed(k)
  BY DEF Unfit, Subscribed
<1>10. ASSUME c \notin kinds, Stream(c), Shown(c),
              sources[c].phase = "live", ~sources[c].missed, ~sources[c].stale
       PROVE  Right(c, ToSet(lists'[c]), sources[c].mode, Pending(c))
  <2>1. Subscribed(c)
    BY <1>10 DEF Subscribed
  <2>2. Base(c) = sources[c].seen /\ Base(c) \in Nat
    BY <1>2, <1>10, <2>1, BaseIs DEF Base
  <2>3. ~(v < sources[c].seen)
    BY <1>10 DEF Unfit
  <2>4. v \in Base(c)..Now
    BY <1>4, <2>2, <2>3
  <2>5. Covers(c, Pending(c), v)
    BY <1>10, <2>1, <2>4 DEF Stream
  <2>6. (\A e \in Pending(c) : e.row.id # id) => RowsOf(c, id, Now) = {}
    BY <1>3, <1>4, <2>5 DEF Covers
  <2>7. Right(c, ToSet(lists[c]), sources[c].mode, Pending(c))
    BY <1>10 DEF Shown
  <2>. QED
    BY <1>2, <1>5, <1>6, <2>6, <2>7, RemoveRight
<1>11. \A k \in Kinds : k \notin kinds => lists'[k] = lists[k] \/
         (Shown(k) /\ Stream(k) /\ sources[k].phase = "live"
            /\ ~sources[k].missed /\ ~sources[k].stale
          => Right(k, ToSet(lists'[k]), sources[k].mode, Pending(k)))
  BY <1>5, <1>10
<1> HIDE DEF kinds
<1>. QED
  BY <1>1, <1>7, <1>8, <1>9, <1>11, AnswerShows

-----------------------------------------------------------------------------
(* A write.                                                                *)

LEMMA TablesApart ==
  ASSUME Typed, History, NEW k \in Kinds, NEW id \in Ids, NEW table, NEW event,
         Change(k, id, table, event), Commit(k, table, event),
         NEW l \in Kinds, l # k
  PROVE  /\ Table(l, Now)' = Table(l, Now) /\ Known(l)' = Known(l)
         /\ Unpublished(l)' = Unpublished(l)
         /\ \A mode : View(l, mode, Now)' = View(l, mode, Now)
         /\ \A i \in Ids : RowsOf(l, i, Now)' = RowsOf(l, i, Now)
         /\ \A i \in Ids : \A v \in 0..Now : RowsOf(l, i, v)' = RowsOf(l, i, v)
         /\ \A i \in Ids : \A v : v = Now + 1 => RowsOf(l, i, v)' = RowsOf(l, i, Now)'
<1>1. Table(l, Now)' = Table(l, Now) /\ Known(l)' = Known(l) /\ pubs' = pubs \cup {event}
  BY ChangeIs
<1>2. event.kind = k
  BY EventFields DEF Change
<1>3. Unpublished(l)' = Unpublished(l)
  BY <1>1, <1>2 DEF Unpublished
<1>4. \A mode : View(l, mode, Now)' = View(l, mode, Now)
  BY <1>1 DEF View
<1>. QED
  BY <1>1, <1>3, <1>4, ChangeRows

\* The tables of the other kinds are as they were.
LEMMA OthersShow ==
  ASSUME Typed, History, Events, StreamsShow, NEW k \in Kinds, NEW id \in Ids, NEW table, NEW event,
         Change(k, id, table, event), Commit(k, table, event),
         UNCHANGED lists, UNCHANGED sources,
         NEW l \in Kinds, l # k
  PROVE  Showing(l)'
<1>1. /\ Table(l, Now)' = Table(l, Now) /\ Known(l)' = Known(l)
      /\ Unpublished(l)' = Unpublished(l)
      /\ \A mode : View(l, mode, Now)' = View(l, mode, Now)
      /\ \A i \in Ids : RowsOf(l, i, Now)' = RowsOf(l, i, Now)
      /\ \A i \in Ids : \A v \in 0..Now : RowsOf(l, i, v)' = RowsOf(l, i, v)
      /\ \A i \in Ids : \A v : v = Now + 1 => RowsOf(l, i, v)' = RowsOf(l, i, Now)'
  BY TablesApart
<1>2. Now' = Now + 1 /\ Now \in Nat
  BY ChangeIs, Moments
<1>3. LastTells(l, Unpublished(l)) /\ Ordered(l, lists[l]) /\ Stream(l) /\ Shown(l)
  BY DEF StreamsShow, Showing
<1>4. Queued(l)' = Queued(l) /\ Pending(l)' = Pending(l)
  BY <1>1 DEF Queued, Pending
<1>5. \A e \in Unpublished(l) : e.row.id \in Ids
  BY EventFields, RowFields DEF Unpublished, Typed
<1>6. LastTells(l, Unpublished(l))'
  BY <1>1, <1>3, <1>5 DEF LastTells
<1>7. Ordered(l, lists[l])'
  BY <1>1, <1>3 DEF Ordered
<1>8. Stream(l)'
  <2>1. CASE ~Subscribed(l)
    BY <1>3, <2>1 DEF Stream, Subscribed
  <2>2. CASE Subscribed(l)
    <3>1. Base(l) \in Nat /\ Base(l) <= Now /\ \A e \in Pending(l) : e.row.id \in Ids
      BY <2>2, BaseIs, EventFields, RowFields
    <3>2. Base(l)' = Base(l) /\ Base(l) <= Now + 1
      BY <1>2, <3>1 DEF Base
    <3>3. ~sources[l].missed => LastTells(l, Pending(l))'
      <4>1. ~sources[l].missed => LastTells(l, Pending(l))
        BY <1>3, <2>2 DEF Stream
      <4>. QED
        BY <1>1, <1>4, <3>1, <4>1 DEF LastTells
    <3>4. ~sources[l].missed => \A v \in Base(l)..(Now + 1) : Covers(l, Pending(l), v)'
      <4> SUFFICES ASSUME ~sources[l].missed, NEW v \in Base(l)..(Now + 1)
                   PROVE  Covers(l, Pending(l), v)'
        OBVIOUS
      <4>1. CASE v = Now + 1
        <5>1. \A i \in Ids : RowsOf(l, i, v)' = RowsOf(l, i, Now)'
          BY <1>1, <4>1
        <5>. QED
          BY <5>1 DEF Covers
      <4>2. CASE v \in Base(l)..Now
        <5>1. Covers(l, Pending(l), v)
          BY <1>3, <2>2, <4>2 DEF Stream
        <5>2. v \in 0..Now
          BY <1>2, <3>1, <4>2
        <5>. QED
          BY <1>1, <1>4, <5>1, <5>2 DEF Covers
      <4>. QED
        BY <1>2, <3>1, <4>1, <4>2
    <3>5. \A e \in Queued(l) : e.ver <= Now + 1
      <4>1. \A e \in Queued(l) : e.ver <= Now /\ e.ver \in Nat
        BY <1>3, <2>2, BaseIs DEF Stream, Pending
      <4>. QED
        BY <1>2, <4>1
    <3>. QED
      BY <1>1, <1>2, <1>3, <1>4, <2>2, <3>2, <3>3, <3>4, <3>5 DEF Stream, Subscribed
  <2>. QED
    BY <2>1, <2>2
<1>9. Shown(l)'
  BY <1>1, <1>3, <1>4 DEF Shown, Right
<1>. QED
  BY <1>6, <1>7, <1>8, <1>9 DEF Showing

\* The row that changes has an event that is the last of all.
LEMMA LastJoins ==
  ASSUME Typed, History, NEW k \in Kinds, NEW id \in Ids, NEW table, NEW event,
         Change(k, id, table, event), Commit(k, table, event),
         NEW events, LastTells(k, events),
         \A e \in events : e.row.id \in Ids /\ e.ver \in Nat /\ e.ver <= Now
  PROVE  \A more : more = events \cup {event} => LastTells(k, more)'
<1> DEFINE more == events \cup {event}
<1>1. /\ \A i \in Ids : i # id => RowsOf(k, i, Now)' = RowsOf(k, i, Now)
      /\ RowsOf(k, id, Now)' = IF event.type = "upsert" THEN {event.row} ELSE {}
  BY ChangeRows
<1>2. event.row.id = id /\ event.ver = Now + 1 /\ Now \in Nat
  BY Moments DEF Change
<1>3. ASSUME NEW e \in more, \A f \in more : f.row.id = e.row.id => f.ver <= e.ver
      PROVE  RowsOf(k, e.row.id, Now)' = IF e.type = "upsert" THEN {e.row} ELSE {}
  <2>1. CASE e.row.id = id
    <3>1. event.ver <= e.ver
      BY <1>2, <1>3, <2>1
    <3>2. e = event
      BY <1>2, <3>1
    <3>. QED
      BY <1>1, <1>2, <3>2
  <2>2. CASE e.row.id # id
    <3>1. e \in events
      BY <1>2, <2>2
    <3>2. RowsOf(k, e.row.id, Now) = IF e.type = "upsert" THEN {e.row} ELSE {}
      BY <1>3, <3>1 DEF LastTells
    <3>. QED
      BY <1>1, <2>2, <3>1, <3>2
  <2>. QED
    BY <2>1, <2>2
<1> HIDE DEF more
<1>4. LastTells(k, more)'
  BY <1>3 DEF LastTells
<1>. QED
  BY <1>4 DEF more

LEMMA ChangeShows ==
  ASSUME Typed, History, Events, StreamsShow, NEW k \in Kinds, NEW id \in Ids, NEW table, NEW event,
         Change(k, id, table, event), Commit(k, table, event),
         UNCHANGED lists, UNCHANGED sources
  PROVE  Showing(k)'
<1>1. /\ Now' = Now + 1 /\ Now \in Nat /\ pubs' = pubs \cup {event}
      /\ Known(k) \subseteq Known(k)' /\ Table(k, Now)' = table
  BY ChangeIs, Moments
<1>2. /\ \A i \in Ids : \A v \in 0..Now : RowsOf(k, i, v)' = RowsOf(k, i, v)
      /\ \A i \in Ids : i # id => RowsOf(k, i, Now)' = RowsOf(k, i, Now)
      /\ \A i \in Ids : \A v : v = Now + 1 => RowsOf(k, i, v)' = RowsOf(k, i, Now)'
  BY ChangeRows
<1>3. event.kind = k /\ event.row.id = id /\ event.ver = Now + 1
  BY EventFields DEF Change
<1>4. LastTells(k, Unpublished(k)) /\ Ordered(k, lists[k]) /\ Stream(k) /\ Shown(k)
  BY DEF StreamsShow, Showing
<1>5. Unpublished(k)' = Unpublished(k) \cup {event}
  BY <1>1, <1>3 DEF Unpublished
<1>6. Queued(k)' = Queued(k) /\ Pending(k)' = Pending(k) \cup {event}
  BY <1>5 DEF Queued, Pending
<1>7. \A e \in Unpublished(k) : e.row.id \in Ids /\ e.ver \in Nat /\ e.ver <= Now
  BY EventFields, RowFields DEF Unpublished, Typed, Events
<1>8. LastTells(k, Unpublished(k))'
  BY <1>4, <1>5, <1>7, LastJoins
<1>9. Ordered(k, lists[k])'
  BY <1>1, <1>4 DEF Ordered
<1>10. Stream(k)'
  <2>1. CASE ~Subscribed(k)
    BY <1>4, <2>1 DEF Stream, Subscribed
  <2>2. CASE Subscribed(k)
    <3>1. /\ Base(k) \in Nat /\ Base(k) <= Now
          /\ \A e \in Pending(k) : e.row.id \in Ids /\ e.ver \in Nat
      BY <2>2, BaseIs, EventFields, RowFields
    <3>2. Base(k)' = Base(k) /\ Base(k) <= Now + 1
      BY <1>1, <3>1 DEF Base
    <3>3. \A e \in Pending(k) : e.ver <= Now
      BY <1>4, <1>7, <2>2 DEF Pending, Stream
    <3>4. ~sources[k].missed => LastTells(k, Pending(k))'
      <4>1. ~sources[k].missed => LastTells(k, Pending(k))
        BY <1>4, <2>2 DEF Stream
      <4>. QED
        BY <1>6, <3>1, <3>3, <4>1, LastJoins
    <3>5. ~sources[k].missed => \A v \in Base(k)..(Now + 1) : Covers(k, Pending(k), v)'
      <4> SUFFICES ASSUME ~sources[k].missed, NEW v \in Base(k)..(Now + 1)
                   PROVE  Covers(k, Pending(k), v)'
        OBVIOUS
      <4>1. CASE v = Now + 1
        <5>1. \A i \in Ids : RowsOf(k, i, v)' = RowsOf(k, i, Now)'
          BY <1>2, <4>1
        <5>. QED
          BY <5>1 DEF Covers
      <4>2. CASE v \in Base(k)..Now
        <5>1. Covers(k, Pending(k), v)
          BY <1>4, <2>2, <4>2 DEF Stream
        <5>2. v \in 0..Now /\ ~(event.ver <= v)
          BY <1>1, <1>3, <3>1, <4>2
        <5>3. ASSUME NEW i \in Ids, \A e \in Pending(k) \cup {event} : e.row.id = i => e.ver <= v
              PROVE  RowsOf(k, i, v)' = RowsOf(k, i, Now)'
          <6>1. i # id
            BY <1>3, <5>2, <5>3
          <6>2. RowsOf(k, i, v) = RowsOf(k, i, Now)
            BY <5>1, <5>3 DEF Covers
          <6>. QED
            BY <1>2, <5>2, <6>1, <6>2
        <5>. QED
          BY <1>6, <5>3 DEF Covers
      <4>. QED
        BY <1>1, <3>1, <4>1, <4>2
    <3>6. \A e \in Queued(k) : /\ e.ver <= Now + 1 /\ e.row \in Known(k)'
                               /\ \A p \in Unpublished(k)' : e.ver < p.ver
      <4> SUFFICES ASSUME NEW e \in Queued(k)
                   PROVE  /\ e.ver <= Now + 1 /\ e.row \in Known(k)'
                          /\ \A p \in Unpublished(k)' : e.ver < p.ver
        OBVIOUS
      <4>1. e.ver <= Now /\ e.ver \in Nat
        BY <3>1, <3>3 DEF Pending
      <4>2. e.ver <= Now + 1 /\ e.ver < event.ver
        BY <1>1, <1>3, <4>1
      <4>. QED
        BY <1>1, <1>4, <1>5, <2>2, <4>2 DEF Stream
    <3>. QED
      BY <1>1, <1>4, <1>6, <2>2, <3>2, <3>4, <3>5, <3>6 DEF Stream, Subscribed
  <2>. QED
    BY <2>1, <2>2
<1>11. ASSUME sources[k].phase = "live", ~sources[k].missed, ~sources[k].stale
       PROVE  Right(k, ToSet(lists[k]), sources[k].mode, Pending(k))'
  <2> DEFINE mode == sources[k].mode
             M == Passing(k, mode, Now)
  <2>0. Now \in 0..Now
    BY <1>1
  <2>1. Right(k, ToSet(lists[k]), mode, Pending(k))
    BY <1>4, <1>11 DEF Shown
  <2>2. \A r \in Rows : r.id # id => (r \in Table(k, Now)' <=> r \in Table(k, Now))
    BY <1>1 DEF Change
  <2>3. ASSUME NEW r \in ToSet(lists[k])
        PROVE  /\ matchesTradeMode(k, r.id, mode)
               /\ (\A e \in Pending(k)' : e.row.id # r.id) => r \in Table(k, Now)'
    <3>1. r \in Rows
      BY DEF Typed, ToSet
    <3>. QED
      BY <1>3, <1>6, <2>1, <2>2, <3>1 DEF Right
  <2>4. /\ Typed /\ History' /\ table \subseteq Rows /\ IsFiniteSet(table)
    BY HistoryChanges DEF Change
  <2> DEFINE N == {row \in table : matchesTradeMode(k, row.id, mode)}
  <2>5. View(k, mode, Now)' = limitSortedItems(k, N)
    BY <1>1 DEF View
  <2>6. N \in SUBSET Rows /\ IsFiniteSet(N)
    BY <2>4, FS_Subset
  <2>7. /\ View(k, mode, Now) = limitSortedItems(k, M)
        /\ Single(k, M) /\ IsFiniteSet(M)
    BY <2>0, ViewIs, PassingSingle
  <2>8. k # "candidates" => Younger(M, N)
    <3> SUFFICES ASSUME k # "candidates", NEW y \in M
                 PROVE  \E u \in N : u.id = y.id /\ y.at <= u.at
      BY DEF Younger
    <3>1. y \in Known(k)' /\ matchesTradeMode(k, y.id, mode)
      BY <1>1, <2>7 DEF Passing, Single
    <3>2. PICK u \in Table(k, Now)' : u.id = y.id /\ y.at <= u.at
      BY <2>4, <3>1 DEF History
    <3>. QED
      BY <1>1, <3>1, <3>2
  <2> HIDE DEF M, N
  <2>9. ToSet(limitSortedItems(k, N)) \subseteq N
    BY <2>6, SortedIs
  <2>10. ASSUME NEW t \in ToSet(limitSortedItems(k, N)), \A e \in Pending(k)' : e.row.id # t.id
         PROVE  t \in ToSet(lists[k])
    <3>1. t \in N /\ t \in Rows /\ t \in table /\ matchesTradeMode(k, t.id, mode)
      BY <2>6, <2>9 DEF N
    <3>2. t.id # id /\ \A e \in Pending(k) : e.row.id # t.id
      BY <1>3, <1>6, <2>10
    <3>3. t \in M
      BY <1>1, <2>2, <3>1, <3>2 DEF M, Passing
    <3>4. t \in ToSet(limitSortedItems(k, M))
      BY <2>6, <2>7, <2>8, <2>10, <3>1, <3>3, CutKeeps
    <3>. QED
      BY <2>1, <2>7, <3>2, <3>4 DEF Right
  <2>11. mode' = mode /\ lists' = lists
    OBVIOUS
  <2>12. View(k, sources[k].mode, Now)' = limitSortedItems(k, N)
    BY <1>1, <2>11 DEF View, N
  <2>. QED
    BY <2>3, <2>10, <2>11, <2>12 DEF Right
<1>12. Shown(k)'
  BY <1>11 DEF Shown
<1>. QED
  BY <1>8, <1>9, <1>10, <1>12 DEF Showing

-----------------------------------------------------------------------------
(* The requests.                                                           *)

\* History, events and the moments of the requests, when no table changes.
LEMMA StillKnown ==
  ASSUME Typed, History, Events, UNCHANGED history, pubs' \subseteq pubs
  PROVE  History' /\ Events'
<1>1. History'
  BY Still DEF History
<1>2. Events'
  BY Still DEF Events
<1>. QED
  BY <1>1, <1>2

LEMMA StillAsked ==
  ASSUME Asked, UNCHANGED history,
         \A s \in Slots : \/ requests'[s] = requests[s]
                          \/ requests'[s] = NoRequest
                          \/ requests'[s].from = Now /\ requests'[s].op # "removed" /\ Now \in Nat
  PROVE  Asked'
<1> SUFFICES ASSUME NEW s \in Slots, requests'[s] # NoRequest
             PROVE  /\ requests'[s].from <= Now'
                    /\ requests'[s].op = "removed" =>
                         RowsOf("candidates", requests[s].id, requests[s].from)' = {}
  BY DEF Asked
<1>1. Now' = Now
  BY Still
<1>2. CASE requests'[s] = requests[s]
  BY <1>1, <1>2, Still DEF Asked
<1>3. CASE requests'[s].from = Now /\ requests'[s].op # "removed" /\ Now \in Nat
  BY <1>1, <1>3
<1>. QED
  BY <1>2, <1>3

LEMMA SendIs ==
  ASSUME Typed, NEW op \in {"load", "act", "add", "remove"}, NEW id \in Ids, NEW mode \in Filters,
         Send(op, id, mode)
  PROVE  /\ requests' \in [Slots -> Request \cup {NoRequest}] /\ loading' \in BOOLEAN
         /\ \A s \in Slots : \/ requests'[s] = requests[s]
                             \/ requests'[s].from = Now /\ requests'[s].op # "removed"
<1> DEFINE new == [op |-> op, id |-> id, mode |-> mode, from |-> Now]
<1>1. Now \in 0..MaxWrites
  BY Moments, Numbers
<1>2. new \in Request
  BY <1>1 DEF Request, Ops
<1>3. new.from = Now /\ new.op # "removed"
  OBVIOUS
<1>4. requests' = [requests EXCEPT ![Free] = new] /\ loading' = TRUE
  BY DEF Send
<1>5. requests \in [Slots -> Request \cup {NoRequest}]
  BY DEF Typed
<1> HIDE DEF new
<1>6. requests' \in [Slots -> Request \cup {NoRequest}]
  BY <1>2, <1>4, <1>5
<1>7. \A s \in Slots : requests'[s] = requests[s] \/ requests'[s] = new
  BY <1>4, <1>5
<1>. QED
  BY <1>3, <1>4, <1>6, <1>7

LEMMA SettleIs ==
  ASSUME Typed, NEW s \in Slots, Settle(s)
  PROVE  /\ requests' \in [Slots -> Request \cup {NoRequest}] /\ loading' \in BOOLEAN
         /\ \A t \in Slots : requests'[t] = requests[t] \/ requests'[t] = NoRequest
BY DEF Typed, Settle

\* A command that was not answered becomes the load that follows it.
LEMMA ReloadIs ==
  ASSUME Typed, NEW s \in InFlight, ActAnswered(s)
  PROVE  /\ requests' \in [Slots -> Request \cup {NoRequest}] /\ loading' \in BOOLEAN
         /\ \A t \in Slots : \/ requests'[t] = requests[t]
                             \/ requests'[t].from = Now /\ requests'[t].op # "removed"
<1> DEFINE old == requests[s]
           new == [[old EXCEPT !.op = "reload"] EXCEPT !.from = Now]
<1>1. old \in Request /\ s \in Slots
  BY DEF Typed, InFlight
<1>2. Now \in 0..MaxWrites
  BY Moments, Numbers
<1>3. requests \in [Slots -> Request \cup {NoRequest}]
  BY DEF Typed
<1>4. requests'[s] = new /\ \A t \in Slots : t # s => requests'[t] = requests[t]
  BY <1>1, <1>3 DEF ActAnswered
<1>5. new \in Request /\ new.from = Now /\ new.op = "reload"
  BY <1>1, <1>2 DEF Request, Ops
<1>6. DOMAIN requests' = Slots /\ loading' = TRUE
  BY <1>3 DEF ActAnswered
<1> HIDE DEF new
<1>7. requests' = [requests EXCEPT ![s] = new]
  <2>1. requests' = [requests EXCEPT ![s].op = "reload", ![s].from = Now]
    BY DEF ActAnswered
  <2>. QED
    BY <1>1, <1>3, <2>1 DEF new
<1>8. requests' \in [Slots -> Request \cup {NoRequest}]
  BY <1>3, <1>5, <1>7
<1>. QED
  BY <1>4, <1>5, <1>6, <1>8

\* A command that is carried out: what it removes is gone at its moment.
LEMMA ExecuteAsked ==
  ASSUME Typed, History, Asked, NEW s \in InFlight, Execute(s)
  PROVE  requests' \in [Slots -> Request \cup {NoRequest}] /\ Asked'
<1> DEFINE c == "candidates"
           old == requests[s]
           new == [[old EXCEPT !.op = IF old.op = "add" THEN "added" ELSE "removed"]
                     EXCEPT !.from = Now + 1]
<1>0. c \in Kinds
  BY Constants
<1>1. old \in Request /\ s \in Slots /\ old.id \in Ids
  BY DEF Typed, InFlight, Request
<1>2. Now + 1 \in 0..MaxWrites /\ Now \in Nat /\ Now < MaxWrites
  BY Moments, Numbers DEF Execute
<1>3. requests \in [Slots -> Request \cup {NoRequest}]
  BY DEF Typed
<1>4. requests' = [requests EXCEPT ![s] = new]
  <2>1. requests' = [requests EXCEPT ![s].op = IF @ = "add" THEN "added" ELSE "removed",
                                     ![s].from = Now + 1]
    BY DEF Execute
  <2>. QED
    BY <1>1, <1>3, <2>1
<1>5. new \in Request /\ new.from = Now + 1 /\ new.id = old.id
      /\ new.op = IF old.op = "add" THEN "added" ELSE "removed"
  BY <1>1, <1>2 DEF Request, Ops
<1> HIDE DEF new
<1>6. requests'[s] = new /\ \A t \in Slots : t # s => requests'[t] = requests[t]
  BY <1>1, <1>3, <1>4
<1>7. requests' \in [Slots -> Request \cup {NoRequest}]
  BY <1>3, <1>4, <1>5
<1>8. \E table, event : /\ Change(c, old.id, table, event) /\ Commit(c, table, event)
                        /\ old.op # "add" => event.type = "delete"
  <2>1. CASE old.op = "add" /\ Put(c, old.id)
    BY <1>0, <1>1, <1>2, <2>1, PutChanges
  <2>2. CASE old.op = "remove" /\ Discard(old.id)
    BY <1>0, <1>1, <1>2, <2>2, DiscardChanges
  <2>. QED
    BY <2>1, <2>2 DEF Execute
<1>9. PICK table, event : /\ Change(c, old.id, table, event) /\ Commit(c, table, event)
                          /\ old.op # "add" => event.type = "delete"
  BY <1>8
<1>10. Now' = Now + 1
  BY <1>0, <1>1, <1>9, ChangeIs
<1>11. /\ \A i \in Ids : \A v \in 0..Now : RowsOf(c, i, v)' = RowsOf(c, i, v)
       /\ \A i : i = old.id =>
            RowsOf(c, i, Now)' = IF event.type = "upsert" THEN {event.row} ELSE {}
       /\ \A i \in Ids : \A v : v = Now + 1 => RowsOf(c, i, v)' = RowsOf(c, i, Now)'
  <2> SUFFICES ASSUME NEW id, id = old.id
               PROVE  /\ \A i \in Ids : \A v \in 0..Now : RowsOf(c, i, v)' = RowsOf(c, i, v)
                      /\ RowsOf(c, id, Now)' = IF event.type = "upsert" THEN {event.row} ELSE {}
                      /\ \A i \in Ids : \A v : v = Now + 1 => RowsOf(c, i, v)' = RowsOf(c, i, Now)'
    OBVIOUS
  <2>1. id \in Ids /\ Change(c, id, table, event)
    BY <1>1, <1>9
  <2> HIDE DEF old
  <2>. QED
    BY <1>0, <1>9, <2>1, ChangeRows
<1>12. new.op = "removed" => \A i, v : i = old.id /\ v = Now + 1 => RowsOf(c, i, v)' = {}
  <2>1. new.op = "removed" => event.type = "delete"
    BY <1>5, <1>9
  <2>. QED
    BY <1>1, <1>11, <2>1
<1>13. ASSUME NEW t \in Slots, t # s, requests[t] # NoRequest
       PROVE  /\ requests[t].from <= Now + 1
              /\ requests[t].op = "removed" =>
                   \A i, v : i = requests[t].id /\ v = requests[t].from => RowsOf(c, i, v)' = {}
  <2>1. requests[t] \in Request
    BY <1>3, <1>13
  <2>2. requests[t].id \in Ids /\ requests[t].from \in Nat /\ requests[t].from <= Now
    BY <1>13, <2>1, Numbers DEF Request, Asked
  <2>3. requests[t].from <= Now + 1 /\ requests[t].from \in 0..Now
    BY <1>2, <2>2
  <2>. QED
    BY <1>11, <1>13, <2>2, <2>3 DEF Asked
<1>14. Asked'
  <2> SUFFICES ASSUME NEW t \in Slots, requests'[t] # NoRequest
               PROVE  /\ requests'[t].from <= Now'
                      /\ requests'[t].op = "removed" =>
                           RowsOf(c, requests[t].id, requests[t].from)' = {}
    BY DEF Asked
  <2>1. CASE t = s
    <3>1. requests'[t].from = Now + 1 /\ requests'[t].id = old.id
      BY <1>5, <1>6, <2>1
    <3> HIDE DEF old
    <3>2. requests'[t].op = "removed" => RowsOf(c, requests[t].id, requests[t].from)' = {}
      BY <1>5, <1>6, <1>12, <2>1, <3>1
    <3>. QED
      BY <1>2, <1>10, <3>1, <3>2
  <2>2. CASE t # s
    BY <1>6, <1>10, <1>13, <2>2
  <2>. QED
    BY <2>1, <2>2
<1>. QED
  BY <1>7, <1>14

LEMMA WriteAsked ==
  ASSUME Typed, History, Asked, NEW k \in Kinds, NEW id \in Ids, NEW table, NEW event,
         Change(k, id, table, event), Commit(k, table, event), UNCHANGED requests
  PROVE  Asked'
<1> DEFINE c == "candidates"
<1>0. c \in Kinds
  BY Constants
<1>1. Now' = Now + 1 /\ Now \in Nat
  BY ChangeIs, Moments
<1>2. \A i \in Ids : \A v \in 0..Now : RowsOf(c, i, v)' = RowsOf(c, i, v)
  BY <1>0, ChangeRows
<1> SUFFICES ASSUME NEW t \in Slots, requests[t] # NoRequest
             PROVE  /\ requests[t].from <= Now + 1
                    /\ requests[t].op = "removed" =>
                         RowsOf(c, requests[t].id, requests[t].from)' = {}
  BY <1>1 DEF Asked
<1>3. requests[t] \in Request
  BY DEF Typed
<1>4. requests[t].id \in Ids /\ requests[t].from \in Nat /\ requests[t].from <= Now
  BY <1>3, Numbers DEF Request, Asked
<1>5. requests[t].from <= Now + 1 /\ requests[t].from \in 0..Now
  BY <1>1, <1>4
<1>6. requests[t].op = "removed" =>
        \A i, v : i = requests[t].id /\ v = requests[t].from => RowsOf(c, i, v)' = {}
  BY <1>2, <1>4, <1>5 DEF Asked
<1>. QED
  BY <1>5, <1>6

-----------------------------------------------------------------------------
(* Types.                                                                  *)

SourcesTyped ==
  DOMAIN sources = Kinds /\ \A k \in Kinds : sources[k] \in {NoSource} \cup OpenSources(k)

LEMMA StillTyped ==
  ASSUME Typed, UNCHANGED history, pubs' \subseteq pubs,
         tab' \in Tabs, filter' \in Filters, lists' \in [Kinds -> Seq(Rows)],
         SourcesTyped',
         requests' \in [Slots -> Request \cup {NoRequest}], loading' \in BOOLEAN
  PROVE  Typed'
<1>1. history' \in Seq(Tables) /\ Len(history') \in 1..(MaxWrites + 1)
  BY DEF Typed
<1>2. \A k \in Kinds : \A v \in 0..Now' : IsFiniteSet(Table(k, v)')
  BY Still DEF Typed
<1>3. \A p \in pubs' : p.kind \in Kinds /\ p \in Event(p.kind)
  BY DEF Typed
<1>. QED
  BY <1>1, <1>2, <1>3 DEF Typed, SourcesTyped

LEMMA ChangeTyped ==
  ASSUME Typed, History, NEW k \in Kinds, NEW id \in Ids, NEW table, NEW event,
         Change(k, id, table, event), Commit(k, table, event), Now < MaxWrites,
         UNCHANGED <<tab, filter, lists, sources, loading>>,
         requests' \in [Slots -> Request \cup {NoRequest}]
  PROVE  Typed'
<1>1. /\ Now' = Now + 1 /\ pubs' = pubs \cup {event}
      /\ history' \in Seq(Tables) /\ Len(history') = Now + 2
      /\ \A l \in Kinds : \A v \in 0..Now : Table(l, v)' = Table(l, v)
      /\ \A v : v = Now + 1 =>
           /\ Table(k, v)' = table
           /\ \A l \in Kinds \ {k} : Table(l, v)' = Table(l, Now)
  BY ChangeIs
<1>2. Now \in Nat /\ Now \in 0..Now /\ \A l \in Kinds : \A v \in 0..Now : IsFiniteSet(Table(l, v))
  BY Moments
<1>3. Len(history') \in 1..(MaxWrites + 1)
  BY <1>1, <1>2, Numbers
<1>4. \A l \in Kinds : \A v \in 0..(Now + 1) : IsFiniteSet(Table(l, v)')
  <2> SUFFICES ASSUME NEW l \in Kinds, NEW v \in 0..(Now + 1) PROVE IsFiniteSet(Table(l, v)')
    OBVIOUS
  <2>1. CASE v \in 0..Now
    BY <1>1, <1>2, <2>1
  <2>2. CASE v = Now + 1
    <3>1. CASE l = k
      BY <1>1, <2>2, <3>1 DEF Change
    <3>2. CASE l # k
      BY <1>1, <1>2, <2>2, <3>2
    <3>. QED
      BY <3>1, <3>2
  <2>. QED
    BY <1>2, <2>1, <2>2
<1>5. event.kind \in Kinds /\ event \in Event(event.kind)
  BY EventFields DEF Change
<1>6. \A p \in pubs' : p.kind \in Kinds /\ p \in Event(p.kind)
  BY <1>1, <1>5 DEF Typed
<1>7. \A l \in Kinds : \A v \in 0..Now' : IsFiniteSet(Table(l, v)')
  BY <1>1, <1>4
<1>. QED
  BY <1>1, <1>3, <1>6, <1>7 DEF Typed

\* One stream changes.
LEMMA OneTyped ==
  ASSUME Typed, NEW k \in Kinds, DOMAIN sources' = DOMAIN sources,
         \A l \in Kinds : l # k => sources'[l] = sources[l],
         sources'[k] \in {NoSource} \cup OpenSources(k)
  PROVE  SourcesTyped'
<1>1. DOMAIN sources' = Kinds
  BY DEF Typed
<1>2. \A l \in Kinds : sources'[l] \in {NoSource} \cup OpenSources(l)
  BY DEF Typed
<1>. QED
  BY <1>1, <1>2 DEF SourcesTyped, OpenSources

LEMMA RestartTyped ==
  ASSUME NEW t, NEW mode \in Filters, sources' = startTradeStream(t, mode)
  PROVE  SourcesTyped'
<1>1. /\ DOMAIN sources' = Kinds
      /\ \A k \in Kinds : sources'[k] = NewSource(mode) \/ sources'[k] = NoSource
  BY DEF startTradeStream
<1>. QED
  BY <1>1, NewSourceOpen DEF SourcesTyped

LEMMA AnswerTyped ==
  ASSUME Typed, NEW kinds, sources' = Overwritten(kinds),
         \A k \in kinds : k \in Kinds => Subscribed(k)
  PROVE  SourcesTyped'
<1>1. /\ DOMAIN sources' = Kinds
      /\ \A k \in Kinds : sources'[k] = IF k \in kinds THEN [sources[k] EXCEPT !.stale = TRUE]
                                                       ELSE sources[k]
  BY DEF Overwritten
<1>2. ASSUME NEW k \in Kinds PROVE sources'[k] \in {NoSource} \cup OpenSources(k)
  <2>1. CASE k \in kinds
    <3>1. sources[k] \in OpenSources(k)
      BY <2>1 DEF Typed, Subscribed, NoSource
    <3>. QED
      BY <1>1, <2>1, <3>1, SourceChanges
  <2>2. CASE k \notin kinds
    BY <1>1, <2>2 DEF Typed
  <2>. QED
    BY <2>1, <2>2
<1>. QED
  BY <1>1, <1>2 DEF SourcesTyped

LEMMA PublishTyped ==
  ASSUME Typed, NEW p \in pubs, Publish(p)
  PROVE  SourcesTyped'
<1> DEFINE k == p.kind
<1>1. k \in Kinds /\ p \in Event(k)
  BY DEF Typed
<1>2. DOMAIN sources' = DOMAIN sources /\ \A l \in Kinds : l # k => sources'[l] = sources[l]
  BY DEF Publish, Typed
<1>3. CASE ~Subscribed(k)
  BY <1>3 DEF Publish, Typed, SourcesTyped
<1>4. CASE Subscribed(k) /\ Len(sources[k].queue) < QueueSize
  <2>1. sources[k] \in OpenSources(k)
    BY <1>1, <1>4 DEF Typed, Subscribed, NoSource
  <2>2. sources[k].queue \in Seq(Event(k))
    BY <2>1 DEF OpenSources
  <2> DEFINE q == Append(sources[k].queue, p)
  <2>3. sources'[k] = [sources[k] EXCEPT !.queue = q]
    BY <1>1, <1>4 DEF Publish, Typed
  <2>4. q \in Seq(Event(k)) /\ Len(q) = Len(sources[k].queue) + 1
    BY <1>1, <2>2
  <2>5. Len(q) <= QueueSize
    BY <1>4, <2>2, <2>4, Numbers
  <2>6. sources'[k] \in OpenSources(k)
    <3>1. \A x \in Seq(Event(k)) : Len(x) <= QueueSize =>
            [sources[k] EXCEPT !.queue = x] \in OpenSources(k)
      BY <2>1, SourceChanges
    <3> HIDE DEF q
    <3>2. [sources[k] EXCEPT !.queue = q] \in OpenSources(k)
      BY <2>4, <2>5, <3>1
    <3>. QED
      BY <2>3, <3>2
  <2>. QED
    BY <1>1, <1>2, <2>6, OneTyped
<1>5. CASE Subscribed(k) /\ ~(Len(sources[k].queue) < QueueSize)
  <2>1. sources[k] \in OpenSources(k)
    BY <1>1, <1>5 DEF Typed, Subscribed, NoSource
  <2>2. sources'[k] = [sources[k] EXCEPT !.missed = TRUE]
    BY <1>1, <1>5 DEF Publish, Typed
  <2>3. [sources[k] EXCEPT !.missed = TRUE] \in OpenSources(k)
    BY <2>1, SourceChanges
  <2>4. sources'[k] \in OpenSources(k)
    BY <2>2, <2>3
  <2>. QED
    BY <1>1, <1>2, <2>4, OneTyped
<1>. QED
  BY <1>3, <1>4, <1>5

LEMMA StreamTyped ==
  ASSUME Typed, History, NEW k \in Kinds,
         Subscribe(k) \/ Snapshot(k) \/ Receive(k) \/ Disconnect(k) \/ Refuse(k)
  PROVE  SourcesTyped'
<1>0. DOMAIN sources = Kinds
  BY DEF Typed
<1>1. sources[k] \in OpenSources(k)
  <2>1. sources[k].phase # "closed"
    BY DEF Subscribe, Snapshot, Receive, Disconnect, Refuse, Subscribed
  <2>2. sources[k] \in {NoSource} \cup OpenSources(k)
    BY DEF Typed
  <2>. QED
    BY <2>1, <2>2 DEF NoSource
<1>2. Now \in 0..MaxWrites
  BY Moments, Numbers
<1>3. CASE Subscribe(k)
  <2>1. sources' = [sources EXCEPT ![k].phase = "open", ![k].from = Now]
    BY <1>3 DEF Subscribe
  <2>2. DOMAIN sources' = DOMAIN sources /\ \A l \in Kinds : l # k => sources'[l] = sources[l]
    BY <1>0, <2>1
  <2>3. sources'[k] = [[sources[k] EXCEPT !.phase = "open"] EXCEPT !.from = Now]
    BY <1>0, <2>1
  <2>4. [sources[k] EXCEPT !.phase = "open"] \in OpenSources(k)
    BY <1>1, SourceChanges
  <2>5. \A v \in 0..MaxWrites :
          [[sources[k] EXCEPT !.phase = "open"] EXCEPT !.from = v] \in OpenSources(k)
    BY <2>4, SourceChanges
  <2>6. sources'[k] \in OpenSources(k)
    BY <1>2, <2>3, <2>5
  <2>. QED
    BY <2>2, <2>6, OneTyped
<1>4. CASE Snapshot(k)
  <2>1. PICK v \in sources[k].from..Now :
          sources' = [sources EXCEPT ![k].phase = "live", ![k].seen = v, ![k].stale = FALSE]
    BY <1>4 DEF Snapshot
  <2>2. DOMAIN sources' = DOMAIN sources /\ \A l \in Kinds : l # k => sources'[l] = sources[l]
    BY <1>0, <2>1
  <2>3. sources'[k] =
          [[[sources[k] EXCEPT !.phase = "live"] EXCEPT !.seen = v] EXCEPT !.stale = FALSE]
    <3>1. sources'[k] =
            [sources[k] EXCEPT !.phase = "live", !.seen = v, !.stale = FALSE]
      BY <1>0, <2>1
    <3>. QED
      BY <3>1
  <2>4. sources[k].from \in 0..MaxWrites
    BY <1>1 DEF OpenSources
  <2>5. v \in 0..MaxWrites
    BY <1>2, <2>4, Numbers
  <2>6. [sources[k] EXCEPT !.phase = "live"] \in OpenSources(k)
    BY <1>1, SourceChanges
  <2>7. [[sources[k] EXCEPT !.phase = "live"] EXCEPT !.seen = v] \in OpenSources(k)
    BY <2>5, <2>6, SourceChanges
  <2>8. sources'[k] \in OpenSources(k)
    <3> DEFINE shown == [[sources[k] EXCEPT !.phase = "live"] EXCEPT !.seen = v]
    <3>1. shown \in OpenSources(k)
      BY <2>7
    <3>2. sources'[k] = [shown EXCEPT !.stale = FALSE]
      BY <2>3
    <3> HIDE DEF shown
    <3>. QED
      BY <3>1, <3>2, SourceChanges
  <2>. QED
    BY <2>2, <2>8, OneTyped
<1>5. CASE Receive(k)
  <2> DEFINE q == sources[k].queue
             seen == IF Head(q).ver > sources[k].seen THEN Head(q).ver ELSE sources[k].seen
  <2>1. sources' = [sources EXCEPT ![k].queue = Tail(@),
                      ![k].seen = IF Head(q).ver > @ THEN Head(q).ver ELSE @]
    BY <1>5 DEF Receive
  <2>2. DOMAIN sources' = DOMAIN sources /\ \A l \in Kinds : l # k => sources'[l] = sources[l]
    BY <1>0, <2>1
  <2>3. sources'[k] = [[sources[k] EXCEPT !.queue = Tail(q)] EXCEPT !.seen = seen]
    BY <1>0, <2>1
  <2>4. q \in Seq(Event(k)) /\ Len(q) <= QueueSize /\ q # <<>> /\ sources[k].seen \in 0..MaxWrites
    BY <1>1, <1>5 DEF OpenSources, Receive
  <2>5. Tail(q) \in Seq(Event(k)) /\ Len(Tail(q)) = Len(q) - 1 /\ Len(q) \in Nat
        /\ Head(q) \in Event(k)
    BY <2>4
  <2>6. Len(Tail(q)) <= QueueSize
    BY <2>4, <2>5, Numbers
  <2>7. Head(q).ver \in 0..MaxWrites
    BY <2>5, EventFields, Numbers
  <2>8. seen \in 0..MaxWrites
    BY <2>4, <2>7
  <2>9. [sources[k] EXCEPT !.queue = Tail(q)] \in OpenSources(k)
    <3>1. \A x \in Seq(Event(k)) : Len(x) <= QueueSize =>
            [sources[k] EXCEPT !.queue = x] \in OpenSources(k)
      BY <1>1, SourceChanges
    <3> HIDE DEF q
    <3>. QED
      BY <2>5, <2>6, <3>1
  <2>10. sources'[k] \in OpenSources(k)
    <3>1. \A v \in 0..MaxWrites :
            [[sources[k] EXCEPT !.queue = Tail(q)] EXCEPT !.seen = v] \in OpenSources(k)
      <4> HIDE DEF q
      <4>. QED
        BY <2>9, SourceChanges
    <3> HIDE DEF seen, q
    <3>. QED
      BY <2>3, <2>8, <3>1
  <2>. QED
    BY <2>2, <2>10, OneTyped
<1>6. CASE Disconnect(k) \/ Refuse(k)
  <2>1. DOMAIN sources' = DOMAIN sources /\ \A l \in Kinds : l # k => sources'[l] = sources[l]
    BY <1>0, <1>6 DEF Disconnect, Refuse
  <2>2. \/ sources'[k] = NewSource(sources[k].mode)
        \/ sources'[k] = [NewSource(sources[k].mode) EXCEPT !.phase = "dead"]
    BY <1>0, <1>6 DEF Disconnect, Refuse
  <2>3. sources[k].mode \in Filters
    BY <1>1 DEF OpenSources
  <2>4. sources'[k] \in OpenSources(k)
    BY <2>2, <2>3, NewSourceOpen
  <2>. QED
    BY <2>1, <2>4, OneTyped
<1>. QED
  BY <1>3, <1>4, <1>5, <1>6

\* An event or an answer leaves lists of rows.
LEMMA UpsertTyped ==
  ASSUME Typed, History, NEW k \in Kinds, Ordered(k, lists[k]), NEW row \in Known(k)
  PROVE  upsertSorted(k, lists[k], row) \in Seq(Rows)
<1> DEFINE S == Without(ToSet(lists[k]), row.id) \cup {row}
<1>1. lists[k] \in Seq(Rows)
  BY DEF Typed
<1>2. Single(k, S) /\ IsFiniteSet(S)
  BY <1>1, ListSingle, UpsertSingle
<1>3. upsertSorted(k, lists[k], row) = limitSortedItems(k, S)
  BY DEF upsertSorted
<1> HIDE DEF S
<1>. QED
  BY <1>2, <1>3, SortedOrdered

LEMMA ListChanges ==
  ASSUME Typed, NEW k \in Kinds, NEW list \in Seq(Rows), lists' = [lists EXCEPT ![k] = list]
  PROVE  lists' \in [Kinds -> Seq(Rows)]
BY DEF Typed

LEMMA ListsTyped ==
  ASSUME Typed, History, Asked, StreamsShow,
         \/ UNCHANGED lists
         \/ \E k \in Kinds : Snapshot(k) \/ Receive(k)
         \/ \E s \in InFlight : LoadAnswered(s) \/ AddAnswered(s) \/ RemoveAnswered(s)
  PROVE  lists' \in [Kinds -> Seq(Rows)]
<1>0. Now \in Nat /\ \A k \in Kinds : Ordered(k, lists[k]) /\ lists[k] \in Seq(Rows)
  BY Moments DEF StreamsShow, Showing, Typed
<1>1. CASE UNCHANGED lists
  BY <1>1 DEF Typed
<1>2. ASSUME NEW k \in Kinds, Snapshot(k) PROVE lists' \in [Kinds -> Seq(Rows)]
  <2>1. PICK v \in sources[k].from..Now : lists' = [lists EXCEPT ![k] = View(k, sources[k].mode, v)]
    BY <1>2 DEF Snapshot
  <2>2. sources[k] \in OpenSources(k)
    <3>1. Subscribed(k)
      BY <1>2 DEF Snapshot, Subscribed
    <3>. QED
      BY <3>1, BaseIs
  <2>3. sources[k].from \in Nat
    BY <2>2, Numbers DEF OpenSources
  <2>4. v \in 0..Now
    BY <1>0, <2>3
  <2>. QED
    BY <2>1, <2>4, ViewOrdered, ListChanges
<1>3. ASSUME NEW k \in Kinds, Receive(k) PROVE lists' \in [Kinds -> Seq(Rows)]
  <2> DEFINE q == sources[k].queue
             row == Head(q).row
             list == IF ~matchesTradeMode(k, row.id, sources[k].mode) THEN lists[k]
                     ELSE IF Head(q).type = "upsert" THEN upsertSorted(k, lists[k], row)
                     ELSE remove(lists[k], row.id)
  <2>1. lists' = [lists EXCEPT ![k] = list] /\ q # <<>> /\ Subscribed(k)
    BY <1>3 DEF Receive, Subscribed, Typed
  <2>2. q \in Seq(Event(k))
    BY <2>1, BaseIs DEF OpenSources
  <2>3. Head(q) \in Queued(k)
    BY <2>1, <2>2 DEF Queued, ToSet
  <2>4. row \in Known(k)
    BY <2>1, <2>3 DEF StreamsShow, Showing, Stream
  <2>5. upsertSorted(k, lists[k], row) \in Seq(Rows)
    BY <1>0, <2>4, UpsertTyped
  <2>6. remove(lists[k], row.id) \in Seq(Rows)
    BY <1>0, RemoveIs
  <2>7. list \in Seq(Rows)
    BY <1>0, <2>5, <2>6
  <2> HIDE DEF list
  <2>. QED
    BY <2>1, <2>7, ListChanges
<1>4. ASSUME NEW s \in InFlight
      PROVE  /\ requests[s] \in Request /\ s \in Slots /\ requests[s] # NoRequest
             /\ requests[s].from \in Nat /\ requests[s].from <= Now
  <2>1. requests[s] \in Request /\ s \in Slots /\ requests[s] # NoRequest
    BY DEF Typed, InFlight
  <2>. QED
    BY <2>1, Numbers DEF Request, Asked
<1>5. ASSUME NEW s \in InFlight, LoadAnswered(s) PROVE lists' \in [Kinds -> Seq(Rows)]
  <2>1. PICK v \in [Kinds -> requests[s].from..Now] :
          lists' = [k \in Kinds |-> View(k, requests[s].mode, v[k])]
    BY <1>5 DEF LoadAnswered
  <2>2. \A k \in Kinds : v[k] \in 0..Now
    BY <1>0, <1>4
  <2>. QED
    BY <2>1, <2>2, ViewOrdered
<1>6. ASSUME NEW s \in InFlight, AddAnswered(s) PROVE lists' \in [Kinds -> Seq(Rows)]
  <2> DEFINE c == "candidates"
  <2>0. c \in Kinds
    BY Constants
  <2>1. PICK row \in Table(c, requests[s].from) :
          lists' = [lists EXCEPT ![c] = upsertSorted(c, lists[c], row)]
    BY <1>6, <2>0 DEF AddAnswered, Typed
  <2>2. row \in Known(c)
    BY <1>0, <1>4 DEF Known
  <2>. QED
    BY <1>0, <2>0, <2>1, <2>2, UpsertTyped, ListChanges
<1>7. ASSUME NEW s \in InFlight, RemoveAnswered(s) PROVE lists' \in [Kinds -> Seq(Rows)]
  <2> DEFINE c == "candidates"
             list == remove(lists[c], requests[s].id)
  <2>0. c \in Kinds
    BY Constants
  <2>1. lists' = [lists EXCEPT ![c] = list]
    BY <1>7, <2>0 DEF RemoveAnswered, Typed
  <2>2. list \in Seq(Rows)
    BY <1>0, <2>0, RemoveIs
  <2> HIDE DEF list
  <2>. QED
    BY <2>0, <2>1, <2>2, ListChanges
<1>. QED
  BY <1>1, <1>2, <1>3, <1>5, <1>6, <1>7

-----------------------------------------------------------------------------
(* The invariant.                                                          *)

ShowInv == Typed /\ History /\ Events /\ Asked /\ StreamsShow

LEMMA WriteKeeps ==
  ASSUME ShowInv, Write \/ \E s \in InFlight : Execute(s)
  PROVE  ShowInv'
<1>1. Typed /\ History /\ Events /\ Asked /\ StreamsShow
  BY DEF ShowInv
<1>2. UNCHANGED <<tab, filter, lists, sources, loading>> /\ Now < MaxWrites
  BY <1>1, WriteChanges DEF Write, Execute
<1>3. PICK k \in Kinds, id \in Ids : \E table, event :
        Change(k, id, table, event) /\ Commit(k, table, event)
  BY <1>1, WriteChanges
<1>4. PICK table, event : Change(k, id, table, event) /\ Commit(k, table, event)
  BY <1>3
<1>5. History' /\ Events'
  BY <1>1, <1>4, HistoryChanges, EventsChange
<1>6. requests' \in [Slots -> Request \cup {NoRequest}] /\ Asked'
  <2>1. CASE Write
    <3>1. UNCHANGED requests
      BY <2>1 DEF Write
    <3>. QED
      BY <1>1, <1>4, <3>1, WriteAsked DEF Typed
  <2>2. CASE \E s \in InFlight : Execute(s)
    BY <1>1, <2>2, ExecuteAsked
  <2>. QED
    BY <2>1, <2>2
<1>7. Typed'
  BY <1>1, <1>2, <1>4, <1>6, ChangeTyped
<1>8. ASSUME NEW l \in Kinds PROVE Showing(l)'
  BY <1>1, <1>2, <1>4, ChangeShows, OthersShow
<1>. QED
  BY <1>5, <1>6, <1>7, <1>8 DEF ShowInv, StreamsShow

LEMMA PublishKeepsShow ==
  ASSUME ShowInv, NEW p \in pubs, Publish(p)
  PROVE  ShowInv'
<1>1. Typed /\ History /\ Events /\ Asked /\ StreamsShow
  BY DEF ShowInv
<1>2. UNCHANGED <<history, tab, filter, lists, requests, loading>> /\ pubs' \subseteq pubs
  BY DEF Publish
<1>3. Typed'
  BY <1>1, <1>2, PublishTyped, StillTyped DEF Typed
<1>. QED
  BY <1>1, <1>2, <1>3, StillKnown, StillAsked, PublishShows DEF ShowInv

LEMMA NetworkKeepsShow ==
  ASSUME ShowInv, Network
  PROVE  ShowInv'
<1>1. Typed /\ History /\ Events /\ Asked /\ StreamsShow
  BY DEF ShowInv
<1>2. UNCHANGED history /\ UNCHANGED pubs /\ UNCHANGED filter /\ tab' \in Tabs
  <2>1. tab \in Tabs /\ "candidates" \in Tabs
    BY <1>1, TradeStreamAssumption DEF Typed
  <2>. QED
    BY <2>1 DEF Network, Subscribe, Snapshot, Receive, Disconnect, Refuse, LoadAnswered,
                ActAnswered, AddAnswered, RemoveAnswered, RequestFailed
<1>3. ASSUME lists' \in [Kinds -> Seq(Rows)], SourcesTyped', StreamsShow',
             requests' \in [Slots -> Request \cup {NoRequest}], loading' \in BOOLEAN,
             \A s \in Slots : \/ requests'[s] = requests[s]
                              \/ requests'[s] = NoRequest
                              \/ requests'[s].from = Now /\ requests'[s].op # "removed"
      PROVE  ShowInv'
  <2>1. Typed'
    BY <1>1, <1>2, <1>3, StillTyped DEF Typed
  <2>2. History' /\ Events'
    BY <1>1, <1>2, StillKnown
  <2>3. Now \in Nat
    BY <1>1, Moments
  <2>4. Asked'
    BY <1>1, <1>2, <1>3, <2>3, StillAsked
  <2>. QED
    BY <1>3, <2>1, <2>2, <2>4 DEF ShowInv
<1>4. ASSUME NEW k \in Kinds,
             Subscribe(k) \/ Snapshot(k) \/ Receive(k) \/ Disconnect(k) \/ Refuse(k)
      PROVE  ShowInv'
  <2>1. UNCHANGED requests /\ UNCHANGED loading
    BY <1>4 DEF Subscribe, Snapshot, Receive, Disconnect, Refuse
  <2>2. requests' \in [Slots -> Request \cup {NoRequest}] /\ loading' \in BOOLEAN
    BY <1>1, <2>1 DEF Typed
  <2>3. SourcesTyped'
    BY <1>1, <1>4, StreamTyped
  <2>4. lists' \in [Kinds -> Seq(Rows)]
    <3>1. UNCHANGED lists \/ Snapshot(k) \/ Receive(k)
      BY <1>4 DEF Subscribe, Disconnect, Refuse
    <3>. QED
      BY <1>1, <3>1, ListsTyped
  <2>5. StreamsShow'
    BY <1>1, <1>4, SubscribeShows, SnapshotShows, ReceiveShows, BreakShows
  <2>. QED
    BY <1>3, <2>1, <2>2, <2>3, <2>4, <2>5
<1>5. ASSUME NEW s \in InFlight, LoadAnswered(s) \/ AddAnswered(s) \/ RemoveAnswered(s)
      PROVE  ShowInv'
  <2>1. s \in Slots /\ requests[s] \in Request
    BY <1>1 DEF InFlight, Typed
  <2>2. Settle(s)
    BY <1>5 DEF LoadAnswered, AddAnswered, RemoveAnswered
  <2>3. /\ requests' \in [Slots -> Request \cup {NoRequest}] /\ loading' \in BOOLEAN
        /\ \A t \in Slots : requests'[t] = requests[t] \/ requests'[t] = NoRequest
    BY <1>1, <2>1, <2>2, SettleIs
  <2>4. lists' \in [Kinds -> Seq(Rows)]
    BY <1>1, <1>5, ListsTyped
  <2>5. filter \in Filters /\ requests[s].mode \in Filters
    BY <1>1, <2>1 DEF Typed, Request
  <2>6. SourcesTyped'
    <3>1. \/ \E t : \E mode \in Filters : sources' = startTradeStream(t, mode)
          \/ \E kinds : /\ sources' = Overwritten(kinds)
                        /\ \A k \in kinds : k \in Kinds => Subscribed(k)
      <4>1. \A k, v, mode : Unfit(k, v, mode) => Subscribed(k)
        BY DEF Unfit, Subscribed
      <4>2. CASE LoadAnswered(s)
        <5>1. PICK v : sources' = IF requests[s].op = "load"
                                  THEN startTradeStream(tab, requests[s].mode)
                                  ELSE Overwritten({k \in Kinds : Unfit(k, v[k], requests[s].mode)})
          BY <4>2 DEF LoadAnswered
        <5>2. CASE requests[s].op = "load"
          BY <2>5, <5>1, <5>2
        <5>3. CASE requests[s].op # "load"
          <6> DEFINE kinds == {k \in Kinds : Unfit(k, v[k], requests[s].mode)}
          <6>1. sources' = Overwritten(kinds)
            BY <5>1, <5>3
          <6>2. \A k \in kinds : k \in Kinds => Subscribed(k)
            BY <4>1
          <6> HIDE DEF kinds
          <6>. QED
            BY <6>1, <6>2
        <5>. QED
          BY <5>2, <5>3
      <4> DEFINE kinds == {k \in {"candidates"} : Unfit(k, requests[s].from, filter)}
      <4>5. \A k \in kinds : k \in Kinds => Subscribed(k)
        BY <4>1
      <4>3. CASE AddAnswered(s)
        <5>1. sources' = startTradeStream("candidates", filter) \/ sources' = Overwritten(kinds)
          BY <4>3 DEF AddAnswered
        <5> HIDE DEF kinds
        <5>. QED
          BY <2>5, <4>5, <5>1
      <4>4. CASE RemoveAnswered(s)
        <5>1. sources' = Overwritten(kinds)
          BY <4>4 DEF RemoveAnswered
        <5> HIDE DEF kinds
        <5>. QED
          BY <4>5, <5>1
      <4>. QED
        BY <1>5, <4>2, <4>3, <4>4
    <3>. QED
      BY <1>1, <3>1, RestartTyped, AnswerTyped
  <2>7. StreamsShow'
    BY <1>1, <1>5, LoadShows, AddShows, RemoveShows
  <2>. QED
    BY <1>3, <2>3, <2>4, <2>6, <2>7
<1>6. ASSUME NEW s \in InFlight, ActAnswered(s) \/ RequestFailed(s)
      PROVE  ShowInv'
  <2>1. UNCHANGED lists /\ UNCHANGED sources
    BY <1>6 DEF ActAnswered, RequestFailed
  <2>2. s \in Slots
    BY DEF InFlight
  <2>3. /\ requests' \in [Slots -> Request \cup {NoRequest}] /\ loading' \in BOOLEAN
        /\ \A t \in Slots : \/ requests'[t] = requests[t]
                            \/ requests'[t] = NoRequest
                            \/ requests'[t].from = Now /\ requests'[t].op # "removed"
    BY <1>1, <1>6, <2>2, SettleIs, ReloadIs DEF RequestFailed
  <2>4. lists' \in [Kinds -> Seq(Rows)] /\ SourcesTyped'
    BY <1>1, <2>1 DEF Typed, SourcesTyped
  <2>5. \A k \in Kinds : Unpublished(k)' = Unpublished(k)
    BY <1>2 DEF Unpublished
  <2>6. StreamsShow'
    BY <1>1, <1>2, <2>1, <2>5, Quiet DEF StreamsShow
  <2>. QED
    BY <1>3, <2>3, <2>4, <2>6
<1>. QED
  BY <1>4, <1>5, <1>6 DEF Network

LEMMA UserKeepsShow ==
  ASSUME ShowInv, User
  PROVE  ShowInv'
<1>1. Typed /\ History /\ Events /\ Asked /\ StreamsShow
  BY DEF ShowInv
<1>2. UNCHANGED history /\ UNCHANGED pubs /\ UNCHANGED lists
  BY DEF User, ChangeTab, ChangeFilter, refreshTradeDashboard, Act, ChangePool
<1>3. AnyId \in Ids /\ filter \in Filters /\ tab \in Tabs /\ Now \in Nat
  BY <1>1, Constants, Moments DEF Typed
<1>4. tab' \in Tabs /\ filter' \in Filters
  BY <1>3 DEF User, ChangeTab, ChangeFilter, refreshTradeDashboard, Act, ChangePool
<1>5. /\ requests' \in [Slots -> Request \cup {NoRequest}] /\ loading' \in BOOLEAN
      /\ \A s \in Slots : \/ requests'[s] = requests[s]
                          \/ requests'[s].from = Now /\ requests'[s].op # "removed"
  <2>1. CASE \E t \in Tabs : ChangeTab(t)
    BY <1>1, <2>1 DEF ChangeTab, Typed
  <2>2. CASE \E mode \in Filters : ChangeFilter(mode)
    BY <1>1, <1>3, <2>2, SendIs DEF ChangeFilter
  <2>3. CASE \E after \in {"refresh", "mode"} : refreshTradeDashboard(after)
    BY <1>1, <1>3, <2>3, SendIs DEF refreshTradeDashboard
  <2>4. CASE Act
    BY <1>1, <1>3, <2>4, SendIs DEF Act
  <2>5. CASE \E op \in {"add", "remove"}, id \in Ids : ChangePool(op, id)
    BY <1>1, <1>3, <2>5, SendIs DEF ChangePool
  <2>. QED
    BY <2>1, <2>2, <2>3, <2>4, <2>5 DEF User
<1>6. SourcesTyped' /\ StreamsShow'
  <2>1. CASE \E t \in Tabs : ChangeTab(t)
    <3>1. PICK t \in Tabs : sources' = startTradeStream(t, filter)
      BY <2>1 DEF ChangeTab
    <3>2. \A k \in Kinds : Ordered(k, lists'[k])
      BY <1>1, <1>2 DEF StreamsShow, Showing
    <3>. QED
      BY <1>1, <1>2, <1>3, <3>1, <3>2, RestartTyped, RestartShows
  <2>2. CASE UNCHANGED sources
    <3>1. \A k \in Kinds : Unpublished(k)' = Unpublished(k)
      BY <1>2 DEF Unpublished
    <3>2. StreamsShow'
      BY <1>1, <1>2, <2>2, <3>1, Quiet DEF StreamsShow
    <3>. QED
      BY <1>1, <2>2, <3>2 DEF Typed, SourcesTyped
  <2>. QED
    BY <2>1, <2>2 DEF User, ChangeFilter, refreshTradeDashboard, Act, ChangePool
<1>7. lists' \in [Kinds -> Seq(Rows)]
  BY <1>1, <1>2 DEF Typed
<1>8. Typed'
  BY <1>1, <1>2, <1>4, <1>5, <1>6, <1>7, StillTyped
<1>9. History' /\ Events' /\ Asked'
  BY <1>1, <1>2, <1>3, <1>5, StillKnown, StillAsked
<1>. QED
  BY <1>6, <1>8, <1>9 DEF ShowInv

LEMMA ShowInit ==
  ASSUME Init
  PROVE  ShowInv
<1> DEFINE row == [id |-> AnyId, at |-> 0, ver |-> 0]
           first == [k \in Kinds |-> {row}]
<1>1. history = <<first>> /\ pubs = {} /\ AnyId \in Ids /\ "all" \in Filters
  BY Constants DEF Init
<1>2. row \in Rows /\ row.id = AnyId /\ row.at = 0 /\ row.ver = 0
  BY <1>1, Numbers DEF Rows
<1> HIDE DEF row
<1>3. first \in Tables
  BY <1>2 DEF Tables
<1>4. Len(history) = 1 /\ history[1] = first /\ history \in Seq(Tables)
  <2> HIDE DEF first
  <2>. QED
    BY <1>1, <1>3
<1>5. Now = 0 /\ 1 \in 1..(MaxWrites + 1)
  BY <1>4, Numbers DEF Now
<1>6. \A k \in Kinds : \A v \in 0..0 : Table(k, v) = {row}
  BY <1>4 DEF Table
<1>7. \A k \in Kinds : Known(k) = {row} /\ Table(k, Now) = {row}
  BY <1>5, <1>6 DEF Known
<1>8. lists = [k \in Kinds |-> <<>>] /\ sources = [k \in Kinds |-> NoSource]
      /\ tab \in Tabs /\ filter = "all" /\ loading = TRUE
  BY DEF Init
<1>9. requests \in [Slots -> Request \cup {NoRequest}]
      /\ \A s \in Slots : requests[s] # NoRequest =>
           requests[s].op = "load" /\ requests[s].from = 0
  <2> DEFINE load == [op |-> "load", id |-> AnyId, mode |-> "all", from |-> 0]
  <2>1. load \in Request /\ load.op = "load" /\ load.from = 0
    BY <1>1, Numbers DEF Request, Ops
  <2>2. requests = [s \in Slots |-> IF s = 1 THEN load ELSE NoRequest]
    BY DEF Init
  <2> HIDE DEF load
  <2>. QED
    BY <2>1, <2>2
<1>10. IsFiniteSet({row})
  BY FS_Singleton
<1>11. Typed
  <2>1. \A k \in Kinds : \A v \in 0..Now : IsFiniteSet(Table(k, v))
    BY <1>5, <1>6, <1>10
  <2>. QED
    BY <1>1, <1>4, <1>5, <1>8, <1>9, <2>1 DEF Typed
<1>12. History
  BY <1>2, <1>5, <1>6, <1>7 DEF History
<1>13. Events /\ Asked
  BY <1>1, <1>5, <1>9 DEF Events, Asked
<1>14. ASSUME NEW k \in Kinds PROVE Showing(k)
  <2>1. Unpublished(k) = {}
    BY <1>1 DEF Unpublished
  <2>2. sources[k].phase = "closed" /\ lists[k] = <<>>
    BY <1>8 DEF NoSource
  <2>3. Ordered(k, lists[k])
    BY <2>2, Numbers DEF Ordered, ToSet
  <2>. QED
    BY <2>1, <2>2, <2>3 DEF Showing, LastTells, Stream, Shown, Subscribed
<1>. QED
  BY <1>11, <1>12, <1>13, <1>14 DEF ShowInv, StreamsShow

LEMMA ShowStep ==
  ASSUME ShowInv, [Next]_vars
  PROVE  ShowInv'
<1>1. CASE Backend
  BY <1>1, WriteKeeps, PublishKeepsShow DEF Backend
<1>2. CASE Network
  BY <1>2, NetworkKeepsShow
<1>3. CASE User
  BY <1>3, UserKeepsShow
<1>4. CASE UNCHANGED vars
  <2>1. Typed /\ History /\ Events /\ Asked /\ StreamsShow
    BY DEF ShowInv
  <2>2. /\ UNCHANGED history /\ UNCHANGED pubs /\ UNCHANGED requests
        /\ UNCHANGED lists /\ UNCHANGED sources
        /\ UNCHANGED <<tab, filter, loading>>
    BY <1>4 DEF vars
  <2>3. Typed'
    BY <2>1, <2>2, StillTyped DEF Typed, SourcesTyped
  <2>4. History' /\ Events' /\ Asked'
    BY <2>1, <2>2, StillKnown, StillAsked
  <2>5. \A k \in Kinds : Unpublished(k)' = Unpublished(k)
    BY <2>2 DEF Unpublished
  <2>6. StreamsShow'
    BY <2>1, <2>2, <2>5, Quiet DEF StreamsShow
  <2>. QED
    BY <2>3, <2>4, <2>6 DEF ShowInv
<1>. QED
  BY <1>1, <1>2, <1>3, <1>4 DEF Next

-----------------------------------------------------------------------------
(* What follows.                                                           *)

LEMMA TypedIsTypeOK ==
  ASSUME Typed
  PROVE  TypeOK
<1>1. \A k \in Kinds : ToSet(lists[k]) \subseteq Rows
  BY DEF Typed, ToSet
<1>2. ASSUME NEW k \in Kinds PROVE sources[k] \in Source(k)
  <2>1. CASE sources[k] = NoSource
    BY <2>1 DEF Source
  <2>2. CASE sources[k] \in OpenSources(k)
    <3> DEFINE q == sources[k].queue
               E == Event(k)
    <3>1. q \in Seq(Event(k)) /\ Len(q) <= QueueSize
      BY <2>2 DEF OpenSources
    <3>2. q \in Seq(E)
      BY <3>1
    <3>3. Len(q) \in 0..QueueSize
      BY <3>1, Numbers
    <3>4. q \in [1..Len(q) -> E]
      <4> HIDE DEF E
      <4>. QED
        BY <3>2
    <3>5. q \in UNION {[1..n -> E] : n \in 0..QueueSize}
      BY <3>3, <3>4
    <3> HIDE DEF E
    <3>. QED
      BY <2>2, <3>5 DEF Source, OpenSources, E
  <2>. QED
    BY <2>1, <2>2 DEF Typed
<1>3. /\ Len(history) \in 1..(MaxWrites + 1)
      /\ tab \in Tabs /\ filter \in Filters /\ loading \in BOOLEAN
      /\ \A s \in Slots : requests[s] \in Request \cup {NoRequest}
  BY DEF Typed
<1>. QED
  BY <1>1, <1>2, <1>3 DEF TypeOK

LEMMA ShownIsOrdered ==
  ASSUME Typed, StreamsShow
  PROVE  ListsAreOrdered
<1>1. \A k \in Kinds : Ordered(k, lists[k]) /\ DOMAIN lists[k] = 1..Len(lists[k])
  BY DEF StreamsShow, Showing, Typed
<1>. QED
  BY <1>1 DEF ListsAreOrdered, Ordered

\* A list in order is what sorting its rows makes.
LEMMA OrderedLists ==
  ASSUME Typed, History, NEW k \in Kinds, NEW list \in Seq(Rows), Ordered(k, list)
  PROVE  Enumerates(list, Len(list), ToSet(list), Coming(k, ToSet(list)))
<1> DEFINE S == ToSet(list)
<1>1. Len(list) \in Nat /\ DOMAIN list = 1..Len(list) /\ list \in [1..Len(list) -> S]
  BY DEF ToSet
<1>2. \A i, j \in 1..Len(list) : i < j => Comes(k, list[i], list[j])
  BY <1>1 DEF Ordered, Comes
<1>3. \A i, j \in 1..Len(list) : i < j => <<list[i], list[j]>> \in Coming(k, S)
  BY <1>1, <1>2 DEF Coming
<1>4. \A x \in S : \E i \in 1..Len(list) : list[i] = x
  BY <1>1 DEF ToSet
<1>. QED
  BY <1>1, <1>3, <1>4 DEF Enumerates

LEMMA SameRows ==
  ASSUME Typed, History, NEW k \in Kinds, NEW s \in Seq(Rows), NEW t \in Seq(Rows),
         Ordered(k, s), Ordered(k, t), ToSet(s) = ToSet(t)
  PROVE  s = t
<1>1. ToSet(s) \in SUBSET Rows /\ Len(s) \in Nat /\ Len(t) \in Nat
  BY DEF ToSet
<1>2. StrictOrder(ToSet(s), Coming(k, ToSet(s)))
  BY <1>1, ComesOrders
<1>3. /\ Enumerates(s, Len(s), ToSet(s), Coming(k, ToSet(s)))
      /\ Enumerates(t, Len(t), ToSet(s), Coming(k, ToSet(s)))
  BY OrderedLists
<1>. QED
  BY <1>1, <1>2, <1>3, SameArrangement

\* A page is full or has all rows.
LEMMA PageFull ==
  ASSUME Typed, History, NEW k \in Kinds, NEW S, Single(k, S), IsFiniteSet(S),
         NEW rows \in SUBSET S, ToSet(limitSortedItems(k, S)) \subseteq rows,
         k # "candidates" => Cardinality(rows) <= Limit
  PROVE  rows = ToSet(limitSortedItems(k, S))
<1> DEFINE s == limitSortedItems(k, S)
<1>1. S \in SUBSET Rows
  BY KnownRows DEF Single
<1>2. CASE k = "candidates"
  <2>1. ToSet(s) = S
    BY <1>1, <1>2, SortedIs
  <2>. QED
    BY <2>1
<1>3. CASE k # "candidates"
  <2>1. s \in Seq(Rows) /\ (ToSet(s) = S \/ Len(s) = Limit) /\ Ordered(k, s)
    BY <1>1, <1>3, SortedIs, SortedOrdered
  <2>2. CASE ToSet(s) = S
    BY <2>2
  <2>3. CASE Len(s) = Limit
    <3> HIDE DEF s
    <3>1. Cardinality(ToSet(s)) = Limit
      <4>1. /\ StrictOrder(ToSet(s), Coming(k, ToSet(s)))
            /\ Enumerates(s, Limit, ToSet(s), Coming(k, ToSet(s)))
        <5>1. ToSet(s) \in SUBSET Rows
          BY <2>1 DEF ToSet
        <5>. QED
          BY <2>1, <2>3, <5>1, ComesOrders, OrderedLists
      <4>. QED
        BY <4>1, Numbers, RankInList
    <3>2. IsFiniteSet(rows) /\ IsFiniteSet(ToSet(s)) /\ ToSet(s) \in SUBSET rows
      <4>1. IsFiniteSet(rows)
        BY FS_Subset
      <4>2. ToSet(s) \in SUBSET rows
        BY DEF s
      <4>. QED
        BY <4>1, <4>2, FS_Subset
    <3>3. Cardinality(ToSet(s)) <= Cardinality(rows)
          /\ (Cardinality(ToSet(s)) = Cardinality(rows) => ToSet(s) = rows)
      BY <3>2, FS_Subset
    <3>4. Cardinality(rows) \in Nat
      BY <3>2, FS_CardinalityType
    <3>5. Cardinality(rows) = Limit
      BY <1>3, <3>1, <3>3, <3>4, Numbers
    <3>. QED
      BY <3>1, <3>3, <3>5 DEF s
  <2>. QED
    BY <2>1, <2>2, <2>3
<1>. QED
  BY <1>2, <1>3

LEMMA ShownIsServer ==
  ASSUME Typed, History, StreamsShow
  PROVE  StreamShowsServer
<1> SUFFICES ASSUME NEW k \in Kinds,
                    sources[k].phase = "live", sources[k].queue = <<>>,
                    ~sources[k].missed, ~sources[k].stale, \A p \in pubs : p.kind # k
             PROVE  lists[k] = View(k, sources[k].mode, Now)
  BY DEF StreamShowsServer
<1> DEFINE mode == sources[k].mode
           S == Passing(k, mode, Now)
           list == lists[k]
<1>0. Now \in 0..Now
  BY Moments
<1>1. Pending(k) = {}
  BY DEF Pending, Queued, Unpublished, ToSet
<1>2. Right(k, ToSet(list), mode, {}) /\ Ordered(k, list) /\ list \in Seq(Rows)
  BY <1>1 DEF StreamsShow, Showing, Shown, Typed
<1>3. /\ View(k, mode, Now) = limitSortedItems(k, S) /\ Single(k, S) /\ IsFiniteSet(S)
      /\ View(k, mode, Now) \in Seq(Rows) /\ Ordered(k, View(k, mode, Now))
  BY <1>0, ViewIs, PassingSingle, ViewOrdered
<1>4. ToSet(list) \in SUBSET S /\ ToSet(View(k, mode, Now)) \subseteq ToSet(list)
  BY <1>2 DEF Right, Passing
<1>5. k # "candidates" => Cardinality(ToSet(list)) <= Limit
  <2>1. ToSet(list) \in SUBSET Rows /\ Len(list) \in Nat
    BY <1>2 DEF ToSet
  <2>2. Cardinality(ToSet(list)) = Len(list)
    BY <1>2, <2>1, ComesOrders, OrderedLists, RankInList
  <2>. QED
    BY <1>2, <2>2 DEF Ordered
<1> HIDE DEF S, list
<1>6. ToSet(list) = ToSet(View(k, mode, Now))
  <2>1. /\ ToSet(list) \in SUBSET S /\ ToSet(limitSortedItems(k, S)) \subseteq ToSet(list)
        /\ Single(k, S) /\ IsFiniteSet(S)
    BY <1>3, <1>4
  <2>2. ToSet(list) = ToSet(limitSortedItems(k, S))
    BY <1>5, <2>1, PageFull
  <2>. QED
    BY <1>3, <2>2
<1>. QED
  BY <1>2, <1>3, <1>6, SameRows DEF list

\* The lists, streams and requests of the page keep their shapes (the pinia
\* store, tradeStreamSources), for any rows, writes, requests and faults.
THEOREM TypeCorrect == Spec => []TypeOK
<1>1. Init => ShowInv
  BY ShowInit
<1>2. ShowInv /\ [Next]_vars => ShowInv'
  BY ShowStep
<1>3. ShowInv => TypeOK
  BY TypedIsTypeOK DEF ShowInv
<1>. QED
  BY <1>1, <1>2, <1>3, PTL DEF Spec

\* No list shows a row twice, out of order or beyond its limit (limitSortedItems,
\* upsertSorted and the filters of the delete handlers), whatever mixture of
\* snapshots, events and answers made it.
THEOREM ListsAlwaysOrdered == Spec => []ListsAreOrdered
<1>1. Init => ShowInv
  BY ShowInit
<1>2. ShowInv /\ [Next]_vars => ShowInv'
  BY ShowStep
<1>3. ShowInv => ListsAreOrdered
  BY ShownIsOrdered DEF ShowInv
<1>. QED
  BY <1>1, <1>2, <1>3, PTL DEF Spec

\* A stream that has caught up shows the page the backend would answer
\* (streamTopic, Broker.Publish and the stream handlers of the page), unless its
\* channel has overflowed or an answer that does not fit it replaced the list.
THEOREM CaughtUpStreamsShowServer == Spec => []StreamShowsServer
<1>1. Init => ShowInv
  BY ShowInit
<1>2. ShowInv /\ [Next]_vars => ShowInv'
  BY ShowStep
<1>3. ShowInv => StreamShowsServer
  BY ShownIsServer DEF ShowInv
<1>. QED
  BY <1>1, <1>2, <1>3, PTL DEF Spec
====

----------------------------- MODULE TradeStream -----------------------------
(***************************************************************************)
(* The live lists of the trade dashboard: the tables of the backend, the   *)
(* event bus and the SSE streams between them, and the part of the browser *)
(* that shows them (the pinia store and the handlers of the workspace that *)
(* load a dashboard, switch tab or filter, or change the candidate pool).  *)
(*                                                                         *)
(* A list reaches the page on three ways that nothing puts in order: the   *)
(* snapshot and the events of a stream, the five answers of a dashboard    *)
(* load, and the answer of a command.  The server's tables are kept as     *)
(* their history, so that an answer may carry the content of any moment    *)
(* between the call and the answer.                                        *)
(***************************************************************************)
EXTENDS Ordering, SequencesExt

CONSTANTS
  Tabs,          \* the tabs of the dashboard a run opens, "candidates" among them
  Ids,           \* identities of rows, natural numbers
  Filters,       \* choices of the list filter, "all" among them
  Limit,         \* rows a page asks for, TRADE_LIST_LIMIT
  QueueSize,     \* capacity of a subscriber's channel
  MaxRequests,   \* bound: requests in flight at once
  MaxWrites,     \* bound: writes of the backend
  MaxClicks,     \* bound: operations of the user
  MaxFaults,     \* bound: faults of the network
  Clicks,        \* operations the user makes
  Faults         \* faults that happen: "disconnect", "refuse", "fail"

ASSUME TradeStreamAssumption ==
  /\ Tabs \subseteq {"candidates", "signals", "orders", "positions"}
  /\ "candidates" \in Tabs
  /\ Ids \subseteq Nat /\ Ids # {}
  /\ Filters \subseteq {"all", "paper", "live"} /\ "all" \in Filters
  /\ {Limit, QueueSize, MaxRequests} \subseteq Nat \ {0}
  /\ {MaxWrites, MaxClicks, MaxFaults} \subseteq Nat

VARIABLES
  history,       \* the tables of the backend after every write
  pubs,          \* events the writers have still to publish
  tab, filter,   \* tradeTab and tradeFilterMode
  lists,         \* the four lists of the store
  sources,       \* tradeStreamSources, at most one stream per kind of row
  requests,      \* dashboard loads and commands in flight
  loading,       \* tradeLoading
  clicks, faults

vars == <<history, pubs, tab, filter, lists, sources,
          requests, loading, clicks, faults>>

-----------------------------------------------------------------------------
(* Rows, their order and the lists made of them.                           *)

\* The streams each tab opens.
Streams(t) ==
  CASE t = "candidates" -> {"candidates"}
    [] t = "positions" -> {"positions", "candidates"}
    [] t = "signals" -> {"signals"}
    [] t = "orders" -> {"orders"}

Kinds == UNION {Streams(t) : t \in Tabs}

\* "at" is the time a list is sorted by, "ver" the write that made the row.
Rows == [id : Ids, at : 0..MaxWrites, ver : 0..MaxWrites]

Now == Len(history) - 1
Table(k, v) == history[v + 1][k]

\* Trades alternate between the two modes; candidates have none.
ModeOf(id) == IF id % 2 = 1 THEN "paper" ELSE "live"

matchesTradeMode(k, id, mode) ==
  k = "candidates" \/ mode = "all" \/ ModeOf(id) = mode

Before(k, a, b) ==
  IF k = "candidates" THEN a.at < b.at \/ (a.at = b.at /\ a.id < b.id)
                      ELSE a.at > b.at

\* Two rows that are equal for the comparison come in some order.
Comes(k, a, b) ==
  Before(k, a, b) \/ (~Before(k, b, a) /\ (a.ver < b.ver \/ (a.ver = b.ver /\ a.id < b.id)))

\* Candidates come without a limit, in the answers as in the streams.
limitSortedItems(k, items) ==
  LET sorted == Arranged(items, {p \in items \X items : Comes(k, p[1], p[2])})
  IN IF k = "candidates" \/ Len(sorted) <= Limit THEN sorted
                                                 ELSE SubSeq(sorted, 1, Limit)

Without(items, id) == {row \in items : row.id # id}

\* Variant: the row is added without its older version being taken out.
AddSorted(k, list, row) == limitSortedItems(k, ToSet(list) \cup {row})

upsertSorted(k, list, row) ==
  limitSortedItems(k, Without(ToSet(list), row.id) \cup {row})

remove(list, id) == Sublist(list, {i \in DOMAIN list : list[i].id # id})

\* What the backend answers to a list request for the tables of moment v.
View(k, mode, v) ==
  limitSortedItems(k, {row \in Table(k, v) : matchesTradeMode(k, row.id, mode)})

-----------------------------------------------------------------------------
(* Streams.  "from" is the moment of the subscription, "seen" the last     *)
(* moment the stream has shown; "missed" and "stale" record for the        *)
(* properties that an event was dropped and that an answer that is not what *)
(* the stream shows replaced the list.                                     *)

NoSource == [phase |-> "closed"]

NewSource(mode) ==
  [phase |-> "connecting", mode |-> mode, from |-> 0, seen |-> 0,
   queue |-> <<>>, missed |-> FALSE, stale |-> FALSE]

\* Variant: the streams of the former tab stay open.
OpenAlso(t, mode) ==
  [k \in Kinds |-> IF k \in Streams(t) THEN NewSource(mode) ELSE sources[k]]

\* startTradeStream closes every stream and opens the ones of the tab.
startTradeStream(t, mode) ==
  [k \in Kinds |-> IF k \in Streams(t) THEN NewSource(mode) ELSE NoSource]

Subscribed(k) == sources[k].phase \in {"open", "live"}

\* An answer is not what a stream shows if it is of an earlier moment than the
\* stream has shown, or was asked for with another filter.
Unfit(k, v, mode) ==
  /\ sources[k].phase = "live"
  /\ v < sources[k].seen \/ (k # "candidates" /\ mode # sources[k].mode)

Overwritten(kinds) ==
  [k \in Kinds |-> IF k \in kinds THEN [sources[k] EXCEPT !.stale = TRUE]
                                  ELSE sources[k]]

Event(k) ==
  [kind : {k}, type : {"upsert", "delete"}, row : Rows, ver : 1..MaxWrites]

-----------------------------------------------------------------------------
(* Requests.  "load" is refreshTradeDashboard; "act" a retry or a close    *)
(* whose command is not answered, "reload" the load that follows it; "add" *)
(* and "remove" a command on a candidate, "added" and "removed" the same   *)
(* once the backend has carried it out.                                    *)

Ops == {"load", "act", "reload", "add", "remove", "added", "removed"}
NoRequest == [op |-> "none"]
Request == [op : Ops, id : Ids, mode : Filters, from : 0..MaxWrites]

Slots == 1..MaxRequests
InFlight == {s \in Slots : requests[s] # NoRequest}
Free == CHOOSE s \in Slots \ InFlight :
          \A other \in Slots \ InFlight : s <= other

Send(op, id, mode) ==
  /\ InFlight # Slots
  /\ requests' = [requests EXCEPT ![Free] =
       [op |-> op, id |-> id, mode |-> mode, from |-> Now]]
  /\ loading' = TRUE

Settle(s) ==
  /\ requests' = [requests EXCEPT ![s] = NoRequest]
  /\ loading' = FALSE

AnyId == CHOOSE id \in Ids : TRUE

-----------------------------------------------------------------------------
Init ==
  /\ history = << [k \in Kinds |-> {[id |-> AnyId, at |-> 0, ver |-> 0]}] >>
  /\ pubs = {}
  /\ tab \in Tabs
  /\ filter = "all"
  /\ lists = [k \in Kinds |-> <<>>]
  /\ sources = [k \in Kinds |-> NoSource]
  \* onMounted ends in a first refreshTradeDashboard.
  /\ requests = [s \in Slots |->
       IF s = 1 THEN [op |-> "load", id |-> AnyId, mode |-> "all", from |-> 0]
                ELSE NoRequest]
  /\ loading = TRUE
  /\ clicks = 0
  /\ faults = 0

-----------------------------------------------------------------------------
(* The backend.                                                            *)

Commit(k, table, event) ==
  /\ history' = Append(history, [history[Len(history)] EXCEPT ![k] = table])
  /\ pubs' = pubs \cup {event}

\* Positions are sorted by their last change, the rest by their creation.
Put(k, id) ==
  LET old == {row \in Table(k, Now) : row.id = id}
      at  == IF old = {} \/ k = "positions" THEN Now + 1
             ELSE (CHOOSE row \in old : TRUE).at
      row == [id |-> id, at |-> at, ver |-> Now + 1]
  IN Commit(k, (Table(k, Now) \ old) \cup {row},
            [kind |-> k, type |-> "upsert", row |-> row, ver |-> Now + 1])

\* Only candidates are ever removed.
Discard(id) ==
  \E row \in Table("candidates", Now) :
    /\ row.id = id
    /\ Commit("candidates", Table("candidates", Now) \ {row},
              [kind |-> "candidates", type |-> "delete", row |-> row,
               ver |-> Now + 1])

\* A trade, a price mark or the candidate monitor changes a row.
Write ==
  /\ Now < MaxWrites
  /\ \/ \E k \in Kinds, id \in Ids : Put(k, id)
     \/ "candidates" \in Kinds /\ \E id \in Ids : Discard(id)
  /\ UNCHANGED <<tab, filter, lists, sources, requests,
                 loading, clicks, faults>>

\* The backend carries out a command on a candidate.
Execute(s) ==
  /\ Now < MaxWrites
  /\ \/ requests[s].op = "add" /\ Put("candidates", requests[s].id)
     \/ requests[s].op = "remove" /\ Discard(requests[s].id)
  /\ requests' = [requests EXCEPT
       ![s].op = IF @ = "add" THEN "added" ELSE "removed",
       ![s].from = Now + 1]
  /\ UNCHANGED <<tab, filter, lists, sources, loading,
                 clicks, faults>>

\* Variant: the event goes to the subscribers of every topic.
PublishToAll(p) ==
  /\ p \in pubs
  /\ pubs' = pubs \ {p}
  /\ sources' = [k \in Kinds |->
       IF Subscribed(k) /\ Len(sources[k].queue) < QueueSize
       THEN [sources[k] EXCEPT !.queue = Append(@, p)]
       ELSE sources[k]]
  /\ UNCHANGED <<history, tab, filter, lists, requests,
                 loading, clicks, faults>>

\* Broker.Publish: a subscriber whose channel is full loses the event.  The
\* publications of one kind of row are kept in the order of the writes.
Publish(p) ==
  /\ p \in pubs
  /\ \A q \in pubs : q.kind = p.kind => p.ver <= q.ver
  /\ pubs' = pubs \ {p}
  /\ sources' = IF ~Subscribed(p.kind) THEN sources
                ELSE IF Len(sources[p.kind].queue) < QueueSize
                THEN [sources EXCEPT ![p.kind].queue = Append(@, p)]
                ELSE [sources EXCEPT ![p.kind].missed = TRUE]
  /\ UNCHANGED <<history, tab, filter, lists, requests,
                 loading, clicks, faults>>

-----------------------------------------------------------------------------
(* The streams.                                                            *)

\* Variant: the snapshot may be read before the subscription.
SubscribeLate(k) ==
  /\ sources[k].phase = "connecting"
  /\ \E v \in 0..Now :
       sources' = [sources EXCEPT ![k].phase = "open", ![k].from = v]
  /\ UNCHANGED <<history, pubs, tab, filter, lists, requests, loading, clicks, faults>>

\* streamTopic subscribes before it reads the snapshot.
Subscribe(k) ==
  /\ sources[k].phase = "connecting"
  /\ sources' = [sources EXCEPT ![k].phase = "open", ![k].from = Now]
  /\ UNCHANGED <<history, pubs, tab, filter, lists, requests, loading, clicks, faults>>

Snapshot(k) ==
  /\ sources[k].phase = "open"
  /\ \E v \in sources[k].from..Now :
       /\ lists' = [lists EXCEPT ![k] = View(k, sources[k].mode, v)]
       /\ sources' = [sources EXCEPT ![k].phase = "live", ![k].seen = v,
                                     ![k].stale = FALSE]
  /\ UNCHANGED <<history, pubs, tab, filter, requests,
                 loading, clicks, faults>>

\* An event that passes the filter of the stream changes the list.  (It also
\* asks for a new summary, which no other part of the state depends on.)
Receive(k) ==
  /\ sources[k].phase = "live"
  /\ sources[k].queue # <<>>
  /\ LET event == Head(sources[k].queue)
     IN /\ sources' = [sources EXCEPT
             ![k].queue = Tail(@),
             ![k].seen = IF event.ver > @ THEN event.ver ELSE @]
        /\ lists' = [lists EXCEPT ![k] =
             IF ~matchesTradeMode(k, event.row.id, sources[k].mode) THEN @
             ELSE IF event.type = "upsert" THEN upsertSorted(k, @, event.row)
             ELSE remove(@, event.row.id)]
  /\ UNCHANGED <<history, pubs, tab, filter, requests, loading, clicks,
                 faults>>

\* The connection breaks; the browser connects again by itself.
Disconnect(k) ==
  /\ "disconnect" \in Faults
  /\ faults < MaxFaults
  /\ Subscribed(k)
  /\ sources' = [sources EXCEPT ![k] = NewSource(sources[k].mode)]
  /\ faults' = faults + 1
  /\ UNCHANGED <<history, pubs, tab, filter, lists, requests, loading, clicks>>

\* The snapshot cannot be read and the stream is answered with an error
\* status: a browser gives such an event source up.
Refuse(k) ==
  /\ "refuse" \in Faults
  /\ faults < MaxFaults
  /\ sources[k].phase = "open"
  /\ sources' = [sources EXCEPT ![k] = [NewSource(@.mode) EXCEPT !.phase = "dead"]]
  /\ faults' = faults + 1
  /\ UNCHANGED <<history, pubs, tab, filter, lists, requests, loading, clicks>>

-----------------------------------------------------------------------------
(* Answers to the requests of the page.                                    *)

\* Promise.all: the lists of a load are read each at a moment of its own and
\* shown together; refreshTradeDashboard then restarts the streams of the tab
\* with the filter the load was started for.
LoadAnswered(s) ==
  /\ requests[s].op \in {"load", "reload"}
  /\ \E v \in [Kinds -> requests[s].from..Now] :
       /\ lists' = [k \in Kinds |-> View(k, requests[s].mode, v[k])]
       /\ sources' = IF requests[s].op = "load"
                     THEN startTradeStream(tab, requests[s].mode)
                     ELSE Overwritten({k \in Kinds : Unfit(k, v[k], requests[s].mode)})
  /\ Settle(s)
  /\ UNCHANGED <<history, pubs, tab, filter, clicks, faults>>

\* retryTradeOrder and closeTradePosition load the dashboard once the command
\* is answered, with the filter of the moment of the click.
ActAnswered(s) ==
  /\ requests[s].op = "act"
  /\ requests' = [requests EXCEPT ![s].op = "reload", ![s].from = Now]
  /\ loading' = TRUE
  /\ UNCHANGED <<history, pubs, tab, filter, lists, sources,
                 clicks, faults>>

Published(ver) == \A p \in pubs : p.ver # ver

\* submitAddCandidate shows the candidate of the answer and opens its tab; the
\* watch on the tab restarts the streams if the tab changes.
AddAnswered(s) ==
  /\ requests[s].op = "added"
  /\ Published(requests[s].from)
  /\ \E row \in Table("candidates", requests[s].from) :
       /\ row.id = requests[s].id
       /\ lists' = [lists EXCEPT !["candidates"] =
                      upsertSorted("candidates", @, row)]
  /\ tab' = "candidates"
  /\ sources' = IF tab # "candidates" THEN startTradeStream("candidates", filter)
                ELSE Overwritten({k \in {"candidates"} : Unfit(k, requests[s].from, filter)})
  /\ Settle(s)
  /\ UNCHANGED <<history, pubs, filter, clicks, faults>>

RemoveAnswered(s) ==
  /\ requests[s].op = "removed"
  /\ Published(requests[s].from)
  /\ lists' = [lists EXCEPT !["candidates"] = remove(@, requests[s].id)]
  /\ sources' = Overwritten({k \in {"candidates"} : Unfit(k, requests[s].from, filter)})
  /\ Settle(s)
  /\ UNCHANGED <<history, pubs, tab, filter, clicks, faults>>

\* A request fails or times out: nothing is shown, no stream is restarted.
RequestFailed(s) ==
  /\ "fail" \in Faults
  /\ faults < MaxFaults
  /\ requests[s] # NoRequest
  /\ faults' = faults + 1
  /\ Settle(s)
  /\ UNCHANGED <<history, pubs, tab, filter, lists, sources,
                 clicks>>

-----------------------------------------------------------------------------
(* The user.                                                               *)

Click(name) ==
  /\ name \in Clicks
  /\ clicks < MaxClicks
  /\ clicks' = clicks + 1

\* The watch on tradeTab, whoever changed it.
ChangeTab(t) ==
  /\ Click("tab")
  /\ t # tab
  /\ tab' = t
  /\ sources' = startTradeStream(t, filter)
  /\ UNCHANGED <<history, pubs, filter, lists, requests,
                 loading, faults>>

\* The filter control is never disabled.
ChangeFilter(mode) ==
  /\ Click("filter")
  /\ mode # filter
  /\ filter' = mode
  /\ Send("load", AnyId, mode)
  /\ UNCHANGED <<history, pubs, tab, lists, sources, faults>>

\* The refresh button is disabled while loading; the refresh that follows a
\* switch of the trade mode is not.
refreshTradeDashboard(after) ==
  /\ Click(after)
  /\ after = "refresh" => ~loading
  /\ Send("load", AnyId, filter)
  /\ UNCHANGED <<history, pubs, tab, filter, lists, sources,
                 faults>>

\* handleRetryOrder and handleClosePosition.
Act ==
  /\ Click("act")
  /\ Send("act", AnyId, filter)
  /\ UNCHANGED <<history, pubs, tab, filter, lists, sources,
                 faults>>

ChangePool(op, id) ==
  /\ Click(op)
  /\ op = "remove" => \E row \in ToSet(lists["candidates"]) : row.id = id
  /\ Send(op, id, filter)
  /\ UNCHANGED <<history, pubs, tab, filter, lists, sources,
                 faults>>

-----------------------------------------------------------------------------
Backend == Write \/ (\E s \in InFlight : Execute(s)) \/ (\E p \in pubs : Publish(p))

Network ==
  \/ \E k \in Kinds : Subscribe(k) \/ Snapshot(k) \/ Receive(k)
                        \/ Disconnect(k) \/ Refuse(k)
  \/ \E s \in InFlight : LoadAnswered(s) \/ ActAnswered(s) \/ AddAnswered(s)
                           \/ RemoveAnswered(s) \/ RequestFailed(s)

User ==
  \/ \E t \in Tabs : ChangeTab(t)
  \/ \E mode \in Filters : ChangeFilter(mode)
  \/ \E after \in {"refresh", "mode"} : refreshTradeDashboard(after)
  \/ Act
  \/ \E op \in {"add", "remove"}, id \in Ids : ChangePool(op, id)

Next == Backend \/ Network \/ User

Spec == Init /\ [][Next]_vars

-----------------------------------------------------------------------------
(* Properties.                                                             *)

Source(k) ==
  {NoSource} \cup
  [phase : {"connecting", "open", "live", "dead"}, mode : Filters,
   from : 0..MaxWrites, seen : 0..MaxWrites,
   queue : UNION {[1..n -> Event(k)] : n \in 0..QueueSize},
   missed : BOOLEAN, stale : BOOLEAN]

\* The variables keep the shapes of the store's state, and a channel of the
\* broker holds events of its own topic only, never more than it has room for
\* (Broker.Subscribe, Publish): the stream of the candidates filters nothing, so
\* the page takes whatever comes from its channel for a candidate.
TypeOK ==
  /\ Len(history) \in 1..(MaxWrites + 1)
  /\ tab \in Tabs /\ filter \in Filters
  /\ \A k \in Kinds : /\ ToSet(lists[k]) \subseteq Rows
                      /\ sources[k] \in Source(k)
  /\ \A s \in Slots : requests[s] \in Request \cup {NoRequest}
  /\ loading \in BOOLEAN

\* Whatever mixture of snapshots, events and answers made it, a list shows no
\* row twice, is in the order of its table and within its limit
\* (limitSortedItems, upsertSorted).
ListsAreOrdered ==
  \A k \in Kinds :
    /\ \A i, j \in 1..Len(lists[k]) : i < j =>
         lists[k][i].id # lists[k][j].id /\ Before(k, lists[k][i], lists[k][j])
    /\ k # "candidates" => Len(lists[k]) <= Limit

\* Only the streams of the tab on display are open (startTradeStream closes
\* the others), and all of them with one filter.
StreamsFollowTab ==
  LET open == {k \in Kinds : sources[k] # NoSource}
  IN /\ open \in {{}, Streams(tab)}
     /\ \A k, l \in open : sources[k].mode = sources[l].mode

\* A stream that has delivered all that was published shows exactly what the
\* backend holds for its filter, unless its channel overflowed or an answer
\* that is older than the stream, or for another filter, replaced the list:
\* because the broker is subscribed to before the snapshot is read, no write is
\* lost between the two.
StreamShowsServer ==
  \A k \in Kinds :
    (/\ sources[k].phase = "live"
     /\ sources[k].queue = <<>>
     /\ ~sources[k].missed /\ ~sources[k].stale
     /\ \A p \in pubs : p.kind # k)
    => lists[k] = View(k, sources[k].mode, Now)

\* The filter control shows the filter of the lists and of the streams once
\* nothing is in flight.
FilterIsShown ==
  InFlight = {} => \A k \in Kinds : sources[k] # NoSource => sources[k].mode = filter
=============================================================================

---------------------------- MODULE CandidateMonitor ----------------------------
(***************************************************************************)
(* The life of one candidate in backend/internal/signal/candidate_monitor: *)
(* its state in Redis (a hash, the active set and the emission keys), the  *)
(* loop that polls watching candidates for a buy, the loop that polls      *)
(* bought ones for a sell, and the requests that rewrite or stop it.       *)
(*                                                                         *)
(* Every writer lists the state, works on its copy through several calls   *)
(* that leave the process, and then writes the whole copy back; each of    *)
(* those calls is a step here, so that the writers interleave between      *)
(* them.  The database and Redis reads behind one decision are one step; a *)
(* read that fails ends the poll with nothing changed, as LoadKlines may.  *)
(*                                                                         *)
(* The trade side is what backend/internal/trade does to a signal, seen    *)
(* from here: it takes signals from the channel one at a time, fills or    *)
(* refuses them, and writes the rows later and in any order.               *)
(*                                                                         *)
(* Abstracted: klines are the number of the bar that is forming, entry and *)
(* exit detection and the market cap are free choices, prices are left out.*)
(***************************************************************************)
EXTENDS Naturals, Sequences, FiniteSets, Functions

CONSTANTS
  MaxBars,    \* bound: bars that form while the candidate is monitored
  MaxAttempts,\* bound: a sell is tried again at most so often
  Requests,   \* which requests arrive while it is monitored
  Faults,     \* which failures the environment may produce
  MaxFaults,  \* bound: how many of them in one run
  None        \* no signal, no position, no copy

RequestKinds == {"delete", "trim", "symbol", "blacklist", "close"}
FaultKinds == {"redis", "publish", "loss", "trade", "late", "feed", "crash", "slow"}

ASSUME ConstantsAssumption ==
  /\ MaxBars \in Nat \ {0}
  /\ Requests \subseteq RequestKinds
  /\ Faults \subseteq FaultKinds
  /\ MaxAttempts \in Nat
  /\ MaxFaults \in Nat

Loops == {"watching", "bought"}
Actors == Loops \cup (Requests \ {"close"})

Bars == 1..MaxBars
Attempts == 0..(MaxAttempts + 1)

\* compactSignalID: a buy is named by its bar, a sell by its buy, the first bar
\* at which the exit rule holds (not the bar that was polled) and the attempt.
Buys == [side : {"buy"}, bar : Bars]
Sells == [side : {"sell"}, buy : Buys, bar : Bars, attempt : Attempts]
Signals == Buys \cup Sells

\* The code's "no id" is the empty string, which names no signal.
ASSUME NoneAssumption == None \notin Signals \cup Actors

Statuses == {"watching", "bought", "stopped", "sold"}

\* candidateMonitorState, as far as it steers the monitor.
State == [status : Statuses, buySignalId : Buys \cup {None},
          sellSignalId : Sells \cup {None}, sellAttempt : Attempts,
          lastDecisionBar : 0..MaxBars, lastExitBar : 0..MaxBars,
          symbol : BOOLEAN]

Refused == {"failed", "skipped"}  \* `rejected' is treated as `failed' is

Task == [op : {"insert"}, signal : Signals]
          \cup [op : {"finish"}, signal : Signals, status : {"executed"} \cup Refused]
          \cup [op : {"open", "close"}, buy : Buys]

VARIABLES
  stored,     \* hash <prefix>:candidate:<token>
  active,     \* whether <prefix>:active holds the token
  emitted,    \* keys <prefix>:emitted:<signal>
  blacklisted,\* ca_blacklist.is_blacklisted
  candidateMu,\* CandidateMonitor.candidateMu: its holder or None
  pc, copy,   \* per actor: where it is and its copy of the state
  loadedBar,  \* per loop: the last bar of the klines it loaded
  bar,        \* the bar that is forming
  overdue,    \* pending signals whose acknowledge timeout has passed
  channel,    \* the Redis channel of trade signals
  consuming,  \* the signal that ProcessSignal works on
  tasks,      \* rows that the persister has still to write
  rows,       \* trade_signals: signal -> consume_status
  openRows, closedRows,  \* trade_positions, by the buy that opened them
  runtime,    \* the position that memory and Redis list, by its buy
  faults,     \* faults so far
  sentBuys, sentSells, straySells, \* history: what was published, and which
                                   \* sells when their position was gone
  exitBars,   \* history: the bars during which sells were published
  exitPoint   \* market data: per buy, the first bar after it at which the exit
              \* rule holds, or 0; it is in the klines, the same at every poll

candidate == <<stored, active>>
actors == <<pc, copy, loadedBar, candidateMu>>
trade == <<channel, consuming, tasks, rows, openRows, closedRows, runtime>>
history == <<sentBuys, sentSells, straySells, exitBars, exitPoint>>
vars == <<candidate, emitted, blacklisted, actors, bar, overdue, trade, faults, history>>

\* AddProjectCandidate and handleCandidatePayload: a new candidate.
NewCandidate ==
  [status |-> "watching", buySignalId |-> None, sellSignalId |-> None,
   sellAttempt |-> 0, lastDecisionBar |-> 0, lastExitBar |-> 0, symbol |-> FALSE]

Init ==
  /\ stored = NewCandidate
  /\ active = TRUE
  /\ emitted = {}
  /\ blacklisted = FALSE
  /\ candidateMu = None
  /\ pc = [a \in Actors |-> "idle"]
  /\ copy = [a \in Actors |-> None]
  /\ loadedBar = [l \in Loops |-> 0]
  /\ bar = 1
  /\ overdue = {}
  /\ channel = <<>>
  /\ consuming = None
  /\ tasks = {}
  /\ rows = [s \in {} |-> "accepted"]
  /\ openRows = {}
  /\ closedRows = {}
  /\ runtime = None
  /\ faults = 0
  /\ sentBuys = {}
  /\ sentSells = {}
  /\ straySells = {}
  /\ exitBars = {}
  /\ exitPoint \in {point \in [Buys -> 0..MaxBars] :
                     \A buy \in Buys : point[buy] \notin 1..buy.bar}

-----------------------------------------------------------------------------
(* Helpers *)

Fault(kind) ==
  /\ kind \in Faults /\ faults < MaxFaults
  /\ faults' = faults + 1

Go(a, label) == pc' = [pc EXCEPT ![a] = label]
Copy(a, state) == copy' = [copy EXCEPT ![a] = state]

\* The actor is done: its copy is dropped, its lock released.
Return(a) ==
  /\ Go(a, "idle")
  /\ Copy(a, None)
  /\ candidateMu' = IF candidateMu = a THEN None ELSE candidateMu

\* What a writer goes on with: its copy, changed, and its next step.
Continue(a, state, label) ==
  /\ Copy(a, state)
  /\ Go(a, label)
  /\ UNCHANGED candidateMu

\* The signal a copy waits for: its sell if there is one, else its buy.
Pending(state) ==
  IF state.sellSignalId # None THEN state.sellSignalId ELSE state.buySignalId

Rebuy(state) ==
  [state EXCEPT !.status = "watching", !.buySignalId = None,
                !.sellSignalId = None, !.sellAttempt = 0]
\* Variant: the bar after the one loaded counts as the last exit.
RearmedAhead(state, b) ==
  [Rebuy(state) EXCEPT !.lastDecisionBar = b + 1, !.lastExitBar = b + 1]

\* rearmInactiveCandidate: the bar just loaded counts as the last exit.
Rearmed(state, b) ==
  [Rebuy(state) EXCEPT !.lastDecisionBar = b, !.lastExitBar = b]
\* Variant: the sell is tried again under its old id.
RetriedUnnumbered(state) == [state EXCEPT !.sellSignalId = None]

\* A refused, unanswered or unpublished sell is tried again under a new id.
Retried(state) ==
  [state EXCEPT !.sellSignalId = None, !.sellAttempt = @ + 1]

Stopped(state, status) == [state EXCEPT !.status = status]
\* Variant: every field is written as it is.
MergedBlindly(state) == state

\* redisCandidateMonitorStore.SaveState writes every field, but never an
\* empty symbol.
Merged(state) == [state EXCEPT !.symbol = @ \/ stored.symbol]

-----------------------------------------------------------------------------
(* Calls to Redis that every writer makes *)

\* SaveState, from one step of its caller to the next one.
Save(a, from, to) ==
  /\ pc[a] = from
  /\ \/ /\ stored' = Merged(copy[a])
        /\ IF to = "idle" THEN Return(a) ELSE Continue(a, copy[a], to)
        /\ UNCHANGED <<emitted, faults>>
     \/ /\ Fault("redis")  \* the error is returned; an emission is given up
        /\ Return(a)
        /\ emitted' \in IF from = "emit_save" THEN {emitted, emitted \ {Pending(copy[a])}}
                                               ELSE {emitted}
        /\ UNCHANGED stored
  /\ UNCHANGED <<active, blacklisted, loadedBar, bar, overdue, trade, history>>

SaveAndReturn(a) == Save(a, "save", "idle")
SaveSynced == Save("bought", "sync_save", "exit")

\* StopCandidate: the state is saved, then the token leaves the active set.
SaveStopped(a) == Save(a, "stop_save", "stop_remove")
\* Variant: the token stays in the active set.
KeepActive(a) ==
  /\ pc[a] = "stop_remove"
  /\ Return(a)
  /\ UNCHANGED <<candidate, emitted, blacklisted, loadedBar, bar, overdue, trade,
                 faults, history>>

RemoveActive(a) ==
  /\ pc[a] = "stop_remove"
  /\ \/ active' = FALSE /\ UNCHANGED faults
     \/ Fault("redis") /\ UNCHANGED active
  /\ Return(a)
  /\ UNCHANGED <<stored, emitted, blacklisted, loadedBar, bar, overdue, trade, history>>

-----------------------------------------------------------------------------
(* The two polling loops *)

\* pollOnce: the loop lists the active candidates of its status.
Poll(l) ==
  /\ pc[l] = "idle"
  /\ active /\ stored.status = l
  /\ Continue(l, stored, "load")
  /\ UNCHANGED <<candidate, emitted, blacklisted, loadedBar, bar, overdue, trade,
                 faults, history>>

\* processCandidate: the blacklist is asked, then the klines are loaded.
LoadKlines(l) ==
  /\ pc[l] = "load"
  /\ IF blacklisted
       THEN Continue(l, copy[l], "blacklisted") /\ UNCHANGED <<loadedBar, faults>>
       ELSE \/ /\ Continue(l, copy[l], "decide")
               /\ loadedBar' = [loadedBar EXCEPT ![l] = bar]
               /\ UNCHANGED faults
            \/ Fault("feed") /\ Return(l) /\ UNCHANGED loadedBar
  /\ UNCHANGED <<candidate, emitted, blacklisted, bar, overdue, trade, history>>

\* StopBlacklistedCandidate, called by the loops and by BlacklistCandidate:
\* under candidateMu, on a fresh copy.
StopBlacklisted(a) ==
  /\ pc[a] = "blacklisted"
  /\ candidateMu = None
  /\ IF active
       THEN /\ Copy(a, Stopped(stored, "stopped"))
            /\ Go(a, "stop_save")
            /\ candidateMu' = a
       ELSE Return(a)
  /\ UNCHANGED <<candidate, emitted, blacklisted, loadedBar, bar, overdue, trade,
                 faults, history>>

\* The parts of the state a decision of a loop leaves to the steps after it.
DecisionFrame ==
  UNCHANGED <<candidate, blacklisted, loadedBar, bar, overdue, trade, faults, history>>

\* Below the threshold a watching candidate is stopped.
WatchingTooLow ==
  /\ pc["watching"] = "decide"
  /\ Continue("watching", Stopped(copy["watching"], "stopped"), "stop_save")
  /\ UNCHANGED emitted /\ DecisionFrame

\* No breakout, or one on a bar that was decided before or that is not after
\* the last exit.
WatchingStays ==
  /\ pc["watching"] = "decide"
  /\ LET state == copy["watching"]
         b == loadedBar["watching"]
         passed == b > state.lastDecisionBar /\ b <= state.lastExitBar
     IN \/ Continue("watching", state, "save")
        \/ passed /\ Continue("watching", [state EXCEPT !.lastDecisionBar = b], "save")
  /\ UNCHANGED emitted /\ DecisionFrame

\* A breakout on a new bar.
WatchingBreaksOut ==
  /\ pc["watching"] = "decide"
  /\ LET state == copy["watching"]
         b == loadedBar["watching"]
     IN /\ b > state.lastDecisionBar
        /\ b > state.lastExitBar
        /\ Continue("watching",
                    [state EXCEPT !.status = "bought", !.lastDecisionBar = b,
                                  !.buySignalId = [side |-> "buy", bar |-> b]],
                    "emit")
  /\ UNCHANGED emitted /\ DecisionFrame
\* Variant: a sell without a row is waited for without a timeout.
SellMissingWaits ==
  /\ pc["bought"] = "decide"
  /\ LET state == copy["bought"]
     IN /\ state.sellSignalId # None /\ state.sellSignalId \notin DOMAIN rows
        /\ Continue("bought", state, "save")
  /\ UNCHANGED emitted /\ DecisionFrame

\* A bought candidate whose pending sell has no row: the message was lost if
\* the timeout has passed, else the loop waits.
SellMissing ==
  /\ pc["bought"] = "decide"
  /\ LET state == copy["bought"]
         sell == state.sellSignalId
     IN /\ sell # None /\ sell \notin DOMAIN rows
        /\ IF sell \in overdue
             THEN emitted' = emitted \ {sell} /\ Continue("bought", Retried(state), "save")
             ELSE Continue("bought", state, "save") /\ UNCHANGED emitted
  /\ DecisionFrame

SellRefused ==
  /\ pc["bought"] = "decide"
  /\ LET state == copy["bought"]
         sell == state.sellSignalId
     IN /\ sell \in DOMAIN rows /\ rows[sell] \in Refused
        /\ emitted' = emitted \ {sell}
        /\ Continue("bought", Retried(state), "save")
  /\ DecisionFrame

\* finalizeExecutedSell, once the database shows no open position: back to
\* watching, or sold if the market cap is too low.
SellExecuted ==
  /\ pc["bought"] = "decide"
  /\ LET state == copy["bought"]
         sell == state.sellSignalId
     IN /\ sell \in DOMAIN rows /\ rows[sell] = "executed"
        /\ IF state.buySignalId \in openRows
             THEN Continue("bought", state, "save")
             ELSE \/ Continue("bought", Rebuy(state), "save")
                  \/ Continue("bought",
                              Stopped([state EXCEPT !.sellSignalId = None, !.sellAttempt = 0],
                                      "sold"),
                              "stop_save")
  /\ UNCHANGED emitted /\ DecisionFrame

\* A pending signal with an accepted row: the loop waits for its end.
SignalAccepted ==
  /\ pc["bought"] = "decide"
  /\ LET state == copy["bought"]
     IN /\ Pending(state) \in DOMAIN rows /\ rows[Pending(state)] = "accepted"
        /\ Continue("bought", state, "save")
  /\ UNCHANGED emitted /\ DecisionFrame

\* rearmInactiveCandidate.
RearmInactive(state, status) ==
  \/ Continue("bought", Rearmed(state, loadedBar["bought"]), "save")
  \/ Continue("bought", Stopped(state, status), "stop_save")
\* Variant: a buy without a row is waited for without a timeout.
BuyMissingWaits ==
  /\ pc["bought"] = "decide"
  /\ LET state == copy["bought"]
     IN /\ state.sellSignalId = None /\ state.buySignalId \notin DOMAIN rows
        /\ Continue("bought", state, IF runtime # None THEN "sync_save" ELSE "save")
  /\ UNCHANGED emitted /\ DecisionFrame

\* The buy has no row: it is taken from the position in Redis, or given up
\* after the timeout, or waited for.
BuyMissing ==
  /\ pc["bought"] = "decide"
  /\ LET state == copy["bought"]
         buy == state.buySignalId
     IN /\ state.sellSignalId = None /\ buy \notin DOMAIN rows
        /\ IF runtime # None
             THEN Continue("bought", state, "sync_save") /\ UNCHANGED emitted
             ELSE IF buy \in overdue
                    THEN emitted' = emitted \ {buy} /\ RearmInactive(state, "stopped")
                    ELSE Continue("bought", state, "save") /\ UNCHANGED emitted
  /\ DecisionFrame

BuyRefused ==
  /\ pc["bought"] = "decide"
  /\ LET state == copy["bought"]
         buy == state.buySignalId
     IN /\ state.sellSignalId = None
        /\ buy \in DOMAIN rows /\ rows[buy] \in Refused
        /\ Continue("bought", Rebuy(state), "save")
  /\ UNCHANGED emitted /\ DecisionFrame
\* Variant: only the database is asked for the position.
BuyExecutedInRows ==
  /\ pc["bought"] = "decide"
  /\ LET state == copy["bought"]
         buy == state.buySignalId
     IN /\ state.sellSignalId = None
        /\ buy \in DOMAIN rows /\ rows[buy] = "executed"
        /\ IF buy \in openRows
             THEN \E label \in {"sync_save", "exit"} : Continue("bought", state, label)
             ELSE RearmInactive(state, "sold")
  /\ UNCHANGED emitted /\ DecisionFrame

\* The buy was executed: its position is looked up in the database, then by
\* token in Redis.
BuyExecuted ==
  /\ pc["bought"] = "decide"
  /\ LET state == copy["bought"]
         buy == state.buySignalId
     IN /\ state.sellSignalId = None
        /\ buy \in DOMAIN rows /\ rows[buy] = "executed"
        /\ IF buy \in openRows \/ runtime # None
             THEN \E label \in {"sync_save", "exit"} : Continue("bought", state, label)
             ELSE RearmInactive(state, "sold")
  /\ UNCHANGED emitted /\ DecisionFrame

\* evaluateRealtimeBandFollowExit goes through the bars after the purchase and
\* stops at the first one at which a rule holds, whichever bar is the last.
ExitShows(buy, b) == exitPoint[buy] \in 1..b

\* EvaluateLiveBandFollowExitAt: nothing to do, also while the bar of the exit
\* is still forming, or the position must be sold.  (Beyond the bound of
\* attempts the loop goes on as if there were nothing.)
Hold ==
  /\ pc["bought"] = "exit"
  /\ LET state == copy["bought"]
     IN \/ ~ExitShows(state.buySignalId, loadedBar["bought"] - 1)
        \/ state.sellAttempt > MaxAttempts
  /\ Continue("bought", copy["bought"], "save")
  /\ UNCHANGED emitted /\ DecisionFrame

\* buildSellSignal: a sell of what the state holds, named by the exit point.
SellOf(state) ==
  [side |-> "sell", buy |-> state.buySignalId, bar |-> exitPoint[state.buySignalId],
   attempt |-> state.sellAttempt]
\* Variant: the bar of the exit is not recorded.
TriggerExitUnmarked ==
  /\ pc["bought"] = "exit"
  /\ copy["bought"].sellAttempt <= MaxAttempts
  /\ ExitShows(copy["bought"].buySignalId, loadedBar["bought"])
  /\ LET state == copy["bought"]
     IN Continue("bought", [state EXCEPT !.sellSignalId = SellOf(state)], "emit")
  /\ UNCHANGED emitted /\ DecisionFrame

\* The bar recorded as the exit is the one polled, not the one in the id.
TriggerExit ==
  /\ pc["bought"] = "exit"
  /\ copy["bought"].sellAttempt <= MaxAttempts
  /\ ExitShows(copy["bought"].buySignalId, loadedBar["bought"])
  /\ LET state == copy["bought"]
         b == loadedBar["bought"]
     IN Continue("bought",
                 [state EXCEPT !.sellSignalId = SellOf(state),
                               !.lastDecisionBar = b, !.lastExitBar = b],
                 "emit")
  /\ UNCHANGED emitted /\ DecisionFrame

\* AcquireEmission: a signal whose key is taken is not sent again, and its
\* poll ends without a save.
AcquireEmission(l) ==
  /\ pc[l] = "emit"
  /\ LET signal == Pending(copy[l])
     IN IF signal \in emitted
          THEN Return(l) /\ UNCHANGED emitted
          ELSE emitted' = emitted \cup {signal} /\ Continue(l, copy[l], "emit_save")
  /\ DecisionFrame

SaveEmitting(l) == Save(l, "emit_save", "publish")

\* PublishTradeSignal: the consumer gets the message, or nobody listens.
Publish(l) ==
  /\ pc[l] = "publish"
  /\ LET signal == Pending(copy[l])
         gone == signal.side = "sell" /\ runtime = None
     IN /\ \/ channel' = Append(channel, signal) /\ UNCHANGED faults
           \/ Fault("loss") /\ UNCHANGED channel
        /\ sentBuys' = sentBuys \cup ({signal} \cap Buys)
        /\ sentSells' = sentSells \cup ({signal} \cap Sells)
        /\ straySells' = straySells \cup {s \in {signal} : gone}
        /\ exitBars' = exitBars \cup {bar : s \in {signal} \cap Sells}
  /\ Return(l)
  /\ UNCHANGED <<candidate, emitted, blacklisted, loadedBar, bar, overdue, consuming,
                 tasks, rows, openRows, closedRows, runtime, exitPoint>>

\* Publishing fails: the key is released and the state rolled back, but for
\* the bar that was decided.
PublishFails(l) ==
  /\ pc[l] = "publish"
  /\ Fault("publish")
  /\ emitted' = emitted \ {Pending(copy[l])}
  /\ Continue(l, IF l = "watching" THEN Rebuy(copy[l]) ELSE Retried(copy[l]), "save")
  /\ UNCHANGED <<candidate, blacklisted, loadedBar, bar, overdue, trade, history>>

-----------------------------------------------------------------------------
(* Requests *)

RequestFrame ==
  UNCHANGED <<candidate, emitted, loadedBar, bar, overdue, trade, faults, history>>

\* DeleteCandidate, without candidateMu and whatever the status.
DeleteCandidate ==
  /\ "delete" \in Requests /\ pc["delete"] = "idle"
  /\ active
  /\ Continue("delete", Stopped(stored, "stopped"), "stop_save")
  /\ UNCHANGED blacklisted /\ RequestFrame

\* TrimCandidatePool, and AddProjectCandidate in a full pool, choose this
\* candidate, which they list as watching.
TrimCandidate ==
  /\ "trim" \in Requests /\ pc["trim"] = "idle"
  /\ candidateMu = None
  /\ active /\ stored.status = "watching"
  /\ Copy("trim", Stopped(stored, "stopped"))
  /\ Go("trim", "stop_save")
  /\ candidateMu' = "trim"
  /\ UNCHANGED blacklisted /\ RequestFrame

\* UpdateCandidateSymbol, and AddProjectCandidate for a known token.
UpdateSymbol ==
  /\ "symbol" \in Requests /\ pc["symbol"] = "idle"
  /\ candidateMu = None
  /\ active /\ ~stored.symbol
  /\ Copy("symbol", [stored EXCEPT !.symbol = TRUE])
  /\ Go("symbol", "save")
  /\ candidateMu' = "symbol"
  /\ UNCHANGED blacklisted /\ RequestFrame

\* BlacklistCandidate: the row first, then StopBlacklisted.
BlacklistCandidate ==
  /\ "blacklist" \in Requests /\ pc["blacklist"] = "idle"
  /\ ~blacklisted
  /\ blacklisted' = TRUE
  /\ Go("blacklist", "blacklisted")
  /\ UNCHANGED <<copy, candidateMu>> /\ RequestFrame

-----------------------------------------------------------------------------
(* The trade side *)

TradeFrame == UNCHANGED <<candidate, emitted, blacklisted, actors, bar, overdue, history>>

Finish(signal, status) == [op |-> "finish", signal |-> signal, status |-> status]

\* The consumer takes the next message and queues its row.
Consume ==
  /\ consuming = None /\ channel # <<>>
  /\ consuming' = Head(channel)
  /\ channel' = Tail(channel)
  /\ tasks' = tasks \cup {[op |-> "insert", signal |-> Head(channel)]}
  /\ UNCHANGED <<rows, openRows, closedRows, runtime, faults>> /\ TradeFrame

\* The signal is answered, with the rows that follow from the answer.
Answer(status, more) ==
  /\ consuming' = None
  /\ tasks' = tasks \cup {Finish(consuming, status)} \cup more
  /\ UNCHANGED <<channel, rows, openRows, closedRows>> /\ TradeFrame

ExecuteBuy ==
  /\ consuming # None /\ consuming.side = "buy"
  /\ runtime = None
  /\ \/ /\ runtime' = consuming
        /\ Answer("executed", {[op |-> "open", buy |-> consuming]})
        /\ UNCHANGED faults
     \/ Fault("trade") /\ Answer("failed", {}) /\ UNCHANGED runtime

ExecuteSell ==
  /\ consuming # None /\ consuming.side = "sell"
  /\ runtime # None
  /\ \/ /\ runtime' = None
        /\ Answer("executed", {[op |-> "close", buy |-> runtime]})
        /\ UNCHANGED faults
     \/ Fault("trade") /\ Answer("failed", {}) /\ UNCHANGED runtime

SkipSignal ==
  /\ consuming # None
  /\ (consuming.side = "buy") = (runtime # None)
  /\ Answer("skipped", {})
  /\ UNCHANGED <<runtime, faults>>

\* The position is closed by hand; its row must be in the database.
ClosePosition ==
  /\ "close" \in Requests
  /\ runtime \in openRows
  /\ consuming = None
  /\ runtime' = None
  /\ tasks' = tasks \cup {[op |-> "close", buy |-> runtime]}
  /\ UNCHANGED <<channel, consuming, rows, openRows, closedRows, faults>> /\ TradeFrame

\* The persister writes rows in the order its retries bring about; one that
\* needs an earlier one waits for it.
WriteRow(task) ==
  /\ task \in tasks
  /\ tasks' = tasks \ {task}
  /\ CASE task.op = "insert" ->
            /\ rows' = [s \in DOMAIN rows \cup {task.signal} |->
                          IF s = task.signal THEN "accepted" ELSE rows[s]]
            /\ UNCHANGED <<openRows, closedRows>>
       [] task.op = "finish" ->
            /\ task.signal \in DOMAIN rows
            /\ rows' = [rows EXCEPT ![task.signal] = task.status]
            /\ UNCHANGED <<openRows, closedRows>>
       [] task.op = "open" ->
            /\ openRows = {}
            /\ openRows' = {task.buy}
            /\ UNCHANGED <<rows, closedRows>>
       [] task.op = "close" ->
            /\ task.buy \in openRows
            /\ openRows' = openRows \ {task.buy}
            /\ closedRows' = closedRows \cup {task.buy}
            /\ UNCHANGED rows
  /\ UNCHANGED <<channel, consuming, runtime, faults>> /\ TradeFrame

-----------------------------------------------------------------------------
(* Time and restarts *)

\* Bars and acknowledge timeouts (10 s and 5 s) take seconds.  Writers load
\* their klines as long as it takes, but what they do before and after that are
\* a few calls to Redis and the database, of milliseconds: time does not pass
\* between those, unless they are `slow'.
TimePasses ==
  "slow" \in Faults \/ \A a \in Actors : pc[a] \in {"idle", "load", "blacklisted"}

NewBar ==
  /\ bar < MaxBars
  /\ TimePasses
  /\ bar' = bar + 1
  /\ UNCHANGED <<candidate, emitted, blacklisted, actors, overdue, trade, faults, history>>

\* A signal that is still on its way to the trade side, or queued there.
OnItsWay(signal) ==
  \/ \E l \in Loops : pc[l] \in {"emit_save", "publish"} /\ Pending(copy[l]) = signal
  \/ signal = consuming
  \/ \E i \in DOMAIN channel : channel[i] = signal
  \/ [op |-> "insert", signal |-> signal] \in tasks

\* buySignalAckTimeout and sellSignalAckTimeout.  Unless it is `late', the
\* trade side writes a row before the timeout of a signal that reaches it.
AckTimeout(signal) ==
  /\ TimePasses
  /\ signal = Pending(stored)
  /\ signal \notin overdue \cup DOMAIN rows
  /\ IF OnItsWay(signal) THEN Fault("late") ELSE UNCHANGED faults
  /\ overdue' = overdue \cup {signal}
  /\ UNCHANGED <<candidate, emitted, blacklisted, actors, bar, trade, history>>

\* The process stops and starts again: messages, queued rows and copies are
\* gone, positions are loaded from the database and Redis.
Restart ==
  /\ Fault("crash")
  /\ pc' = [a \in Actors |-> "idle"]
  /\ copy' = [a \in Actors |-> None]
  /\ candidateMu' = None
  /\ channel' = <<>>
  /\ consuming' = None
  /\ tasks' = {}
  /\ runtime' \in IF openRows # {} THEN openRows
                  ELSE IF runtime \in closedRows THEN {None} ELSE {runtime}
  /\ UNCHANGED <<candidate, emitted, blacklisted, loadedBar, bar, overdue, rows,
                 openRows, closedRows, history>>

LoopStep(l) ==
  \/ Poll(l) \/ LoadKlines(l) \/ AcquireEmission(l) \/ SaveEmitting(l)
  \/ Publish(l) \/ PublishFails(l)

WatchingDecision == WatchingTooLow \/ WatchingStays \/ WatchingBreaksOut

BoughtDecision ==
  \/ SellMissing \/ SellRefused \/ SellExecuted \/ SignalAccepted
  \/ BuyMissing \/ BuyRefused \/ BuyExecuted \/ SaveSynced \/ Hold \/ TriggerExit

WriterStep(a) == SaveAndReturn(a) \/ SaveStopped(a) \/ RemoveActive(a) \/ StopBlacklisted(a)

Request == DeleteCandidate \/ TrimCandidate \/ UpdateSymbol \/ BlacklistCandidate

TradeStep ==
  \/ Consume \/ ExecuteBuy \/ ExecuteSell \/ SkipSignal
  \/ \E task \in tasks : WriteRow(task)

Next ==
  \/ \E l \in Loops : LoopStep(l)
  \/ WatchingDecision
  \/ BoughtDecision
  \/ \E a \in Actors : WriterStep(a)
  \/ Request
  \/ TradeStep
  \/ ClosePosition
  \/ NewBar
  \/ \E signal \in {Pending(stored)} \ {None} : AckTimeout(signal)
  \/ Restart

Spec == Init /\ [][Next]_vars

\* The loops' tickers and the goroutines behind every step keep running, the
\* consumer and the persister work off what they hold, and time passes.
FairSpec ==
  /\ Spec
  /\ \A l \in Loops : WF_vars(LoopStep(l))
  /\ WF_vars(WatchingDecision) /\ WF_vars(BoughtDecision)
  /\ \A a \in Actors : WF_vars(WriterStep(a))
  /\ WF_vars(Consume) /\ WF_vars(ExecuteBuy \/ ExecuteSell \/ SkipSignal)
  /\ WF_vars(\E task \in tasks : WriteRow(task))
  /\ SF_vars(\E signal \in {Pending(stored)} \ {None} : AckTimeout(signal))

-----------------------------------------------------------------------------
(* Properties *)

PcStates ==
  {"idle", "load", "decide", "blacklisted", "emit", "emit_save", "publish", "save",
   "sync_save", "exit", "stop_save", "stop_remove"}

\* The type invariant.
TypeOK ==
  /\ stored \in State
  /\ active \in BOOLEAN
  /\ emitted \subseteq Signals
  /\ blacklisted \in BOOLEAN
  /\ candidateMu \in Actors \cup {None}
  /\ pc \in [Actors -> PcStates]
  /\ copy \in [Actors -> State \cup {None}]
  /\ loadedBar \in [Loops -> 0..MaxBars]
  /\ bar \in Bars
  /\ overdue \subseteq Signals
  /\ channel \in Seq(Signals)
  /\ consuming \in Signals \cup {None}
  /\ tasks \subseteq Task
  /\ DOMAIN rows \subseteq Signals
  /\ Range(rows) \subseteq {"accepted", "executed"} \cup Refused
  /\ openRows \subseteq Buys
  /\ closedRows \subseteq Buys
  /\ runtime \in Buys \cup {None}
  /\ faults \in 0..MaxFaults
  /\ sentBuys \subseteq Buys
  /\ sentSells \subseteq Sells
  /\ straySells \subseteq sentSells
  /\ exitBars \subseteq Bars
  /\ exitPoint \in [Buys -> 0..MaxBars]

\* docs 022: a candidate stays under watch for its exit as long as its
\* position is open, so that the strategy can sell what it bought.
PositionIsMonitored ==
  runtime # None => active /\ stored.status = "bought"

\* A signal is published once: neither a failed publication, a lost message, a
\* late answer nor a restart makes the monitor send the same id again (docs 023).
EachSignalSentOnce ==
  [][\A l \in Loops : Publish(l) => Pending(copy[l]) \notin sentBuys \cup sentSells]_vars

\* README.md:196: a candidate is not bought again on the bar on which it was
\* sold, nor on an earlier one.
NoReentryOnExitBar ==
  [][\A l \in Loops : Publish(l) /\ Pending(copy[l]) \in Buys =>
       \A b \in exitBars : b < Pending(copy[l]).bar]_vars

\* README.md:197: no sell is repeated for a position that is gone; at most the
\* one that was on its way when the position was closed.
NoRepeatedStraySell ==
  \A s, t \in straySells : s.buy = t.buy => s = t

\* candidate_monitor.go:1662: an older copy never erases a symbol.
SymbolKept == [][stored.symbol => stored'.symbol]_vars

\* README.md:198: a candidate without a position does not stay bought.
BoughtResolves ==
  stored.status = "bought" /\ runtime = None
    ~> stored.status # "bought" \/ runtime # None \/ ~active

\* docs 023: a pending sell ends, executed or retried, and is not waited for
\* for ever.
SellAnswered ==
  stored.sellSignalId # None ~> stored.sellSignalId = None \/ ~active

\* docs 034: a blacklisted candidate leaves the pool.
BlacklistedLeaves == blacklisted ~> ~active

=============================================================================

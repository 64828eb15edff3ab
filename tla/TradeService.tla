----------------------------- MODULE TradeService -----------------------------
(***************************************************************************)
(* The runtime of backend/internal/trade: the positions the process keeps  *)
(* in memory (Service.openPositions, inFlight, seenSignals), their copy in *)
(* Redis (RedisPositionStore), the asynchronous persister and the rows it  *)
(* writes.                                                                 *)
(*                                                                         *)
(* Threads of the code and their counterpart here:                         *)
(*   - the signal consumer goroutine (worker.go), the thread Consumer;     *)
(*   - HTTP handlers that close a position or retry an order, Handlers;    *)
(*   - the price sync goroutine (RefreshOpenPositions), the Sync* actions; *)
(*   - the persister's loop and its retry timers, RunTask and RequeueTask. *)
(* A step is one region under runtimeMu or one call that leaves the        *)
(* process (Redis, executor, queue), so threads interleave exactly at the  *)
(* places where the code releases its lock.                                *)
(*                                                                         *)
(* Abstracted: prices, quantities, payloads, notifications, and the status *)
(* columns of signals and orders.  The executor is external: it fills or   *)
(* it fails.  `held' is what the account really owns.                      *)
(***************************************************************************)
EXTENDS Naturals, Sequences, FiniteSets

CONSTANTS
  Tokens,            \* token addresses
  Modes,             \* trade modes: paper, live
  SignalIds,         \* ids of the trade signals that reach the Redis channel
  Consumer,          \* the signal consumer goroutine
  Handlers,          \* goroutines that serve HTTP close and retry requests
  MaxBuys,           \* bound: the executor fills at most this many buys
  QueueSize,         \* capacity of the persister's channel (512 in the code)
  PriceSyncEnabled,  \* trade.price_sync_enabled (default false)
  Faults,            \* which failures the environment may produce
  None               \* no position, no job

FaultKinds == {"db", "redis_save", "redis_get", "redis_delete", "crash"}

Threads == {Consumer} \cup Handlers
Sides == {"buy", "sell"}

\* A position row: its uuid, token and mode.  Ids are issued in fill order.
Position == [id : 1..MaxBuys, token : Tokens, mode : Modes]

\* The part of a signal, and of the order made from it, that steers a thread.
Job == [side : Sides, token : Tokens, mode : Modes]

Task == [kind : {"create_order"}, job : Job]
          \cup [kind : {"filled_buy", "filled_sell"}, pos : Position]
          \cup [kind : {"delete_runtime"}, token : Tokens]

BuyStates == {"check", "buy_exec", "buy_save", "buy_mark"}
SellStates == {"sell_get", "sell_take", "sell_submit", "sell_exec",
               "sell_clear", "sell_finish", "restore_save", "restore_mem"}
PcStates == {"idle", "begin", "close_begin", "buy_persist", "sell_persist"}
              \cup BuyStates \cup SellStates

ASSUME ConstantsAssumption ==
  /\ Consumer \notin Handlers
  /\ MaxBuys \in Nat
  /\ QueueSize \in Nat \ {0}
  /\ PriceSyncEnabled \in BOOLEAN
  /\ Faults \subseteq FaultKinds
  /\ None \notin Position \cup Job

VARIABLES
  openPositions,  \* Service.openPositions: token -> position or None
  inFlight,       \* Service.inFlight: token -> "none", "buy" or "sell"
  seenSignals,    \* Service.seenSignals
  tradeMode,      \* the mode in force (memory and system_runtime_settings)
  redis,          \* hash open_positions:<account>: token -> position or None
  queue,          \* asyncPersister.ch
  delayed,        \* failed tasks that wait for their retry timer
  dbOrders,       \* jobs whose trade_orders and trade_signals rows exist
  dbOpen,         \* trade_positions rows with status open
  dbClosed,       \* trade_positions rows with status closed
  held,           \* positions bought on the market and not sold yet
  nextId,         \* id of the next filled buy
  pc, job, pos,   \* per thread: where it is, its signal, its position
  syncPc, syncTodo, syncCur  \* the price sync goroutine

memory == <<openPositions, inFlight, seenSignals>>
rows == <<dbOrders, dbOpen, dbClosed>>
market == <<held, nextId>>
thread == <<pc, job, pos>>
sync == <<syncPc, syncTodo, syncCur>>
persister == <<queue, delayed>>
vars == <<memory, tradeMode, redis, persister, rows, market, thread, sync>>

Init ==
  /\ openPositions = [t \in Tokens |-> None]
  /\ inFlight = [t \in Tokens |-> "none"]
  /\ seenSignals = {}
  /\ tradeMode \in Modes
  /\ redis = [t \in Tokens |-> None]
  /\ queue = <<>>
  /\ delayed = {}
  /\ dbOrders = {}
  /\ dbOpen = {}
  /\ dbClosed = {}
  /\ held = {}
  /\ nextId = 1
  /\ pc = [th \in Threads |-> "idle"]
  /\ job = [th \in Threads |-> None]
  /\ pos = [th \in Threads |-> None]
  /\ syncPc = "idle"
  /\ syncTodo = {}
  /\ syncCur = None

-----------------------------------------------------------------------------
(* Helpers *)

Go(th, label) == pc' = [pc EXCEPT ![th] = label]

\* The handler returns: the thread is free for the next message or request.
Return(th) ==
  /\ Go(th, "idle")
  /\ job' = [job EXCEPT ![th] = None]
  /\ pos' = [pos EXCEPT ![th] = None]

\* asyncPersister.Enqueue blocks its caller while the channel is full.
Enqueue(task) ==
  /\ Len(queue) < QueueSize
  /\ queue' = Append(queue, task)

FinishInFlight(t) == inFlight' = [inFlight EXCEPT ![t] = "none"]

CreateOrder(j) == [kind |-> "create_order", job |-> j]
FilledBuy(p) == [kind |-> "filled_buy", pos |-> p]
FilledSell(p) == [kind |-> "filled_sell", pos |-> p]
DeleteRuntime(t) == [kind |-> "delete_runtime", token |-> t]

-----------------------------------------------------------------------------
(* Requests that start a thread *)

\* Variant: the map lookup without its "ok" takes a missing position's mode.
ReceiveSignalUnchecked(id, side, t) ==
  /\ pc[Consumer] = "idle"
  /\ id \notin seenSignals
  /\ seenSignals' = seenSignals \cup {id}
  /\ LET position == openPositions[t]
         mode == IF side # "sell" THEN tradeMode
                 ELSE IF position = None THEN None ELSE position.mode
     IN job' = [job EXCEPT ![Consumer] = [side |-> side, token |-> t, mode |-> mode]]
  /\ Go(Consumer, "begin")
  /\ UNCHANGED <<openPositions, inFlight, tradeMode, redis, persister, rows,
                 market, pos, sync>>

\* ProcessSignal up to handleSignal.  A sell takes the mode of the position
\* it finds; a signal id that was seen before is ignored.
ReceiveSignal(id, side, t) ==
  /\ pc[Consumer] = "idle"
  /\ id \notin seenSignals
  /\ seenSignals' = seenSignals \cup {id}
  /\ LET mode == IF side = "sell" /\ openPositions[t] # None
                   THEN openPositions[t].mode ELSE tradeMode
     IN job' = [job EXCEPT ![Consumer] = [side |-> side, token |-> t, mode |-> mode]]
  /\ Go(Consumer, "begin")
  /\ UNCHANGED <<openPositions, inFlight, tradeMode, redis, persister, rows,
                 market, pos, sync>>

\* RetryOrder: the signal of any stored order is handled again.
RetryOrder(th, j) ==
  /\ pc[th] = "idle"
  /\ job' = [job EXCEPT ![th] = j]
  /\ Go(th, "begin")
  /\ UNCHANGED <<memory, tradeMode, redis, persister, rows, market, pos, sync>>

\* ClosePosition up to beginManualSell: the row must be open in the database.
ClosePosition(th, p) ==
  /\ pc[th] = "idle"
  /\ pos' = [pos EXCEPT ![th] = p]
  /\ job' = [job EXCEPT ![th] = [side |-> "sell", token |-> p.token, mode |-> p.mode]]
  /\ Go(th, "close_begin")
  /\ UNCHANGED <<memory, tradeMode, redis, persister, rows, market, sync>>

UpdateTradeMode(mode) ==
  /\ mode # tradeMode
  /\ tradeMode' = mode
  /\ UNCHANGED <<memory, redis, persister, rows, market, thread, sync>>

-----------------------------------------------------------------------------
(* Buying *)

\* Variants: a claim that forgets one of its two conditions.
BeginBuyWhen(th, free) ==
  /\ pc[th] = "begin" /\ job[th].side = "buy"
  /\ IF free
       THEN /\ inFlight' = [inFlight EXCEPT ![job[th].token] = "buy"]
            /\ Go(th, "check")
            /\ UNCHANGED <<job, pos>>
       ELSE Return(th) /\ UNCHANGED inFlight
  /\ UNCHANGED <<openPositions, seenSignals, tradeMode, redis, persister, rows,
                 market, sync>>
BeginBuyThoughBusy(th) == BeginBuyWhen(th, openPositions[job[th].token] = None)
BeginBuyThoughOpen(th) == BeginBuyWhen(th, inFlight[job[th].token] = "none")

\* tryBeginBuy claims the token, or the signal is skipped.
TryBeginBuy(th) ==
  /\ pc[th] = "begin" /\ job[th].side = "buy"
  /\ LET t == job[th].token
     IN IF openPositions[t] = None /\ inFlight[t] = "none"
          THEN /\ inFlight' = [inFlight EXCEPT ![t] = "buy"]
               /\ Go(th, "check")
               /\ UNCHANGED <<job, pos>>
          ELSE Return(th) /\ UNCHANGED inFlight
  /\ UNCHANGED <<openPositions, seenSignals, tradeMode, redis, persister, rows,
                 market, sync>>

\* The risk state or the quotes reject the buy, or reading them fails.
RejectBuy(th) ==
  /\ pc[th] = "check"
  /\ FinishInFlight(job[th].token)
  /\ Return(th)
  /\ UNCHANGED <<openPositions, seenSignals, tradeMode, redis, persister, rows,
                 market, sync>>

AcceptBuy(th) ==
  /\ pc[th] = "check"
  /\ Enqueue(CreateOrder(job[th]))
  /\ Go(th, "buy_exec")
  /\ UNCHANGED <<memory, tradeMode, redis, delayed, rows, market, job, pos, sync>>

BuyFills(th) ==
  /\ pc[th] = "buy_exec"
  /\ nextId <= MaxBuys
  /\ LET p == [id |-> nextId, token |-> job[th].token, mode |-> job[th].mode]
     IN /\ held' = held \cup {p}
        /\ pos' = [pos EXCEPT ![th] = p]
  /\ nextId' = nextId + 1
  /\ Go(th, "buy_save")
  /\ UNCHANGED <<memory, tradeMode, redis, persister, rows, job, sync>>

BuyFails(th) ==
  /\ pc[th] = "buy_exec"
  /\ FinishInFlight(job[th].token)
  /\ Return(th)
  /\ UNCHANGED <<openPositions, seenSignals, tradeMode, redis, persister, rows,
                 market, sync>>

\* markOpenPosition, first half: a failed Redis write is only logged.
SavePosition(th, from, to) ==
  /\ pc[th] = from
  /\ \/ redis' = [redis EXCEPT ![pos[th].token] = pos[th]]
     \/ "redis_save" \in Faults /\ UNCHANGED redis
  /\ Go(th, to)
  /\ UNCHANGED <<memory, tradeMode, persister, rows, market, job, pos, sync>>

SaveBought(th) == SavePosition(th, "buy_save", "buy_mark")

\* markOpenPosition, second half, under runtimeMu.
MarkOpenPosition(th) ==
  /\ pc[th] = "buy_mark"
  /\ openPositions' = [openPositions EXCEPT ![job[th].token] = pos[th]]
  /\ FinishInFlight(job[th].token)
  /\ Go(th, "buy_persist")
  /\ UNCHANGED <<seenSignals, tradeMode, redis, persister, rows, market, job, pos, sync>>

EnqueueFilledBuy(th) ==
  /\ pc[th] = "buy_persist"
  /\ Enqueue(FilledBuy(pos[th]))
  /\ Return(th)
  /\ UNCHANGED <<memory, tradeMode, redis, delayed, rows, market, sync>>

-----------------------------------------------------------------------------
(* Selling *)

\* tryBeginSell claims the token, or the signal is skipped.
TryBeginSell(th) ==
  /\ pc[th] = "begin" /\ job[th].side = "sell"
  /\ LET t == job[th].token
     IN IF inFlight[t] = "none" /\ openPositions[t] # None
          THEN /\ inFlight' = [inFlight EXCEPT ![t] = "sell"]
               /\ Go(th, "sell_get")
               /\ UNCHANGED <<job, pos>>
          ELSE Return(th) /\ UNCHANGED inFlight
  /\ UNCHANGED <<openPositions, seenSignals, tradeMode, redis, persister, rows,
                 market, sync>>

\* Variant: a manual close that does not look at the in-flight mark.
BeginManualSellThoughBusy(th) ==
  /\ pc[th] = "close_begin"
  /\ IF openPositions[job[th].token] = pos[th]
       THEN /\ inFlight' = [inFlight EXCEPT ![job[th].token] = "sell"]
            /\ Go(th, "sell_get")
            /\ UNCHANGED <<job, pos>>
       ELSE Return(th) /\ UNCHANGED inFlight
  /\ UNCHANGED <<openPositions, seenSignals, tradeMode, redis, persister, rows,
                 market, sync>>

\* beginManualSell: as above, and memory must still show the same position.
BeginManualSell(th) ==
  /\ pc[th] = "close_begin"
  /\ LET t == job[th].token
     IN IF inFlight[t] = "none" /\ openPositions[t] = pos[th]
          THEN /\ inFlight' = [inFlight EXCEPT ![t] = "sell"]
               /\ Go(th, "sell_get")
               /\ UNCHANGED <<job, pos>>
          ELSE Return(th) /\ UNCHANGED inFlight
  /\ UNCHANGED <<openPositions, seenSignals, tradeMode, redis, persister, rows,
                 market, sync>>

\* Both sells then read the position from Redis; what they find there, not
\* what memory held, is what they sell.
GetStored(th) ==
  /\ pc[th] = "sell_get"
  /\ redis[job[th].token] # None
  /\ pos' = [pos EXCEPT ![th] = redis[job[th].token]]
  /\ Go(th, "sell_take")
  /\ UNCHANGED <<memory, tradeMode, redis, persister, rows, market, job, sync>>

\* Variant: the error path returns without clearing the in-flight mark.
GetStoredFailsClaimed(th) ==
  /\ pc[th] = "sell_get"
  /\ redis[job[th].token] = None \/ "redis_get" \in Faults
  /\ Return(th)
  /\ UNCHANGED <<memory, tradeMode, redis, persister, rows, market, sync>>

GetStoredFails(th) ==
  /\ pc[th] = "sell_get"
  /\ redis[job[th].token] = None \/ "redis_get" \in Faults
  /\ FinishInFlight(job[th].token)
  /\ Return(th)
  /\ UNCHANGED <<openPositions, seenSignals, tradeMode, redis, persister, rows,
                 market, sync>>

TakePosition(th) ==
  /\ pc[th] = "sell_take"
  /\ openPositions' = [openPositions EXCEPT ![job[th].token] = None]
  /\ Go(th, "sell_submit")
  /\ UNCHANGED <<inFlight, seenSignals, tradeMode, redis, persister, rows, market,
                 job, pos, sync>>

\* The order takes the position's mode and goes to the executor.
SubmitSell(th) ==
  /\ pc[th] = "sell_submit"
  /\ LET j == [side |-> "sell", token |-> job[th].token, mode |-> pos[th].mode]
     IN job' = [job EXCEPT ![th] = j] /\ Enqueue(CreateOrder(j))
  /\ Go(th, "sell_exec")
  /\ UNCHANGED <<memory, tradeMode, redis, delayed, rows, market, pos, sync>>

\* Variant: the close gives up without putting the position back.
InsertCloseSignalFailsBare(th) ==
  /\ pc[th] = "sell_submit"
  /\ th \in Handlers /\ "db" \in Faults
  /\ FinishInFlight(job[th].token)
  /\ Return(th)
  /\ UNCHANGED <<openPositions, seenSignals, tradeMode, redis, persister, rows,
                 market, sync>>

\* A manual close whose signal row cannot be inserted puts the position back.
InsertCloseSignalFails(th) ==
  /\ pc[th] = "sell_submit"
  /\ th \in Handlers /\ "db" \in Faults
  /\ Go(th, "restore_save")
  /\ UNCHANGED <<memory, tradeMode, redis, persister, rows, market, job, pos, sync>>

SellFills(th) ==
  /\ pc[th] = "sell_exec"
  /\ held' = held \ {pos[th]}
  /\ Go(th, "sell_clear")
  /\ UNCHANGED <<memory, tradeMode, redis, persister, rows, nextId, job, pos, sync>>

\* Variant: an executor error that is taken for a fill.
SellFailsUnseen(th) ==
  /\ pc[th] = "sell_exec"
  /\ Go(th, "sell_clear")
  /\ UNCHANGED <<memory, tradeMode, redis, persister, rows, market, job, pos, sync>>

SellFails(th) ==
  /\ pc[th] = "sell_exec"
  /\ Go(th, "restore_save")
  /\ UNCHANGED <<memory, tradeMode, redis, persister, rows, market, job, pos, sync>>

\* restoreOpenPosition: Redis first, then memory under runtimeMu.
SaveRestored(th) == SavePosition(th, "restore_save", "restore_mem")

RestoreOpenPosition(th) ==
  /\ pc[th] = "restore_mem"
  /\ openPositions' = [openPositions EXCEPT ![job[th].token] = pos[th]]
  /\ FinishInFlight(job[th].token)
  /\ Return(th)
  /\ UNCHANGED <<seenSignals, tradeMode, redis, persister, rows, market, sync>>

\* Variant: the sold position stays in Redis.
DeleteStoredForgotten(th) ==
  /\ pc[th] = "sell_clear"
  /\ Go(th, "sell_finish")
  /\ UNCHANGED <<memory, tradeMode, redis, persister, rows, market, job, pos, sync>>

\* After the fill: the Redis entry goes, at once or by a queued deletion.
DeleteStored(th) ==
  /\ pc[th] = "sell_clear"
  /\ redis' = [redis EXCEPT ![job[th].token] = None]
  /\ Go(th, "sell_finish")
  /\ UNCHANGED <<memory, tradeMode, persister, rows, market, job, pos, sync>>

DeleteStoredFails(th) ==
  /\ pc[th] = "sell_clear"
  /\ "redis_delete" \in Faults
  /\ Enqueue(DeleteRuntime(job[th].token))
  /\ Go(th, "sell_finish")
  /\ UNCHANGED <<memory, tradeMode, redis, delayed, rows, market, job, pos, sync>>

FinishSell(th) ==
  /\ pc[th] = "sell_finish"
  /\ FinishInFlight(job[th].token)
  /\ Go(th, "sell_persist")
  /\ UNCHANGED <<openPositions, seenSignals, tradeMode, redis, persister, rows,
                 market, job, pos, sync>>

EnqueueFilledSell(th) ==
  /\ pc[th] = "sell_persist"
  /\ Enqueue(FilledSell(pos[th]))
  /\ Return(th)
  /\ UNCHANGED <<memory, tradeMode, redis, delayed, rows, market, sync>>

-----------------------------------------------------------------------------
(* The persister: a FIFO loop; a task that fails comes back after 2 s *)

\* What the database (or Redis) demands of a task.  A second open row of a
\* token breaks the partial unique index; a position cannot be closed before
\* its row exists; a fill needs the row of its order.
Applicable(task) ==
  CASE task.kind = "filled_buy" ->
         /\ \A p \in dbOpen : p.token # task.pos.token
         /\ task.pos \notin dbClosed
         /\ [side |-> "buy", token |-> task.pos.token, mode |-> task.pos.mode] \in dbOrders
    [] task.kind = "filled_sell" ->
         /\ task.pos \in dbOpen \cup dbClosed
         /\ [side |-> "sell", token |-> task.pos.token, mode |-> task.pos.mode] \in dbOrders
    [] OTHER -> TRUE

Apply(task) ==
  CASE task.kind = "create_order" ->
         dbOrders' = dbOrders \cup {task.job} /\ UNCHANGED <<dbOpen, dbClosed, redis>>
    [] task.kind = "filled_buy" ->
         dbOpen' = dbOpen \cup {task.pos} /\ UNCHANGED <<dbOrders, dbClosed, redis>>
    [] task.kind = "filled_sell" ->
         /\ dbOpen' = dbOpen \ {task.pos}
         /\ dbClosed' = dbClosed \cup {task.pos}
         /\ UNCHANGED <<dbOrders, redis>>
    [] task.kind = "delete_runtime" ->
         redis' = [redis EXCEPT ![task.token] = None] /\ UNCHANGED rows

MayFail(task) ==
  \/ ~Applicable(task)
  \/ task.kind = "delete_runtime" /\ "redis_delete" \in Faults
  \/ task.kind # "delete_runtime" /\ "db" \in Faults

RunTask ==
  /\ queue # <<>>
  /\ Applicable(Head(queue))
  /\ Apply(Head(queue))
  /\ queue' = Tail(queue)
  /\ UNCHANGED <<memory, tradeMode, delayed, market, thread, sync>>

\* Variant: a failed task is logged and dropped.
DropTask ==
  /\ queue # <<>>
  /\ MayFail(Head(queue))
  /\ queue' = Tail(queue)
  /\ UNCHANGED <<memory, tradeMode, redis, delayed, rows, market, thread, sync>>

FailTask ==
  /\ queue # <<>>
  /\ MayFail(Head(queue))
  /\ queue' = Tail(queue)
  /\ delayed' = delayed \cup {Head(queue)}
  /\ UNCHANGED <<memory, tradeMode, redis, rows, market, thread, sync>>

RequeueTask(task) ==
  /\ task \in delayed
  /\ Enqueue(task)
  /\ delayed' = delayed \ {task}
  /\ UNCHANGED <<memory, tradeMode, redis, rows, market, thread, sync>>

-----------------------------------------------------------------------------
(* RefreshOpenPositions *)

SyncSnapshot ==
  /\ PriceSyncEnabled /\ syncPc = "idle"
  /\ syncTodo' = {openPositions[t] : t \in Tokens} \ {None}
  /\ syncTodo' # {}
  /\ syncPc' = "loop"
  /\ UNCHANGED <<memory, tradeMode, redis, persister, rows, market, thread, syncCur>>

\* The price of one position arrives, or it is skipped this round.
SyncPrice(p) ==
  /\ syncPc = "loop"
  /\ syncTodo' = syncTodo \ {p}
  /\ \/ syncPc' = "save" /\ syncCur' = p
     \/ syncPc' = (IF syncTodo' = {} THEN "idle" ELSE "loop") /\ UNCHANGED syncCur
  /\ UNCHANGED <<memory, tradeMode, redis, persister, rows, market, thread>>

SyncSave ==
  /\ syncPc = "save"
  /\ redis' = [redis EXCEPT ![syncCur.token] = syncCur]
  /\ syncPc' = "write"
  /\ UNCHANGED <<memory, tradeMode, persister, rows, market, thread, syncTodo, syncCur>>

\* A failed Redis write ends the round.
SyncSaveFails ==
  /\ syncPc = "save" /\ "redis_save" \in Faults
  /\ syncPc' = "idle" /\ syncTodo' = {} /\ syncCur' = None
  /\ UNCHANGED <<memory, tradeMode, redis, persister, rows, market, thread>>

\* Memory is overwritten with the snapshot's position, unconditionally.
SyncWriteBack ==
  /\ syncPc = "write"
  /\ openPositions' = [openPositions EXCEPT ![syncCur.token] = syncCur]
  /\ syncPc' = (IF syncTodo = {} THEN "idle" ELSE "loop")
  /\ syncCur' = None
  /\ UNCHANGED <<inFlight, seenSignals, tradeMode, redis, persister, rows, market,
                 thread, syncTodo>>

-----------------------------------------------------------------------------
(* The process dies and starts again: NewService and loadRuntimePositions *)

\* Variant: entries whose row is closed are loaded as well.
LoadedUnfiltered(t) ==
  LET openRows == {p \in dbOpen : p.token = t}
  IN IF openRows # {} THEN CHOOSE p \in openRows : TRUE ELSE redis[t]

\* Open rows are copied into Redis, over what it held; then an entry whose
\* row is closed is dropped and what remains is loaded.
LoadedPosition(t) ==
  LET openRows == {p \in dbOpen : p.token = t}
  IN IF openRows # {} THEN CHOOSE p \in openRows : TRUE
     ELSE IF redis[t] \in dbClosed THEN None ELSE redis[t]

Restart ==
  /\ "crash" \in Faults
  /\ redis' = [t \in Tokens |-> LoadedPosition(t)]
  /\ openPositions' = redis'
  /\ inFlight' = [t \in Tokens |-> "none"]
  /\ seenSignals' = {}
  /\ queue' = <<>> /\ delayed' = {}
  /\ pc' = [th \in Threads |-> "idle"]
  /\ job' = [th \in Threads |-> None]
  /\ pos' = [th \in Threads |-> None]
  /\ syncPc' = "idle" /\ syncTodo' = {} /\ syncCur' = None
  /\ UNCHANGED <<tradeMode, rows, market>>

-----------------------------------------------------------------------------

\* Everything a thread does once its message or request has arrived.
ThreadStep(th) ==
  \/ TryBeginBuy(th) \/ RejectBuy(th) \/ AcceptBuy(th)
  \/ BuyFills(th) \/ BuyFails(th) \/ SaveBought(th)
  \/ MarkOpenPosition(th) \/ EnqueueFilledBuy(th)
  \/ TryBeginSell(th) \/ BeginManualSell(th)
  \/ GetStored(th) \/ GetStoredFails(th)
  \/ TakePosition(th) \/ SubmitSell(th) \/ InsertCloseSignalFails(th)
  \/ SellFills(th) \/ SellFails(th)
  \/ SaveRestored(th) \/ RestoreOpenPosition(th)
  \/ DeleteStored(th) \/ DeleteStoredFails(th)
  \/ FinishSell(th) \/ EnqueueFilledSell(th)

SyncStep ==
  \/ SyncSnapshot \/ (\E p \in syncTodo : SyncPrice(p))
  \/ SyncSave \/ SyncSaveFails \/ SyncWriteBack

Next ==
  \/ \E id \in SignalIds, side \in Sides, t \in Tokens : ReceiveSignal(id, side, t)
  \/ \E th \in Handlers, j \in dbOrders : RetryOrder(th, j)
  \/ \E th \in Handlers, p \in dbOpen : ClosePosition(th, p)
  \/ \E mode \in Modes : UpdateTradeMode(mode)
  \/ \E th \in Threads : ThreadStep(th)
  \/ RunTask \/ FailTask \/ (\E task \in delayed : RequeueTask(task))
  \/ SyncStep
  \/ Restart

Spec == Init /\ [][Next]_vars

\* Scheduling: a thread that can move moves, because every call it makes has
\* a client timeout and senders blocked on the persister's channel are served
\* in order; the persister's loop runs, and so does the retry timer of each
\* failed task.
FairSpec ==
  /\ Spec
  /\ \A th \in Threads : SF_vars(ThreadStep(th))
  /\ WF_vars(RunTask \/ FailTask)
  /\ \A task \in Task : SF_vars(RequeueTask(task))

-----------------------------------------------------------------------------
(* Properties *)

\* The type invariant: every variable keeps the shape the Go types give it.
TypeOK ==
  /\ openPositions \in [Tokens -> Position \cup {None}]
  /\ inFlight \in [Tokens -> {"none"} \cup Sides]
  /\ seenSignals \subseteq SignalIds
  /\ tradeMode \in Modes
  /\ redis \in [Tokens -> Position \cup {None}]
  /\ queue \in Seq(Task)
  /\ delayed \subseteq Task
  /\ dbOrders \subseteq Job
  /\ dbOpen \subseteq Position
  /\ dbClosed \subseteq Position
  /\ held \subseteq Position
  /\ nextId \in 1..(MaxBuys + 1)
  /\ pc \in [Threads -> PcStates]
  /\ job \in [Threads -> Job \cup {None}]
  /\ pos \in [Threads -> Position \cup {None}]
  /\ syncPc \in {"idle", "loop", "save", "write"}
  /\ syncTodo \subseteq Position
  /\ syncCur \in Position \cup {None}

\* A thread owns a token from tryBegin* until the in-flight mark is cleared.
Owns(th, t) == pc[th] \in BuyStates \cup SellStates /\ job[th].token = t

\* The in-flight mark of a token is exactly the ownership of one thread: it
\* is set for as long as some thread buys or sells the token, says which of
\* the two, and two threads never trade one token at once (tryBeginBuy,
\* tryBeginSell, beginManualSell against every path that clears the mark).
InFlightExclusive ==
  \A t \in Tokens :
    /\ inFlight[t] # "none" => \E th \in Threads : Owns(th, t)
    /\ \A th \in Threads : Owns(th, t) =>
         /\ inFlight[t] = job[th].side
         /\ \A other \in Threads : Owns(other, t) => other = th

\* README.md:82: at most one open position of a token at a time, counted on
\* what the account really owns.
OneHeldPerToken ==
  \A p, q \in held : p.token = q.token => p = q

\* No position is sold twice: whoever is about to sell one still owns it.
SellsOnlyHeld ==
  \A th \in Threads : pc[th] \in {"sell_take", "sell_submit", "sell_exec"} => pos[th] \in held

\* A position that is owned can be sold: memory lists it, or the thread that
\* is buying, selling or restoring it will put it back or see it sold.
NothingStranded ==
  \A p \in held :
    \/ openPositions[p.token] = p
    \/ \E th \in Threads :
         /\ pos[th] = p
         /\ pc[th] \in {"buy_save", "buy_mark", "sell_submit", "sell_exec", "restore_save", "restore_mem"}

\* Between two trades of a token memory and Redis agree on its position, so
\* that a sell, which reads Redis, finds the position memory promises and
\* FindRuntimePosition never reports one that is gone.
StoredMatchesMemory ==
  \A t \in Tokens : inFlight[t] = "none" => redis[t] = openPositions[t]

\* README.md:199: a position the database shows closed is never alive again
\* in memory, neither at run time nor after a restart.
ClosedIsGone ==
  \A t \in Tokens : openPositions[t] \notin dbClosed

\* Once the persister has nothing left and no thread is at work, the open
\* rows are exactly the positions the account owns.
Quiescent ==
  queue = <<>> /\ delayed = {} /\ \A th \in Threads : pc[th] = "idle"
RowsFollowMarket == Quiescent => dbOpen = held

\* The database never runs ahead of the market: a row is closed only when the
\* position was sold, and a closed row is never open again.
RowsNeverAhead == dbClosed \cap (held \cup dbOpen) = {}

\* Every claim on a token is released: no path of a buy or a sell leaves the
\* token locked for good.
InFlightReleased ==
  \A t \in Tokens : inFlight[t] # "none" ~> inFlight[t] = "none"

\* README.md:217: a task that fails is retried and does not hold up the tasks
\* behind it, so every sale ends in the database, though the threads queue
\* their rows late: a sale before its purchase, a purchase before the last sale.
SalesAreRecorded ==
  \A p \in Position :
    (\E th \in Threads : pc[th] = "sell_clear" /\ pos[th] = p) ~> p \in dbClosed

-----------------------------------------------------------------------------
(* The ledger this runtime implements *)

LedgerPhase ==
  [t \in Tokens |->
     CASE inFlight[t] = "buy" -> "buying"
       [] inFlight[t] = "sell" -> "selling"
       [] OTHER -> IF openPositions[t] = None THEN "flat" ELSE "open"]

\* While it is being sold a position is out of memory and with its seller.
LedgerPosition ==
  [t \in Tokens |->
     IF inFlight[t] = "sell" /\ openPositions[t] = None
       THEN pos[CHOOSE th \in Threads : Owns(th, t)]
       ELSE openPositions[t]]

\* Ids given out, but for those a buyer has yet to put into memory.
LedgerUsed ==
  1..(nextId - 1) \ {pos[th].id : th \in {x \in Threads : pc[x] \in {"buy_save", "buy_mark"}}}

Ledger == INSTANCE PositionLedger
  WITH phase <- LedgerPhase, position <- LedgerPosition, used <- LedgerUsed

\* Without restarts, Redis failures and price sync the runtime implements the
\* ledger: its steps are ledger steps or leave the ledger alone.
ImplementsLedger == Ledger!Spec

\* README.md:216: positions in Redis are merged back into memory at start, so
\* a restart does not lose one that is still owned.
RestartKeepsStored ==
  [][Restart => \A t \in Tokens : redis[t] \in held => openPositions'[t] = redis[t]]_vars

\* docs 021-Redis: after a buy the position's snapshot is in Redis, the source
\* of the quantity that is sold.
OpenIsStored ==
  \A t \in Tokens :
    inFlight[t] = "none" /\ openPositions[t] # None => redis[t] # None

=============================================================================

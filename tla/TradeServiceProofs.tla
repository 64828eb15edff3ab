------------------------- MODULE TradeServiceProofs -------------------------
(***************************************************************************)
(* Theorems about TradeService for every set of tokens, handlers and       *)
(* signals and any bound.  Those of the first part hold whatever fails:    *)
(* Redis, the database, the executor, price sync and the process itself;   *)
(* the second part says under which faults the account is accounted for.   *)
(***************************************************************************)
EXTENDS TradeService, TLAPS

\* States in which a thread carries a position.
CarryStates == {"buy_save", "buy_mark", "buy_persist", "close_begin", "sell_take",
                "sell_submit", "sell_exec", "sell_clear", "sell_finish",
                "sell_persist", "restore_save", "restore_mem"}

\* What a thread carries fits the place where it is.
CarriesJob(th) ==
  /\ pc[th] # "idle" => job[th] \in Job
  /\ pc[th] \in BuyStates => job[th].side = "buy"
  /\ pc[th] \in SellStates \cup {"close_begin"} => job[th].side = "sell"
  /\ pc[th] \in CarryStates => pos[th] \in Position

ThreadsCarry == \A th \in Threads : CarriesJob(th)

SyncCarries == syncPc \in {"save", "write"} => syncCur \in Position

Typed == TypeOK /\ ThreadsCarry /\ SyncCarries

LEMMA NoneIsApart == None \notin Position /\ None \notin Job
BY ConstantsAssumption

LEMMA TypedInit == Init => Typed
BY ConstantsAssumption, SMT
   DEF Init, Typed, TypeOK, ThreadsCarry, CarriesJob, SyncCarries, PcStates,
       BuyStates, SellStates, CarryStates, Sides

LEMMA ReceiveTyped ==
  ASSUME Typed, NEW id \in SignalIds, NEW side \in Sides, NEW t \in Tokens,
         ReceiveSignal(id, side, t)
  PROVE  Typed'
<1> DEFINE mode == IF side = "sell" /\ openPositions[t] # None
                     THEN openPositions[t].mode ELSE tradeMode
<1>1. mode \in Modes
  BY DEF Typed, TypeOK, Position
<1>2. [side |-> side, token |-> t, mode |-> mode] \in Job
  BY <1>1 DEF Job
<1>. QED
  BY <1>2 DEF Typed, TypeOK, ThreadsCarry, CarriesJob, SyncCarries, ReceiveSignal,
     Go, PcStates, BuyStates, SellStates, CarryStates, Threads, persister, rows, market, sync

LEMMA ThreadTyped ==
  ASSUME Typed, NEW th \in Threads, ThreadStep(th)
  PROVE  Typed'
<1> USE DEF Typed, TypeOK, ThreadsCarry, CarriesJob, SyncCarries, PcStates, BuyStates,
        SellStates, CarryStates, Sides, Go, Return, FinishInFlight, memory, rows,
        market, sync, persister
<1>1. CASE TryBeginBuy(th)
  <2>1. job[th] \in Job /\ job[th].token \in Tokens
    BY <1>1 DEF TryBeginBuy, Job
  <2>2. CASE openPositions[job[th].token] = None /\ inFlight[job[th].token] = "none"
    <3>1. UNCHANGED <<job, pos>> /\ pc' \in [Threads -> PcStates]
      BY <1>1, <2>2 DEF TryBeginBuy
    <3>2. inFlight' \in [Tokens -> {"none"} \cup Sides]
      BY <1>1, <2>1, <2>2 DEF TryBeginBuy
    <3>. QED
      BY <1>1, <2>1, <2>2, <3>1, <3>2 DEF TryBeginBuy
  <2>3. CASE ~(openPositions[job[th].token] = None /\ inFlight[job[th].token] = "none")
    BY <1>1, <2>3 DEF TryBeginBuy
  <2>. QED
    BY <2>2, <2>3
<1>2. CASE RejectBuy(th)
  BY <1>2, NoneIsApart DEF RejectBuy, Job, Position
<1>3. CASE AcceptBuy(th)
  BY <1>3, NoneIsApart DEF AcceptBuy, Enqueue, CreateOrder, Task, Job, Position
<1>4. CASE BuyFills(th)
  <2> DEFINE p == [id |-> nextId, token |-> job[th].token, mode |-> job[th].mode]
  <2>1. p \in Position /\ nextId + 1 \in 1..(MaxBuys + 1)
    BY <1>4, ConstantsAssumption DEF BuyFills, Job, Position
  <2>2. held' = held \cup {p} /\ pos' = [pos EXCEPT ![th] = p] /\ nextId' = nextId + 1
    BY <1>4 DEF BuyFills
  <2>. HIDE DEF p
  <2>. QED
    BY <1>4, <2>1, <2>2 DEF BuyFills
<1>5. CASE BuyFails(th)
  BY <1>5, NoneIsApart DEF BuyFails, Job, Position
<1>6. CASE SaveBought(th)
  BY <1>6, NoneIsApart DEF SaveBought, SavePosition, Job, Position
<1>7. CASE MarkOpenPosition(th)
  BY <1>7, NoneIsApart DEF MarkOpenPosition, Job, Position
<1>8. CASE EnqueueFilledBuy(th)
  BY <1>8, NoneIsApart DEF EnqueueFilledBuy, Enqueue, FilledBuy, Task, Job, Position
<1>9. CASE TryBeginSell(th)
  <2>1. job[th] \in Job /\ job[th].token \in Tokens
    BY <1>9 DEF TryBeginSell, Job
  <2>2. CASE inFlight[job[th].token] = "none" /\ openPositions[job[th].token] # None
    <3>1. UNCHANGED <<job, pos>> /\ pc' \in [Threads -> PcStates]
      BY <1>9, <2>2 DEF TryBeginSell
    <3>2. inFlight' \in [Tokens -> {"none"} \cup Sides]
      BY <1>9, <2>1, <2>2 DEF TryBeginSell
    <3>. QED
      BY <1>9, <2>1, <2>2, <3>1, <3>2 DEF TryBeginSell
  <2>3. CASE ~(inFlight[job[th].token] = "none" /\ openPositions[job[th].token] # None)
    BY <1>9, <2>3 DEF TryBeginSell
  <2>. QED
    BY <2>2, <2>3
<1>10. CASE BeginManualSell(th)
  <2>1. job[th] \in Job /\ job[th].token \in Tokens
    BY <1>10 DEF BeginManualSell, Job
  <2>2. CASE inFlight[job[th].token] = "none" /\ openPositions[job[th].token] = pos[th]
    <3>1. UNCHANGED <<job, pos>> /\ pc' \in [Threads -> PcStates]
      BY <1>10, <2>2 DEF BeginManualSell
    <3>2. inFlight' \in [Tokens -> {"none"} \cup Sides]
      BY <1>10, <2>1, <2>2 DEF BeginManualSell
    <3>. QED
      BY <1>10, <2>1, <2>2, <3>1, <3>2 DEF BeginManualSell
  <2>3. CASE ~(inFlight[job[th].token] = "none" /\ openPositions[job[th].token] = pos[th])
    <3>1. Return(th) /\ UNCHANGED inFlight
      BY <1>10, <2>3 DEF BeginManualSell
    <3>. QED
      BY <1>10, <3>1, NoneIsApart DEF BeginManualSell
  <2>. QED
    BY <2>2, <2>3
<1>11. CASE GetStored(th)
  BY <1>11, NoneIsApart DEF GetStored, Job, Position
<1>12. CASE GetStoredFails(th)
  BY <1>12, NoneIsApart DEF GetStoredFails, Job, Position
<1>13. CASE TakePosition(th)
  BY <1>13, NoneIsApart DEF TakePosition, Job, Position
<1>14. CASE SubmitSell(th)
  <2>1. job[th] \in Job /\ job[th].side = "sell" /\ pos[th] \in Position
    BY <1>14 DEF SubmitSell
  <2> DEFINE j == [side |-> "sell", token |-> job[th].token, mode |-> pos[th].mode]
  <2>2. j \in Job /\ j.side = "sell"
    BY <2>1 DEF Job, Position
  <2>3. job' = [job EXCEPT ![th] = j]
    BY <1>14 DEF SubmitSell
  <2>4. queue' \in Seq(Task)
    BY <1>14, <2>2, <2>3 DEF SubmitSell, Enqueue, CreateOrder, Task
  <2>. HIDE DEF j
  <2>. QED
    BY <1>14, <2>2, <2>3, <2>4 DEF SubmitSell
<1>15. CASE InsertCloseSignalFails(th)
  BY <1>15, NoneIsApart DEF InsertCloseSignalFails, Job, Position
<1>16. CASE SellFills(th)
  BY <1>16, NoneIsApart DEF SellFills, Job, Position
<1>17. CASE SellFails(th)
  BY <1>17, NoneIsApart DEF SellFails, Job, Position
<1>18. CASE SaveRestored(th)
  BY <1>18, NoneIsApart DEF SaveRestored, SavePosition, Job, Position
<1>19. CASE RestoreOpenPosition(th)
  BY <1>19, NoneIsApart DEF RestoreOpenPosition, Job, Position
<1>20. CASE DeleteStored(th)
  BY <1>20, NoneIsApart DEF DeleteStored, Job, Position
<1>21. CASE DeleteStoredFails(th)
  BY <1>21, NoneIsApart DEF DeleteStoredFails, Enqueue, DeleteRuntime, Task, Job, Position
<1>22. CASE FinishSell(th)
  BY <1>22, NoneIsApart DEF FinishSell, Job, Position
<1>23. CASE EnqueueFilledSell(th)
  BY <1>23, NoneIsApart DEF EnqueueFilledSell, Enqueue, FilledSell, Task, Job, Position
<1>. QED
  BY <1>1, <1>2, <1>3, <1>4, <1>5, <1>6, <1>7, <1>8, <1>9, <1>10, <1>11, <1>12, <1>13, <1>14, <1>15, <1>16, <1>17, <1>18, <1>19, <1>20, <1>21, <1>22, <1>23 DEF ThreadStep

LEMMA PersisterTyped ==
  ASSUME Typed, RunTask \/ FailTask \/ \E task \in delayed : RequeueTask(task)
  PROVE  Typed'
<1> USE DEF Typed, TypeOK, ThreadsCarry, CarriesJob, SyncCarries, memory, rows, market,
        thread, sync
<1>1. ASSUME queue # <<>> PROVE Head(queue) \in Task /\ Tail(queue) \in Seq(Task)
  BY <1>1
<1>2. CASE RunTask
  <2> DEFINE task == Head(queue)
  <2>1. task \in Task /\ queue' \in Seq(Task) /\ Apply(task)
    BY <1>1, <1>2 DEF RunTask
  <2>2. /\ dbOrders' \subseteq Job /\ dbOpen' \subseteq Position
        /\ dbClosed' \subseteq Position /\ redis' \in [Tokens -> Position \cup {None}]
    <3>. HIDE DEF task
    <3>1. CASE task \in [kind : {"create_order"}, job : Job]
      <4>1. task.kind = "create_order" /\ task.job \in Job
        BY <3>1
      <4>2. dbOrders' = dbOrders \cup {task.job} /\ UNCHANGED <<dbOpen, dbClosed, redis>>
        BY <2>1, <4>1 DEF Apply
      <4> QED BY <4>1, <4>2
    <3>2. CASE task \in [kind : {"filled_buy", "filled_sell"}, pos : Position]
      BY <2>1, <3>2 DEF Apply
    <3>3. CASE task \in [kind : {"delete_runtime"}, token : Tokens]
      BY <2>1, <3>3 DEF Apply
    <3>. QED
      BY <2>1, <3>1, <3>2, <3>3 DEF Task
  <2>. QED
    BY <1>2, <2>1, <2>2 DEF RunTask
<1>3. CASE FailTask
  BY <1>1, <1>3 DEF FailTask
<1>4. CASE \E task \in delayed : RequeueTask(task)
  BY <1>4 DEF RequeueTask, Enqueue
<1>. QED
  BY <1>2, <1>3, <1>4

LEMMA SyncTyped ==
  ASSUME Typed, SyncStep
  PROVE  Typed'
<1> USE DEF Typed, TypeOK, ThreadsCarry, CarriesJob, SyncCarries, memory, rows, market,
        thread, persister
<1>1. CASE SyncSnapshot
  BY <1>1 DEF SyncSnapshot
<1>2. CASE \E p \in syncTodo : SyncPrice(p)
  BY <1>2 DEF SyncPrice
<1>3. CASE SyncSave
  BY <1>3 DEF SyncSave
<1>4. CASE SyncSaveFails
  BY <1>4 DEF SyncSaveFails
<1>5. CASE SyncWriteBack
  BY <1>5 DEF SyncWriteBack
<1>. QED
  BY <1>1, <1>2, <1>3, <1>4, <1>5 DEF SyncStep

LEMMA RestartTyped ==
  ASSUME Typed, Restart
  PROVE  Typed'
<1>1. \A t \in Tokens : LoadedPosition(t) \in Position \cup {None}
  BY DEF LoadedPosition, Typed, TypeOK
<1>2. redis' \in [Tokens -> Position \cup {None}]
  BY <1>1 DEF Restart
<1>. QED
  BY <1>2 DEF Restart, Typed, TypeOK, ThreadsCarry, CarriesJob, SyncCarries, PcStates,
     BuyStates, SellStates, CarryStates, rows, market

LEMMA TypedNext == Typed /\ [Next]_vars => Typed'
<1> SUFFICES ASSUME Typed, [Next]_vars PROVE Typed'
  OBVIOUS
<1>1. ASSUME NEW th \in Handlers, NEW j \in dbOrders, RetryOrder(th, j) PROVE Typed'
  BY <1>1 DEF RetryOrder, Go, Typed, TypeOK, ThreadsCarry, CarriesJob, SyncCarries, PcStates,
     BuyStates, SellStates, CarryStates, Threads, memory, rows, market, sync, persister
<1>2. ASSUME NEW th \in Handlers, NEW p \in dbOpen, ClosePosition(th, p) PROVE Typed'
  <2>1. p \in Position /\ [side |-> "sell", token |-> p.token, mode |-> p.mode] \in Job
    BY DEF Typed, TypeOK, Position, Job, Sides
  <2>. QED
    BY <1>2, <2>1 DEF ClosePosition, Go, Typed, TypeOK, ThreadsCarry, CarriesJob, SyncCarries,
       PcStates, BuyStates, SellStates, CarryStates, Threads, memory, rows, market, sync, persister
<1>3. ASSUME NEW mode \in Modes, UpdateTradeMode(mode) PROVE Typed'
  BY <1>3 DEF UpdateTradeMode, Typed, TypeOK, ThreadsCarry, CarriesJob, SyncCarries, memory,
     rows, market, sync, persister, thread
<1>4. CASE UNCHANGED vars
  BY <1>4 DEF vars, Typed, TypeOK, ThreadsCarry, CarriesJob, SyncCarries, memory, rows, market,
     sync, persister, thread
<1>. QED
  BY <1>1, <1>2, <1>3, <1>4, ReceiveTyped, ThreadTyped, PersisterTyped, SyncTyped, RestartTyped
     DEF Next

\* Every variable keeps its type, whatever the faults.
THEOREM TypeCorrect == Spec => []TypeOK
<1>1. Typed => TypeOK
  BY DEF Typed
<1>. QED
  BY <1>1, TypedInit, TypedNext, PTL DEF Spec

-----------------------------------------------------------------------------
(* Exclusive use of a token *)

Owning == BuyStates \cup SellStates

\* Threads other than th keep their place and their signal.
OthersRest(th) ==
  \A other \in Threads \ {th} : pc'[other] = pc[other] /\ job'[other] = job[other]

\* A thread that moves without entering or leaving the owning states, or
\* changing its token or side, leaves exclusiveness alone.
LEMMA StayExclusive ==
  ASSUME Typed, InFlightExclusive, NEW th \in Threads, OthersRest(th),
         UNCHANGED inFlight,
         pc'[th] \in Owning <=> pc[th] \in Owning,
         pc[th] \in Owning => job'[th].token = job[th].token /\ job'[th].side = job[th].side
  PROVE  InFlightExclusive'
BY DEF InFlightExclusive, Owns, Owning, OthersRest

\* Entering: the token was free, and is marked with the side of the signal.
LEMMA ClaimExclusive ==
  ASSUME Typed, InFlightExclusive, NEW th \in Threads, OthersRest(th),
         job[th].token \in Tokens, job'[th] = job[th],
         inFlight[job[th].token] = "none", job[th].side # "none",
         inFlight' = [inFlight EXCEPT ![job[th].token] = job[th].side],
         pc[th] \notin Owning, pc'[th] \in Owning
  PROVE  InFlightExclusive'
<1>1. \A other \in Threads : ~Owns(other, job[th].token)
  BY NoneIsApart DEF InFlightExclusive, Owns, Owning, Typed, ThreadsCarry, CarriesJob, Job, Sides
<1>2. \A t \in Tokens, other \in Threads :
        Owns(other, t)' <=> IF other = th THEN t = job[th].token ELSE Owns(other, t)
  BY DEF Owns, Owning, OthersRest
<1>3. \A t \in Tokens : t # job[th].token => inFlight'[t] = inFlight[t]
  BY DEF Typed, TypeOK
<1>4. inFlight'[job[th].token] = job[th].side
  BY DEF Typed, TypeOK
<1>5. ASSUME NEW t \in Tokens, t = job[th].token
      PROVE  /\ inFlight'[t] # "none" => \E x \in Threads : Owns(x, t)'
             /\ \A x \in Threads : Owns(x, t)' =>
                  /\ inFlight'[t] = job'[x].side
                  /\ \A y \in Threads : Owns(y, t)' => y = x
  BY <1>1, <1>2, <1>4, <1>5
<1>6. ASSUME NEW t \in Tokens, t # job[th].token
      PROVE  /\ inFlight'[t] # "none" => \E x \in Threads : Owns(x, t)'
             /\ \A x \in Threads : Owns(x, t)' =>
                  /\ inFlight'[t] = job'[x].side
                  /\ \A y \in Threads : Owns(y, t)' => y = x
  <2>1. \A x \in Threads : Owns(x, t)' => Owns(x, t) /\ job'[x] = job[x]
    BY <1>2, <1>6 DEF OthersRest
  <2>2. \A x \in Threads : Owns(x, t) => Owns(x, t)'
    BY <1>2, <1>6 DEF Owns, Owning
  <2>. QED
    BY <1>3, <1>6, <2>1, <2>2 DEF InFlightExclusive
<1>. QED
  BY <1>5, <1>6 DEF InFlightExclusive

\* Leaving: the mark of the token is cleared by its only owner.
LEMMA ReleaseExclusive ==
  ASSUME Typed, InFlightExclusive, NEW th \in Threads, OthersRest(th),
         pc[th] \in Owning, pc'[th] \notin Owning, FinishInFlight(job[th].token)
  PROVE  InFlightExclusive'
<1>1. job[th].token \in Tokens
  BY DEF Typed, ThreadsCarry, CarriesJob, Owning, BuyStates, SellStates, Job
<1>2. \A t \in Tokens, other \in Threads :
        Owns(other, t)' <=> other # th /\ Owns(other, t)
  BY DEF Owns, Owning, OthersRest
<1>3. \A t \in Tokens : inFlight'[t] = IF t = job[th].token THEN "none" ELSE inFlight[t]
  BY DEF Typed, TypeOK, FinishInFlight
<1>4. \A other \in Threads \ {th} : ~Owns(other, job[th].token)
  BY <1>1 DEF InFlightExclusive, Owns, Owning
<1>5. Owns(th, job[th].token) /\ \A t \in Tokens : t # job[th].token => ~Owns(th, t)
  BY DEF Owns, Owning
<1>. QED
  BY <1>1, <1>2, <1>3, <1>4, <1>5 DEF InFlightExclusive, OthersRest

LEMMA ThreadExclusive ==
  ASSUME Typed, InFlightExclusive, NEW th \in Threads, ThreadStep(th)
  PROVE  InFlightExclusive'
<1> USE DEF OthersRest, Owning, BuyStates, SellStates, Go, Return
<1>0. pc \in [Threads -> PcStates] /\ job \in [Threads -> Job \cup {None}] /\ CarriesJob(th)
  BY DEF Typed, TypeOK, ThreadsCarry
<1>1. CASE TryBeginBuy(th)
  <2>1. job[th] \in Job /\ job[th].side = "buy" /\ pc[th] \notin Owning
    BY <1>1, <1>0 DEF TryBeginBuy, CarriesJob
  <2>2. CASE openPositions[job[th].token] = None /\ inFlight[job[th].token] = "none"
    BY <1>1, <1>0, <2>1, <2>2, ClaimExclusive DEF TryBeginBuy, Job
  <2>3. CASE ~(openPositions[job[th].token] = None /\ inFlight[job[th].token] = "none")
    BY <1>1, <1>0, <2>1, <2>3, StayExclusive DEF TryBeginBuy
  <2>. QED
    BY <2>2, <2>3
<1>2. CASE TryBeginSell(th)
  <2>1. job[th] \in Job /\ job[th].side = "sell" /\ pc[th] \notin Owning
    BY <1>2, <1>0 DEF TryBeginSell, CarriesJob
  <2>2. CASE inFlight[job[th].token] = "none" /\ openPositions[job[th].token] # None
    BY <1>2, <1>0, <2>1, <2>2, ClaimExclusive DEF TryBeginSell, Job
  <2>3. CASE ~(inFlight[job[th].token] = "none" /\ openPositions[job[th].token] # None)
    BY <1>2, <1>0, <2>1, <2>3, StayExclusive DEF TryBeginSell
  <2>. QED
    BY <2>2, <2>3
<1>3. CASE BeginManualSell(th)
  <2>1. job[th] \in Job /\ job[th].side = "sell" /\ pc[th] \notin Owning
    BY <1>3, <1>0 DEF BeginManualSell, CarriesJob
  <2>2. CASE inFlight[job[th].token] = "none" /\ openPositions[job[th].token] = pos[th]
    BY <1>3, <1>0, <2>1, <2>2, ClaimExclusive DEF BeginManualSell, Job
  <2>3. CASE ~(inFlight[job[th].token] = "none" /\ openPositions[job[th].token] = pos[th])
    BY <1>3, <1>0, <2>1, <2>3, StayExclusive DEF BeginManualSell
  <2>. QED
    BY <2>2, <2>3
<1>4. CASE RejectBuy(th)
  BY <1>4, <1>0, ReleaseExclusive DEF RejectBuy
<1>5. CASE BuyFails(th)
  BY <1>5, <1>0, ReleaseExclusive DEF BuyFails
<1>6. CASE MarkOpenPosition(th)
  BY <1>6, <1>0, ReleaseExclusive DEF MarkOpenPosition
<1>7. CASE GetStoredFails(th)
  BY <1>7, <1>0, ReleaseExclusive DEF GetStoredFails
<1>8. CASE RestoreOpenPosition(th)
  BY <1>8, <1>0, ReleaseExclusive DEF RestoreOpenPosition
<1>9. CASE FinishSell(th)
  BY <1>9, <1>0, ReleaseExclusive DEF FinishSell
<1>10. CASE AcceptBuy(th)
  BY <1>10, <1>0, StayExclusive DEF AcceptBuy, memory, CarriesJob
<1>11. CASE BuyFills(th)
  BY <1>11, <1>0, StayExclusive DEF BuyFills, memory, CarriesJob
<1>12. CASE SaveBought(th)
  BY <1>12, <1>0, StayExclusive DEF SaveBought, SavePosition, memory, CarriesJob
<1>13. CASE EnqueueFilledBuy(th)
  BY <1>13, <1>0, StayExclusive DEF EnqueueFilledBuy, memory, CarriesJob
<1>14. CASE GetStored(th)
  BY <1>14, <1>0, StayExclusive DEF GetStored, memory, CarriesJob
<1>15. CASE TakePosition(th)
  BY <1>15, <1>0, StayExclusive DEF TakePosition, memory, CarriesJob
<1>16. CASE SubmitSell(th)
  BY <1>16, <1>0, StayExclusive DEF SubmitSell, memory, CarriesJob
<1>17. CASE InsertCloseSignalFails(th)
  BY <1>17, <1>0, StayExclusive DEF InsertCloseSignalFails, memory, CarriesJob
<1>18. CASE SellFills(th)
  BY <1>18, <1>0, StayExclusive DEF SellFills, memory, CarriesJob
<1>19. CASE SellFails(th)
  BY <1>19, <1>0, StayExclusive DEF SellFails, memory, CarriesJob
<1>20. CASE SaveRestored(th)
  BY <1>20, <1>0, StayExclusive DEF SaveRestored, SavePosition, memory, CarriesJob
<1>21. CASE DeleteStored(th)
  BY <1>21, <1>0, StayExclusive DEF DeleteStored, memory, CarriesJob
<1>22. CASE DeleteStoredFails(th)
  BY <1>22, <1>0, StayExclusive DEF DeleteStoredFails, memory, CarriesJob
<1>23. CASE EnqueueFilledSell(th)
  BY <1>23, <1>0, StayExclusive DEF EnqueueFilledSell, memory, CarriesJob
<1>. QED
  BY <1>1, <1>2, <1>3, <1>4, <1>5, <1>6, <1>7, <1>8, <1>9, <1>10, <1>11, <1>12, <1>13, <1>14, <1>15, <1>16, <1>17, <1>18, <1>19, <1>20, <1>21, <1>22, <1>23 DEF ThreadStep

LEMMA ExclusiveNext == Typed /\ InFlightExclusive /\ [Next]_vars => InFlightExclusive'
<1> SUFFICES ASSUME Typed, InFlightExclusive, [Next]_vars PROVE InFlightExclusive'
  OBVIOUS
<1> USE DEF memory, thread
<1>0. pc \in [Threads -> PcStates] /\ job \in [Threads -> Job \cup {None}]
  BY DEF Typed, TypeOK
<1>1. CASE UNCHANGED <<inFlight, pc, job>>
  BY <1>1 DEF InFlightExclusive, Owns
<1>2. ASSUME NEW id \in SignalIds, NEW side \in Sides, NEW t \in Tokens, ReceiveSignal(id, side, t)
      PROVE  InFlightExclusive'
  BY <1>0, <1>2, StayExclusive DEF ReceiveSignal, Go, OthersRest, Owning, BuyStates, SellStates, Threads
<1>3. ASSUME NEW th \in Handlers, NEW j \in dbOrders, RetryOrder(th, j) PROVE InFlightExclusive'
  BY <1>0, <1>3, StayExclusive DEF RetryOrder, Go, OthersRest, Owning, BuyStates, SellStates, Threads
<1>4. ASSUME NEW th \in Handlers, NEW p \in dbOpen, ClosePosition(th, p) PROVE InFlightExclusive'
  BY <1>0, <1>4, StayExclusive DEF ClosePosition, Go, OthersRest, Owning, BuyStates, SellStates, Threads
<1>5. CASE Restart
  BY <1>5 DEF Restart, InFlightExclusive, Owns, BuyStates, SellStates
<1>6. ASSUME NEW mode \in Modes, UpdateTradeMode(mode) PROVE UNCHANGED <<inFlight, pc, job>>
  BY <1>6 DEF UpdateTradeMode
<1>7. CASE RunTask \/ FailTask \/ \E task \in delayed : RequeueTask(task)
  BY <1>1, <1>7 DEF RunTask, FailTask, RequeueTask
<1>8. CASE SyncStep
  BY <1>1, <1>8 DEF SyncStep, SyncSnapshot, SyncPrice, SyncSave, SyncSaveFails, SyncWriteBack
<1>9. CASE UNCHANGED vars
  BY <1>1, <1>9 DEF vars
<1>. QED
  BY <1>1, <1>2, <1>3, <1>4, <1>5, <1>6, <1>7, <1>8, <1>9, ThreadExclusive DEF Next

\* Two threads never trade a token at once, and the in-flight mark is set
\* exactly while one does: tryBegin* and the paths that clear the mark, under
\* restarts, price sync and any failure of Redis, database or executor.
THEOREM TokensAreExclusive == Spec => []InFlightExclusive
<1>1. Init => InFlightExclusive
  BY DEF Init, InFlightExclusive, Owns, BuyStates, SellStates
<1>. QED
  BY <1>1, TypedInit, TypedNext, ExclusiveNext, PTL DEF Spec

-----------------------------------------------------------------------------
(* What the database may say about a position.                             *)

\* The tasks the persister has yet to run.
Pending == delayed \cup {queue[n] : n \in 1..Len(queue)}

Issued(p) == p # None => p.id < nextId

\* No position anywhere has an id the market has yet to give out.
AllIssued ==
  /\ \A t \in Tokens : Issued(openPositions[t]) /\ Issued(redis[t])
  /\ \A th \in Threads : Issued(pos[th])
  /\ Issued(syncCur)
  /\ \A p \in syncTodo \cup dbOpen \cup dbClosed \cup held : Issued(p)
  /\ \A task \in Pending : task.kind \in {"filled_buy", "filled_sell"} => Issued(task.pos)

\* A sale is written, queued or about to be queued only when the account no
\* longer has the position.
SoldIsGone ==
  /\ \A th \in Threads :
       pc[th] \in {"sell_clear", "sell_finish", "sell_persist"} => pos[th] \notin held
  /\ \A task \in Pending : task.kind = "filled_sell" => task.pos \notin held

RowsInv == AllIssued /\ SoldIsGone /\ RowsNeverAhead

-----------------------------------------------------------------------------
(* The queue *)

LEMMA EnqueueAdds ==
  ASSUME queue \in Seq(Task), NEW task \in Task, Enqueue(task), delayed' \subseteq delayed
  PROVE  (Pending)' \subseteq Pending \cup {task}
<1>1. queue' = Append(queue, task) /\ Len(queue') = Len(queue) + 1
  BY DEF Enqueue
<1>2. ASSUME NEW n \in 1..Len(queue') PROVE queue'[n] \in Pending \cup {task}
  <2>1. CASE n \in 1..Len(queue)
    BY <1>1, <2>1 DEF Pending
  <2>2. CASE n = Len(queue) + 1
    BY <1>1, <2>2
  <2>. QED
    BY <1>1, <2>1, <2>2
<1>. QED
  BY <1>2 DEF Pending

LEMMA EnqueueKeeps ==
  ASSUME queue \in Seq(Task), NEW task \in Task, Enqueue(task)
  PROVE  /\ queue' \in Seq(Task) /\ task \in {queue'[n] : n \in 1..Len(queue')}
         /\ {queue[n] : n \in 1..Len(queue)} \subseteq {queue'[n] : n \in 1..Len(queue')}
<1>1. queue' = Append(queue, task) /\ Len(queue') = Len(queue) + 1
  BY DEF Enqueue
<1>2. Len(queue) + 1 \in 1..Len(queue') /\ queue'[Len(queue) + 1] = task
  BY <1>1
<1>3. \A n \in 1..Len(queue) : n \in 1..Len(queue') /\ queue'[n] = queue[n]
  BY <1>1
<1>. QED
  BY <1>1, <1>2, <1>3

LEMMA TailLeaves ==
  ASSUME queue \in Seq(Task), queue # <<>>, queue' = Tail(queue)
  PROVE  {queue[n] : n \in 1..Len(queue)} \subseteq
           {Head(queue)} \cup {queue'[n] : n \in 1..Len(queue')}
<1> SUFFICES ASSUME NEW n \in 1..Len(queue), n # 1
             PROVE  queue[n] \in {queue'[m] : m \in 1..Len(queue')}
  OBVIOUS
<1>1. n - 1 \in 1..Len(queue') /\ queue'[n - 1] = queue[n]
  OBVIOUS
<1>. QED
  BY <1>1

LEMMA TailTakes ==
  ASSUME queue \in Seq(Task), queue # <<>>, queue' = Tail(queue),
         delayed' \subseteq delayed \cup {Head(queue)}
  PROVE  (Pending)' \subseteq Pending /\ Head(queue) \in Pending
<1>1. Head(queue) = queue[1] /\ 1 \in 1..Len(queue)
  OBVIOUS
<1>2. \A n \in 1..Len(queue') : queue'[n] = queue[n + 1] /\ n + 1 \in 1..Len(queue)
  OBVIOUS
<1>. QED
  BY <1>1, <1>2 DEF Pending

LEMMA PendingTyped == ASSUME Typed PROVE Pending \subseteq Task
<1>1. queue \in Seq(Task) /\ delayed \subseteq Task
  BY DEF Typed, TypeOK
<1>. QED
  BY <1>1 DEF Pending

LEMMA RowsInit == Init => RowsInv
BY DEF Init, RowsInv, AllIssued, SoldIsGone, RowsNeverAhead, Issued, Pending

-----------------------------------------------------------------------------
(* The steps *)

\* The purchase is new to all that is written, queued or carried.
LEMMA BuyFillsRows ==
  ASSUME Typed, RowsInv, NEW th \in Threads, BuyFills(th)
  PROVE  RowsInv'
<1> USE DEF memory, rows, sync, persister, Go
<1>0. /\ pc \in [Threads -> PcStates] /\ pos \in [Threads -> Position \cup {None}]
      /\ nextId \in 1..(MaxBuys + 1) /\ held \subseteq Position /\ dbClosed \subseteq Position
      /\ dbOpen \subseteq Position /\ Pending \subseteq Task /\ syncTodo \subseteq Position
      /\ openPositions \in [Tokens -> Position \cup {None}]
      /\ redis \in [Tokens -> Position \cup {None}] /\ syncCur \in Position \cup {None}
  BY ConstantsAssumption, PendingTyped DEF Typed, TypeOK
<1>1. job[th] \in Job
  BY DEF BuyFills, Typed, ThreadsCarry, CarriesJob
<1> PICK p \in Position : /\ p = [id |-> nextId, token |-> job[th].token, mode |-> job[th].mode]
                          /\ p.id = nextId
  BY <1>0, <1>1, ConstantsAssumption DEF BuyFills, Position, Job
<1>2. /\ held' = held \cup {p} /\ pos' = [pos EXCEPT ![th] = p] /\ nextId' = nextId + 1
      /\ pc' = [pc EXCEPT ![th] = "buy_save"]
      /\ UNCHANGED <<openPositions, redis, syncCur, syncTodo, dbOpen, dbClosed, queue, delayed>>
      /\ (Pending)' = Pending
  BY DEF BuyFills, Pending
<1>3. \A q \in Position \cup {None} : Issued(q) => Issued(q)'
  <2> SUFFICES ASSUME NEW q \in Position, Issued(q) PROVE Issued(q)'
    BY DEF Issued
  <2>1. q.id \in Nat
    BY DEF Position
  <2>. QED
    BY <1>0, <1>2, <2>1, NoneIsApart DEF Issued
<1>4. Issued(p)'
  BY <1>0, <1>2 DEF Issued
<1>5. \A q \in Position : Issued(q) => q # p
  BY <1>0, NoneIsApart DEF Issued
<1>6. \A task \in Pending : task.kind \in {"filled_buy", "filled_sell"} => task.pos \in Position
  BY <1>0 DEF Task
<1>7. AllIssued'
  BY <1>0, <1>2, <1>3, <1>4, <1>6 DEF RowsInv, AllIssued
<1>8. \A x \in Threads :
        pc'[x] \in {"sell_clear", "sell_finish", "sell_persist"} => pos'[x] \notin held'
  <2> SUFFICES ASSUME NEW x \in Threads, pc'[x] \in {"sell_clear", "sell_finish", "sell_persist"}
               PROVE  pos'[x] \notin held'
    OBVIOUS
  <2>1. x # th /\ pc[x] = pc'[x] /\ pos'[x] = pos[x]
    BY <1>0, <1>2
  <2>2. pos[x] \in Position /\ Issued(pos[x]) /\ pos[x] \notin held
    BY <2>1 DEF Typed, ThreadsCarry, CarriesJob, CarryStates, RowsInv, AllIssued, SoldIsGone
  <2>. QED
    BY <1>2, <1>5, <2>1, <2>2
<1>9. \A task \in (Pending)' : task.kind = "filled_sell" => task.pos \notin held'
  BY <1>2, <1>5, <1>6 DEF RowsInv, AllIssued, SoldIsGone
<1>10. RowsNeverAhead'
  <2>1. p \notin dbClosed
    BY <1>0, <1>5 DEF RowsInv, AllIssued
  <2>. QED
    BY <1>2, <2>1 DEF RowsInv, RowsNeverAhead
<1>. QED
  BY <1>7, <1>8, <1>9, <1>10 DEF RowsInv, SoldIsGone

\* A thread queues the row of an order, of what it bought, of what it sold, or
\* a deletion.
LEMMA ThreadQueues ==
  ASSUME Typed, NEW th \in Threads, ThreadStep(th)
  PROVE  \A task \in (Pending)' :
           \/ task \in Pending
           \/ task.kind \notin {"filled_buy", "filled_sell"}
           \/ task.kind = "filled_buy" /\ task.pos = pos[th] /\ pc[th] = "buy_persist"
           \/ task.kind = "filled_sell" /\ task.pos = pos[th] /\ pc[th] = "sell_persist"
<1> USE DEF memory, rows, market, sync, persister, Go, Return
<1>0. queue \in Seq(Task) /\ CarriesJob(th)
  BY DEF Typed, TypeOK, ThreadsCarry
<1>1. CASE UNCHANGED <<queue, delayed>>
  BY <1>1 DEF Pending
<1>2. CASE AcceptBuy(th)
  <2>1. CreateOrder(job[th]) \in Task /\ CreateOrder(job[th]).kind = "create_order"
    BY <1>0, <1>2 DEF AcceptBuy, CreateOrder, Task, CarriesJob
  <2>. QED
    BY <1>0, <1>2, <2>1, EnqueueAdds DEF AcceptBuy
<1>3. CASE SubmitSell(th)
  <2> PICK j \in Job : Enqueue(CreateOrder(j))
    <3>1. [side |-> "sell", token |-> job[th].token, mode |-> pos[th].mode] \in Job
      BY <1>0, <1>3 DEF SubmitSell, CarriesJob, CarryStates, Job, Position, Sides
    <3>. QED
      BY <1>3, <3>1 DEF SubmitSell
  <2>1. CreateOrder(j) \in Task /\ CreateOrder(j).kind = "create_order"
    BY DEF CreateOrder, Task
  <2>. QED
    BY <1>0, <1>3, <2>1, EnqueueAdds DEF SubmitSell
<1>4. CASE DeleteStoredFails(th)
  <2>1. /\ DeleteRuntime(job[th].token) \in Task
        /\ DeleteRuntime(job[th].token).kind = "delete_runtime"
    BY <1>0, <1>4 DEF DeleteStoredFails, DeleteRuntime, Task, CarriesJob, Job
  <2>. QED
    BY <1>0, <1>4, <2>1, EnqueueAdds DEF DeleteStoredFails
<1>5. CASE EnqueueFilledBuy(th)
  <2>1. /\ FilledBuy(pos[th]) \in Task /\ FilledBuy(pos[th]).kind = "filled_buy"
        /\ FilledBuy(pos[th]).pos = pos[th]
    BY <1>0, <1>5 DEF EnqueueFilledBuy, FilledBuy, Task, CarriesJob, CarryStates
  <2>. QED
    BY <1>0, <1>5, <2>1, EnqueueAdds DEF EnqueueFilledBuy
<1>6. CASE EnqueueFilledSell(th)
  <2>1. /\ FilledSell(pos[th]) \in Task /\ FilledSell(pos[th]).kind = "filled_sell"
        /\ FilledSell(pos[th]).pos = pos[th]
    BY <1>0, <1>6 DEF EnqueueFilledSell, FilledSell, Task, CarriesJob, CarryStates
  <2>. QED
    BY <1>0, <1>6, <2>1, EnqueueAdds DEF EnqueueFilledSell
<1>7. \/ AcceptBuy(th) \/ SubmitSell(th) \/ DeleteStoredFails(th)
      \/ EnqueueFilledBuy(th) \/ EnqueueFilledSell(th) \/ UNCHANGED <<queue, delayed>>
  BY DEF ThreadStep, TryBeginBuy, TryBeginSell, BeginManualSell, RejectBuy, BuyFills, BuyFails,
     SaveBought, SavePosition, MarkOpenPosition, GetStored, GetStoredFails, TakePosition,
     InsertCloseSignalFails, SellFills, SellFails, SaveRestored, RestoreOpenPosition,
     DeleteStored, FinishSell
<1>. QED
  BY <1>1, <1>2, <1>3, <1>4, <1>5, <1>6, <1>7

\* Every other step of a thread moves positions around, sells one, or queues
\* its row.
LEMMA ThreadRows ==
  ASSUME Typed, RowsInv, NEW th \in Threads, ThreadStep(th), ~BuyFills(th)
  PROVE  RowsInv'
<1> USE DEF memory, rows, market, sync, persister, Go, Return
<1>0. /\ pc \in [Threads -> PcStates] /\ pos \in [Threads -> Position \cup {None}]
      /\ openPositions \in [Tokens -> Position \cup {None}]
      /\ redis \in [Tokens -> Position \cup {None}] /\ queue \in Seq(Task)
      /\ CarriesJob(th)
  BY DEF Typed, TypeOK, ThreadsCarry
<1>1. UNCHANGED <<nextId, syncCur, syncTodo, dbOpen, dbClosed>>
  BY DEF ThreadStep, TryBeginBuy, TryBeginSell, BeginManualSell, RejectBuy, AcceptBuy, BuyFails,
     SaveBought, SavePosition, MarkOpenPosition, EnqueueFilledBuy, GetStored, GetStoredFails,
     TakePosition, SubmitSell, InsertCloseSignalFails, SellFills, SellFails, SaveRestored,
     RestoreOpenPosition, DeleteStored, DeleteStoredFails, FinishSell, EnqueueFilledSell
<1>2. \A p : Issued(p)' <=> Issued(p)
  BY <1>1 DEF Issued
<1>3. held' = held \/ (held' = held \ {pos[th]} /\ SellFills(th))
  BY DEF ThreadStep, TryBeginBuy, TryBeginSell, BeginManualSell, RejectBuy, AcceptBuy, BuyFails,
     SaveBought, SavePosition, MarkOpenPosition, EnqueueFilledBuy, GetStored, GetStoredFails,
     TakePosition, SubmitSell, InsertCloseSignalFails, SellFills, SellFails, SaveRestored,
     RestoreOpenPosition, DeleteStored, DeleteStoredFails, FinishSell, EnqueueFilledSell
<1>4. /\ \A x \in Threads \ {th} : pc'[x] = pc[x] /\ pos'[x] = pos[x]
      /\ pos'[th] = pos[th] \/ pos'[th] = None \/ \E t \in Tokens : pos'[th] = redis[t]
  <2>1. CASE GetStored(th)
    <3>1. job[th].token \in Tokens
      BY <1>0, <2>1 DEF GetStored, CarriesJob, Job
    <3>. QED
      BY <1>0, <2>1, <3>1 DEF GetStored
  <2>2. CASE ~GetStored(th)
    BY <1>0, <2>2
       DEF ThreadStep, TryBeginBuy, TryBeginSell, BeginManualSell, RejectBuy, AcceptBuy, BuyFails,
     SaveBought, SavePosition, MarkOpenPosition, EnqueueFilledBuy, GetStored, GetStoredFails,
     TakePosition, SubmitSell, InsertCloseSignalFails, SellFills, SellFails, SaveRestored,
     RestoreOpenPosition, DeleteStored, DeleteStoredFails, FinishSell, EnqueueFilledSell
  <2>. QED
    BY <2>1, <2>2
<1>5. \A t \in Tokens : openPositions'[t] \in {openPositions[t], pos[th], None}
  BY <1>0
     DEF ThreadStep, TryBeginBuy, TryBeginSell, BeginManualSell, RejectBuy, AcceptBuy, BuyFails,
     SaveBought, SavePosition, MarkOpenPosition, EnqueueFilledBuy, GetStored, GetStoredFails,
     TakePosition, SubmitSell, InsertCloseSignalFails, SellFills, SellFails, SaveRestored,
     RestoreOpenPosition, DeleteStored, DeleteStoredFails, FinishSell, EnqueueFilledSell
<1>6. \A t \in Tokens : redis'[t] \in {redis[t], pos[th], None}
  BY <1>0
     DEF ThreadStep, TryBeginBuy, TryBeginSell, BeginManualSell, RejectBuy, AcceptBuy, BuyFails,
     SaveBought, SavePosition, MarkOpenPosition, EnqueueFilledBuy, GetStored, GetStoredFails,
     TakePosition, SubmitSell, InsertCloseSignalFails, SellFills, SellFails, SaveRestored,
     RestoreOpenPosition, DeleteStored, DeleteStoredFails, FinishSell, EnqueueFilledSell
<1>7. pc'[th] \in {"sell_clear", "sell_finish", "sell_persist"} =>
        /\ pos'[th] = pos[th]
        /\ SellFills(th) \/ pc[th] \in {"sell_clear", "sell_finish", "sell_persist"}
  BY <1>0
     DEF ThreadStep, TryBeginBuy, TryBeginSell, BeginManualSell, RejectBuy, AcceptBuy, BuyFails,
     SaveBought, SavePosition, MarkOpenPosition, EnqueueFilledBuy, GetStored, GetStoredFails,
     TakePosition, SubmitSell, InsertCloseSignalFails, SellFills, SellFails, SaveRestored,
     RestoreOpenPosition, DeleteStored, DeleteStoredFails, FinishSell, EnqueueFilledSell
<1>8. \A task \in (Pending)' :
        \/ task \in Pending
        \/ task.kind \notin {"filled_buy", "filled_sell"}
        \/ task.kind = "filled_buy" /\ task.pos = pos[th]
        \/ task.kind = "filled_sell" /\ task.pos = pos[th] /\ pc[th] = "sell_persist"
  BY ThreadQueues
<1>9. AllIssued'
  <2>1. Issued(None) /\ Issued(pos[th])
    BY DEF Issued, RowsInv, AllIssued
  <2>2. \A t \in Tokens : Issued(openPositions'[t]) /\ Issued(redis'[t])
    BY <1>5, <1>6, <2>1 DEF RowsInv, AllIssued
  <2>3. \A x \in Threads : Issued(pos'[x])
    BY <1>4, <2>1 DEF RowsInv, AllIssued
  <2>4. \A task \in (Pending)' :
          task.kind \in {"filled_buy", "filled_sell"} => Issued(task.pos)
    BY <1>8, <2>1 DEF RowsInv, AllIssued
  <2>5. held' \subseteq held
    BY <1>3
  <2>. QED
    BY <1>1, <1>2, <2>2, <2>3, <2>4, <2>5 DEF RowsInv, AllIssued
<1>10. SoldIsGone'
  <2>1. ASSUME NEW x \in Threads, pc'[x] \in {"sell_clear", "sell_finish", "sell_persist"}
        PROVE  pos'[x] \notin held'
    <3>1. CASE x = th
      BY <1>3, <1>7, <2>1, <3>1 DEF RowsInv, SoldIsGone, SellFills
    <3>2. CASE x # th
      BY <1>3, <1>4, <2>1, <3>2 DEF RowsInv, SoldIsGone
    <3>. QED
      BY <3>1, <3>2
  <2>2. ASSUME NEW task \in (Pending)', task.kind = "filled_sell"
        PROVE  task.pos \notin held'
    BY <1>3, <1>8, <2>2 DEF RowsInv, SoldIsGone
  <2>. QED
    BY <2>1, <2>2 DEF SoldIsGone
<1>11. RowsNeverAhead'
  BY <1>1, <1>3 DEF RowsInv, RowsNeverAhead
<1>. QED
  BY <1>9, <1>10, <1>11 DEF RowsInv

\* The persister writes what it took from the queue: a purchase is refused
\* once its position is closed, a sale closes what the account has not.
LEMMA PersisterRows ==
  ASSUME Typed, RowsInv, RunTask \/ FailTask \/ \E task \in delayed : RequeueTask(task)
  PROVE  RowsInv'
<1> USE DEF memory, market, thread, sync
<1>0. /\ queue \in Seq(Task) /\ Pending \subseteq Task /\ delayed \subseteq Task
      /\ redis \in [Tokens -> Position \cup {None}]
  BY PendingTyped DEF Typed, TypeOK
<1>1. UNCHANGED <<openPositions, syncCur, syncTodo, held, nextId, pc, pos>>
  BY DEF RunTask, FailTask, RequeueTask
<1>2. \A p : Issued(p)' <=> Issued(p)
  BY <1>1 DEF Issued
<1>3. (Pending)' \subseteq Pending
  <2>1. CASE RunTask \/ FailTask
    BY <1>0, <2>1, TailTakes DEF RunTask, FailTask
  <2>2. ASSUME NEW task \in delayed, RequeueTask(task) PROVE (Pending)' \subseteq Pending
    <3>1. (Pending)' \subseteq Pending \cup {task}
      BY <1>0, <2>2, EnqueueAdds DEF RequeueTask
    <3>. QED
      BY <3>1 DEF Pending
  <2>. QED
    BY <2>1, <2>2
<1>4. SoldIsGone'
  BY <1>1, <1>3 DEF RowsInv, SoldIsGone
<1>5. CASE UNCHANGED <<redis, dbOpen, dbClosed>>
  BY <1>1, <1>2, <1>3, <1>4, <1>5 DEF RowsInv, AllIssued, RowsNeverAhead
<1>6. CASE RunTask
  <2> PICK task \in Pending : task = Head(queue)
    BY <1>0, <1>6, TailTakes DEF RunTask
  <2>1. task \in Task /\ Applicable(task) /\ Apply(task)
    BY <1>0, <1>6 DEF RunTask
  <2>2. CASE task.kind = "create_order"
    BY <1>5, <2>1, <2>2 DEF Apply
  <2>3. CASE task.kind = "filled_buy"
    <3>1. /\ dbOpen' = dbOpen \cup {task.pos} /\ UNCHANGED <<dbClosed, redis>>
          /\ task.pos \notin dbClosed
      BY <2>1, <2>3 DEF Apply, Applicable
    <3>2. Issued(task.pos)
      BY <2>3 DEF RowsInv, AllIssued
    <3>3. AllIssued'
      BY <1>1, <1>2, <1>3, <3>1, <3>2 DEF RowsInv, AllIssued
    <3>4. RowsNeverAhead'
      BY <1>1, <3>1 DEF RowsInv, RowsNeverAhead
    <3>. QED
      BY <1>4, <3>3, <3>4 DEF RowsInv
  <2>4. CASE task.kind = "filled_sell"
    <3>1. /\ dbOpen' = dbOpen \ {task.pos} /\ dbClosed' = dbClosed \cup {task.pos}
          /\ UNCHANGED redis
      BY <2>1, <2>4 DEF Apply
    <3>2. Issued(task.pos) /\ task.pos \notin held
      BY <2>4 DEF RowsInv, AllIssued, SoldIsGone
    <3>3. AllIssued'
      BY <1>1, <1>2, <1>3, <3>1, <3>2 DEF RowsInv, AllIssued
    <3>4. RowsNeverAhead'
      BY <1>1, <3>1, <3>2 DEF RowsInv, RowsNeverAhead
    <3>. QED
      BY <1>4, <3>3, <3>4 DEF RowsInv
  <2>5. CASE task.kind = "delete_runtime"
    <3>1. redis' = [redis EXCEPT ![task.token] = None] /\ UNCHANGED <<dbOpen, dbClosed>>
      BY <2>1, <2>5 DEF Apply, rows
    <3>2. \A t \in Tokens : redis'[t] \in {redis[t], None}
      BY <1>0, <3>1
    <3>3. Issued(None)
      BY DEF Issued
    <3>. QED
      BY <1>1, <1>2, <1>3, <1>4, <3>1, <3>2, <3>3 DEF RowsInv, AllIssued, RowsNeverAhead
  <2>. QED
    BY <2>1, <2>2, <2>3, <2>4, <2>5 DEF Task
<1>7. CASE FailTask \/ \E task \in delayed : RequeueTask(task)
  BY <1>5, <1>7 DEF FailTask, RequeueTask, rows
<1>. QED
  BY <1>6, <1>7

LEMMA SyncRows ==
  ASSUME Typed, RowsInv, SyncStep
  PROVE  RowsInv'
<1> USE DEF memory, rows, market, thread, persister
<1>0. /\ openPositions \in [Tokens -> Position \cup {None}]
      /\ redis \in [Tokens -> Position \cup {None}]
  BY DEF Typed, TypeOK
<1>1. UNCHANGED <<dbOpen, dbClosed, held, nextId, pc, pos, queue, delayed>>
  BY DEF SyncStep, SyncSnapshot, SyncPrice, SyncSave, SyncSaveFails, SyncWriteBack
<1>2. (Pending)' = Pending /\ \A p : Issued(p)' <=> Issued(p)
  BY <1>1 DEF Issued, Pending
<1>3. SoldIsGone' /\ RowsNeverAhead'
  BY <1>1, <1>2 DEF RowsInv, SoldIsGone, RowsNeverAhead
<1>4. /\ \A t \in Tokens : openPositions'[t] \in {openPositions[t], syncCur}
      /\ \A t \in Tokens : redis'[t] \in {redis[t], syncCur}
      /\ syncTodo' \subseteq syncTodo \cup {openPositions[t] : t \in Tokens}
      /\ syncCur' \in {syncCur, None} \cup syncTodo
  BY <1>0 DEF SyncStep, SyncSnapshot, SyncPrice, SyncSave, SyncSaveFails, SyncWriteBack
<1>5. Issued(None)
  BY DEF Issued
<1>6. AllIssued'
  BY <1>1, <1>2, <1>4, <1>5 DEF RowsInv, AllIssued
<1>. QED
  BY <1>3, <1>6 DEF RowsInv

\* The queue is lost with the process; rows and market are not.
LEMMA RestartRows ==
  ASSUME Typed, RowsInv, Restart
  PROVE  RowsInv'
<1> USE DEF rows, market
<1>1. Issued(None)
  BY DEF Issued
<1>2. \A t \in Tokens : Issued(LoadedPosition(t))
  <2> SUFFICES ASSUME NEW t \in Tokens PROVE Issued(LoadedPosition(t))
    OBVIOUS
  <2>1. LoadedPosition(t) \in dbOpen \cup {None, redis[t]}
    BY DEF LoadedPosition
  <2>. QED
    BY <1>1, <2>1 DEF RowsInv, AllIssued
<1>3. /\ \A t \in Tokens : redis'[t] = LoadedPosition(t) /\ openPositions'[t] = redis'[t]
      /\ \A th \in Threads : pc'[th] = "idle" /\ pos'[th] = None
      /\ syncTodo' = {} /\ syncCur' = None /\ queue' = <<>> /\ delayed' = {}
      /\ UNCHANGED <<dbOpen, dbClosed, held, nextId>>
  BY DEF Restart
<1>4. (Pending)' = {} /\ \A p : Issued(p)' <=> Issued(p)
  BY <1>3 DEF Pending, Issued
<1>5. AllIssued'
  BY <1>1, <1>2, <1>3, <1>4 DEF RowsInv, AllIssued
<1>. QED
  BY <1>3, <1>4, <1>5 DEF RowsInv, SoldIsGone, RowsNeverAhead

\* Requests bring no position but one of an open row.
LEMMA RequestRows ==
  ASSUME Typed, RowsInv, NEW th \in Threads,
         UNCHANGED <<openPositions, redis, persister, rows, market, sync>>,
         \A x \in Threads \ {th} : pc'[x] = pc[x] /\ pos'[x] = pos[x],
         pc'[th] \in {"begin", "close_begin"},
         pos'[th] \in {pos[th]} \cup dbOpen
  PROVE  RowsInv'
<1> USE DEF rows, market, sync, persister
<1>1. (Pending)' = Pending /\ \A p : Issued(p)' <=> Issued(p)
  BY DEF Pending, Issued
<1>2. \A x \in Threads : Issued(pos'[x])
  BY DEF RowsInv, AllIssued
<1>3. AllIssued'
  BY <1>1, <1>2 DEF RowsInv, AllIssued
<1>. QED
  BY <1>1, <1>3 DEF RowsInv, SoldIsGone, RowsNeverAhead

LEMMA RowsNext == Typed /\ RowsInv /\ [Next]_vars => RowsInv'
<1> SUFFICES ASSUME Typed, RowsInv, [Next]_vars PROVE RowsInv'
  OBVIOUS
<1>0. pc \in [Threads -> PcStates] /\ pos \in [Threads -> Position \cup {None}]
      /\ Handlers \subseteq Threads /\ Consumer \in Threads
  BY DEF Typed, TypeOK, Threads
<1>1. ASSUME NEW id \in SignalIds, NEW side \in Sides, NEW t \in Tokens, ReceiveSignal(id, side, t)
      PROVE  RowsInv'
  BY <1>0, <1>1, RequestRows DEF ReceiveSignal, Go
<1>2. ASSUME NEW th \in Handlers, NEW j \in dbOrders, RetryOrder(th, j) PROVE RowsInv'
  BY <1>0, <1>2, RequestRows DEF RetryOrder, Go, memory
<1>3. ASSUME NEW th \in Handlers, NEW p \in dbOpen, ClosePosition(th, p) PROVE RowsInv'
  BY <1>0, <1>3, RequestRows DEF ClosePosition, Go, memory
<1>4. CASE (\E mode \in Modes : UpdateTradeMode(mode)) \/ UNCHANGED vars
  <2>1. /\ UNCHANGED <<openPositions, redis, queue, delayed, dbOpen, dbClosed, held, nextId>>
        /\ UNCHANGED <<pc, pos, syncTodo, syncCur>>
    BY <1>4 DEF UpdateTradeMode, vars, memory, persister, rows, market, thread, sync
  <2>. QED
    BY <2>1 DEF RowsInv, AllIssued, SoldIsGone, RowsNeverAhead, Issued, Pending
<1>5. ASSUME NEW th \in Threads, ThreadStep(th) PROVE RowsInv'
  BY <1>5, BuyFillsRows, ThreadRows
<1>. QED
  BY <1>1, <1>2, <1>3, <1>4, <1>5, PersisterRows, SyncRows, RestartRows DEF Next

\* A row is closed only when the position was sold, and stays closed, under
\* every fault, restarts and price sync.
THEOREM RowsFollowSales == Spec => []RowsNeverAhead
<1>1. RowsInv => RowsNeverAhead
  BY DEF RowsInv
<1>2. Spec => []Typed
  BY TypedInit, TypedNext, PTL DEF Spec
<1>. QED
  BY <1>1, <1>2, RowsInit, RowsNext, PTL DEF Spec

-----------------------------------------------------------------------------
(* What the database shows closed is never alive again.                    *)

\* Redis accepts writes and price sync, which writes back what it read long
\* before, is off (its default); deletions may fail, and all else.
WritesReach == ~PriceSyncEnabled /\ "redis_save" \notin Faults

\* A sale is written, queued or about to be queued.
Sold(p) ==
  \/ p \in dbClosed
  \/ FilledSell(p) \in Pending
  \/ \E th \in Threads : pc[th] \in {"sell_clear", "sell_finish", "sell_persist"} /\ pos[th] = p

\* What memory lists is alive, and Redis has nothing else for the token.
Listed(t) ==
  /\ redis[t] # None => redis[t].token = t
  /\ openPositions[t] # None =>
       /\ openPositions[t].token = t
       /\ redis[t] \in {None, openPositions[t]}
       /\ ~Sold(openPositions[t])

\* A thread that trades a token carries its position, alive until it is sold,
\* and knows whether memory lists it.
AliveInHand(th) ==
  LET t == job[th].token
  IN /\ pc[th] \in CarryStates \cap (BuyStates \cup SellStates) => pos[th].token = t
     /\ pc[th] \in {"buy_save", "buy_mark", "sell_take", "sell_submit", "sell_exec",
                    "restore_save", "restore_mem"} => ~Sold(pos[th])
     /\ pc[th] \in {"sell_get", "sell_take"} => openPositions[t] # None
     /\ pc[th] \in BuyStates \cup (SellStates \ {"sell_get", "sell_take"}) =>
          openPositions[t] = None
     /\ pc[th] = "sell_take" => pos[th] = openPositions[t]
     /\ pc[th] \in {"buy_mark", "restore_mem"} => redis[t] \in {None, pos[th]}

GoneInv ==
  /\ \A t \in Tokens : Listed(t)
  /\ \A th \in Threads : AliveInHand(th)
  /\ syncPc = "idle"

\* A thread disturbs only the token it owns, and sells only what it owns.
LEMMA OthersGone ==
  ASSUME Typed, InFlightExclusive, GoneInv, NEW th \in Threads,
         syncPc' = syncPc,
         \A x \in Threads \ {th} : pc'[x] = pc[x] /\ job'[x] = job[x] /\ pos'[x] = pos[x],
         \A u \in Tokens : ~Owns(th, u) =>
           openPositions'[u] = openPositions[u] /\ redis'[u] = redis[u],
         \A p \in Position : Sold(p)' => Sold(p) \/ (p = pos[th] /\ SellFills(th)),
         \A u \in Tokens : Owns(th, u) => Listed(u)',
         AliveInHand(th)'
  PROVE  GoneInv'
<1>1. /\ \A u \in Tokens : openPositions[u] \in Position \cup {None}
      /\ \A x \in Threads : pos[x] \in Position \cup {None}
      /\ \A x \in Threads : pc[x] # "idle" => job[x].token \in Tokens
      /\ \A x \in Threads : pc[x] \in CarryStates => pos[x] \in Position
  BY DEF Typed, TypeOK, ThreadsCarry, CarriesJob, Job
<1>2. SellFills(th) => pos[th] \in Position /\ Owns(th, pos[th].token)
  <2> SUFFICES ASSUME SellFills(th) PROVE pos[th] \in Position /\ Owns(th, pos[th].token)
    OBVIOUS
  <2>1. pc[th] = "sell_exec"
    BY DEF SellFills
  <2>2. AliveInHand(th)
    BY DEF GoneInv
  <2>. QED
    BY <1>1, <2>1, <2>2 DEF AliveInHand, CarryStates, SellStates, Owns
<1>3. \A p \in Position : ~Sold(p) /\ ~Owns(th, p.token) => ~Sold(p)'
  BY <1>2
<1>4. ASSUME NEW u \in Tokens PROVE Listed(u)'
  <2>1. CASE ~Owns(th, u)
    <3>1. openPositions'[u] = openPositions[u] /\ redis'[u] = redis[u] /\ Listed(u)
      BY <2>1 DEF GoneInv
    <3>2. openPositions[u] # None =>
            \A p \in Position : p = openPositions[u] => ~Sold(p)'
      BY <1>1, <1>3, <2>1, <3>1 DEF Listed
    <3>. QED
      BY <1>1, <3>1, <3>2 DEF Listed
  <2>. QED
    BY <2>1
<1>5. ASSUME NEW x \in Threads PROVE AliveInHand(x)'
  <2>1. CASE x # th
    <3>1. pc'[x] = pc[x] /\ job'[x] = job[x] /\ pos'[x] = pos[x] /\ AliveInHand(x)
      BY <2>1 DEF GoneInv
    <3>2. CASE pc[x] \in BuyStates \cup SellStates
      <4>1. job[x].token \in Tokens /\ ~Owns(th, job[x].token)
        BY <1>1, <2>1, <3>2 DEF InFlightExclusive, Owns, BuyStates, SellStates
      <4>2. pc[x] \in {"buy_save", "buy_mark", "sell_take", "sell_submit", "sell_exec",
                       "restore_save", "restore_mem"} =>
              \A p \in Position : p = pos[x] => ~Sold(p)'
        BY <1>3, <3>1, <4>1 DEF AliveInHand, CarryStates, BuyStates, SellStates
      <4>3. pc[x] \in {"buy_save", "buy_mark", "sell_take", "sell_submit", "sell_exec",
                       "restore_save", "restore_mem"} => pos[x] \in Position
        BY <1>1 DEF CarryStates
      <4>. QED
        BY <3>1, <4>1, <4>2, <4>3 DEF AliveInHand
    <3>3. CASE pc[x] \notin BuyStates \cup SellStates
      BY <3>1, <3>3 DEF AliveInHand, BuyStates, SellStates
    <3>. QED
      BY <3>2, <3>3
  <2>. QED
    BY <2>1
<1>. QED
  BY <1>4, <1>5 DEF GoneInv

\* Only a fill of a sell makes a position one that is sold.
LEMMA SoldByFill ==
  ASSUME Typed, NEW th \in Threads, ThreadStep(th), NEW p \in Position, Sold(p)'
  PROVE  Sold(p) \/ (p = pos[th] /\ SellFills(th))
<1> USE DEF memory, rows, market, sync, persister, Go, Return
<1>0. pc \in [Threads -> PcStates] /\ pos \in [Threads -> Position \cup {None}]
  BY DEF Typed, TypeOK
<1>1. dbClosed' = dbClosed
  BY DEF ThreadStep, TryBeginBuy, TryBeginSell, BeginManualSell, RejectBuy, AcceptBuy, BuyFills,
     BuyFails, SaveBought, SavePosition, MarkOpenPosition, EnqueueFilledBuy, GetStored,
     GetStoredFails, TakePosition, SubmitSell, InsertCloseSignalFails, SellFills, SellFails,
     SaveRestored, RestoreOpenPosition, DeleteStored, DeleteStoredFails, FinishSell,
     EnqueueFilledSell
<1>2. FilledSell(p) \in (Pending)' => FilledSell(p) \in Pending \/
        (p = pos[th] /\ pc[th] = "sell_persist")
  BY ThreadQueues DEF FilledSell
<1>3. /\ \A x \in Threads \ {th} : pc'[x] = pc[x] /\ pos'[x] = pos[x]
      /\ pc'[th] \in {"sell_clear", "sell_finish", "sell_persist"} =>
           /\ pos'[th] = pos[th]
           /\ SellFills(th) \/ pc[th] \in {"sell_clear", "sell_finish", "sell_persist"}
  BY <1>0
     DEF ThreadStep, TryBeginBuy, TryBeginSell, BeginManualSell, RejectBuy, AcceptBuy, BuyFills,
     BuyFails, SaveBought, SavePosition, MarkOpenPosition, EnqueueFilledBuy, GetStored,
     GetStoredFails, TakePosition, SubmitSell, InsertCloseSignalFails, SellFills, SellFails,
     SaveRestored, RestoreOpenPosition, DeleteStored, DeleteStoredFails, FinishSell,
     EnqueueFilledSell
<1>. QED
  BY <1>1, <1>2, <1>3 DEF Sold

LEMMA ThreadGone ==
  ASSUME Typed, InFlightExclusive, GoneInv, RowsInv, WritesReach,
         NEW th \in Threads, ThreadStep(th)
  PROVE  GoneInv'
<1> DEFINE t == job[th].token
<1> USE DEF memory, rows, market, sync, persister, Go, Return
<1>0. /\ pc \in [Threads -> PcStates] /\ pos \in [Threads -> Position \cup {None}]
      /\ job \in [Threads -> Job \cup {None}]
      /\ openPositions \in [Tokens -> Position \cup {None}]
      /\ redis \in [Tokens -> Position \cup {None}]
  BY DEF Typed, TypeOK
<1>1. /\ pc[th] # "idle" => t \in Tokens
      /\ pc[th] \in CarryStates => pos[th] \in Position
      /\ AliveInHand(th) /\ \A u \in Tokens : Listed(u)
  BY DEF Typed, ThreadsCarry, CarriesJob, Job, GoneInv
<1>2. /\ syncPc' = syncPc
      /\ \A x \in Threads \ {th} : pc'[x] = pc[x] /\ job'[x] = job[x] /\ pos'[x] = pos[x]
  BY <1>0
     DEF ThreadStep, TryBeginBuy, TryBeginSell, BeginManualSell, RejectBuy, AcceptBuy, BuyFills,
     BuyFails, SaveBought, SavePosition, MarkOpenPosition, EnqueueFilledBuy, GetStored,
     GetStoredFails, TakePosition, SubmitSell, InsertCloseSignalFails, SellFills, SellFails,
     SaveRestored, RestoreOpenPosition, DeleteStored, DeleteStoredFails, FinishSell,
     EnqueueFilledSell
<1>3. \A p \in Position : Sold(p)' => Sold(p) \/ (p = pos[th] /\ SellFills(th))
  BY SoldByFill
<1>4. \A u \in Tokens : ~Owns(th, u) =>
        openPositions'[u] = openPositions[u] /\ redis'[u] = redis[u]
  <2>1. CASE SaveBought(th) \/ SaveRestored(th)
    <3>1. pos[th].token = t /\ pc[th] \in BuyStates \cup SellStates
      BY <1>1, <2>1 DEF SaveBought, SaveRestored, SavePosition, AliveInHand, CarryStates,
         BuyStates, SellStates
    <3>. QED
      BY <1>0, <2>1, <3>1 DEF SaveBought, SaveRestored, SavePosition, Owns
  <2>2. CASE ~SaveBought(th) /\ ~SaveRestored(th)
    BY <1>0, <2>2
     DEF Owns, BuyStates, SellStates, ThreadStep, TryBeginBuy, TryBeginSell, BeginManualSell,
     RejectBuy, AcceptBuy, BuyFills, BuyFails, MarkOpenPosition, EnqueueFilledBuy, GetStored,
     GetStoredFails, TakePosition, SubmitSell, InsertCloseSignalFails, SellFills, SellFails,
     RestoreOpenPosition, DeleteStored, DeleteStoredFails, FinishSell, EnqueueFilledSell
  <2>. QED
    BY <2>1, <2>2
<1>5. pc[th] # "idle"
  BY DEF BuyStates, SellStates, ThreadStep, TryBeginBuy, TryBeginSell, BeginManualSell,
     RejectBuy, AcceptBuy, BuyFills, BuyFails, SaveBought, SavePosition, MarkOpenPosition,
     EnqueueFilledBuy, GetStored, GetStoredFails, TakePosition, SubmitSell,
     InsertCloseSignalFails, SellFills, SellFails, SaveRestored, RestoreOpenPosition,
     DeleteStored, DeleteStoredFails, FinishSell, EnqueueFilledSell
<1> PICK u \in Tokens : u = t
  BY <1>1, <1>5
<1> HIDE DEF t
<1> DEFINE Done == Listed(u)' /\ AliveInHand(th)'
<1>6. SUFFICES Done
  <2> SUFFICES ASSUME NEW v \in Tokens, Owns(th, v), Done PROVE v = u
    BY <1>2, <1>3, <1>4, OthersGone
  <2>. QED
    BY DEF Owns, t
\* Where memory and Redis stay as they are, so does what is listed.
<1>7. openPositions'[u] = openPositions[u] /\ redis'[u] = redis[u] /\ ~SellFills(th) => Listed(u)'
  <2> SUFFICES ASSUME openPositions'[u] = openPositions[u], redis'[u] = redis[u], ~SellFills(th)
               PROVE  Listed(u)'
    OBVIOUS
  <2>1. openPositions[u] # None =>
          \A p \in Position : p = openPositions[u] => ~Sold(p)'
    BY <1>1, <1>3 DEF Listed
  <2>. QED
    BY <1>0, <1>1, <2>1 DEF Listed
<1>8. pos[th] \in Position /\ ~Sold(pos[th]) /\ ~SellFills(th) =>
        \A p \in Position : p = pos[th] => ~Sold(p)'
  BY <1>3
<1>9. SellFills(th) => pc[th] = "sell_exec"
  BY DEF SellFills
<1>10. CASE TryBeginBuy(th) \/ TryBeginSell(th) \/ BeginManualSell(th)
  <2>1. /\ UNCHANGED <<openPositions, redis>> /\ pc[th] \in {"begin", "close_begin"}
        /\ pc[th] = "close_begin" => pos[th] # None
    BY <1>1, <1>10, NoneIsApart DEF TryBeginBuy, TryBeginSell, BeginManualSell, CarryStates
  <2>2. \/ pc'[th] = "idle"
        \/ /\ job'[th].token = u
           /\ \/ pc'[th] = "check" /\ openPositions[u] = None
              \/ pc'[th] = "sell_get" /\ openPositions[u] # None
    BY <1>0, <1>10, <2>1 DEF TryBeginBuy, TryBeginSell, BeginManualSell, t
  <2>3. AliveInHand(th)'
    BY <2>1, <2>2 DEF AliveInHand, BuyStates, SellStates, CarryStates
  <2>. QED
    BY <1>7, <1>9, <2>1, <2>3
<1>11. CASE \/ RejectBuy(th) \/ BuyFails(th) \/ GetStoredFails(th)
            \/ EnqueueFilledBuy(th) \/ EnqueueFilledSell(th)
  <2>1. /\ UNCHANGED <<openPositions, redis>> /\ pc[th] # "sell_exec" /\ pc'[th] = "idle"
    BY <1>0, <1>11
       DEF RejectBuy, BuyFails, GetStoredFails, EnqueueFilledBuy, EnqueueFilledSell
  <2>2. AliveInHand(th)'
    BY <2>1 DEF AliveInHand, BuyStates, SellStates, CarryStates
  <2>. QED
    BY <1>7, <1>9, <2>1, <2>2
<1>12. CASE AcceptBuy(th)
  <2>1. /\ UNCHANGED <<openPositions, redis, job>> /\ pc[th] = "check" /\ pc'[th] = "buy_exec"
    BY <1>0, <1>12 DEF AcceptBuy
  <2>2. openPositions[u] = None
    BY <1>1, <2>1 DEF AliveInHand, BuyStates, t
  <2>3. AliveInHand(th)'
    BY <2>1, <2>2 DEF AliveInHand, BuyStates, SellStates, CarryStates, t
  <2>. QED
    BY <1>7, <1>9, <2>1, <2>3
<1>13. CASE BuyFills(th)
  <2> DEFINE p == [id |-> nextId, token |-> job[th].token, mode |-> job[th].mode]
  <2>1. /\ UNCHANGED <<openPositions, redis, job>> /\ pc[th] = "buy_exec" /\ pc'[th] = "buy_save"
        /\ pos'[th] = p /\ p.token = u /\ p.id = nextId
    BY <1>0, <1>13 DEF BuyFills, t
  <2>2. openPositions[u] = None
    BY <1>1, <2>1 DEF AliveInHand, BuyStates, t
  <2>3. p \in Position
    BY <1>0, <1>13, ConstantsAssumption DEF BuyFills, Typed, TypeOK, ThreadsCarry, CarriesJob,
       BuyStates, Job, Position
  <2> HIDE DEF p
  <2>4. ~Issued(p)
    BY <2>1, <2>3, NoneIsApart DEF Issued, Position
  <2>5. ~Sold(p)
    BY <2>4 DEF Sold, RowsInv, AllIssued, FilledSell
  <2>6. \A q \in Position : q = p => ~Sold(q)'
    BY <1>3, <1>9, <2>1, <2>5
  <2>7. AliveInHand(th)'
    BY <2>1, <2>2, <2>3, <2>6 DEF AliveInHand, BuyStates, SellStates, CarryStates, t
  <2>. QED
    BY <1>7, <1>9, <2>1, <2>7
<1>14. CASE SaveBought(th) \/ SaveRestored(th)
  <2>1. /\ openPositions' = openPositions /\ job' = job /\ pos' = pos
        /\ redis' = [redis EXCEPT ![pos[th].token] = pos[th]]
        /\ \/ pc[th] = "buy_save" /\ pc'[th] = "buy_mark"
           \/ pc[th] = "restore_save" /\ pc'[th] = "restore_mem"
    BY <1>0, <1>14 DEF SaveBought, SaveRestored, SavePosition, WritesReach
  <2>2. /\ openPositions[u] = None /\ pos[th] \in Position /\ pos[th].token = u
        /\ ~Sold(pos[th])
    BY <1>1, <2>1 DEF AliveInHand, BuyStates, SellStates, CarryStates, t
  <2>3. redis'[u] = pos[th]
    BY <1>0, <2>1, <2>2
  <2>4. \A p \in Position : p = pos[th] => ~Sold(p)'
    BY <1>8, <1>9, <2>1, <2>2
  <2>5. AliveInHand(th)'
    BY <2>1, <2>2, <2>3, <2>4 DEF AliveInHand, BuyStates, SellStates, CarryStates, t
  <2>6. Listed(u)'
    BY <2>1, <2>2, <2>3 DEF Listed
  <2>. QED
    BY <2>5, <2>6
<1>15. CASE MarkOpenPosition(th) \/ RestoreOpenPosition(th)
  <2>1. /\ openPositions' = [openPositions EXCEPT ![u] = pos[th]] /\ redis' = redis
        /\ pc[th] \in {"buy_mark", "restore_mem"} /\ pc'[th] \in {"buy_persist", "idle"}
    BY <1>0, <1>15 DEF MarkOpenPosition, RestoreOpenPosition, t
  <2>2. /\ pos[th] \in Position /\ pos[th].token = u /\ ~Sold(pos[th])
        /\ redis[u] \in {None, pos[th]}
    BY <1>1, <2>1 DEF AliveInHand, BuyStates, SellStates, CarryStates, t
  <2>3. \A p \in Position : p = pos[th] => ~Sold(p)'
    BY <1>8, <1>9, <2>1, <2>2
  <2>4. openPositions'[u] = pos[th]
    BY <1>0, <2>1
  <2>5. AliveInHand(th)'
    BY <2>1 DEF AliveInHand, BuyStates, SellStates, CarryStates
  <2>6. Listed(u)'
    BY <2>1, <2>2, <2>3, <2>4 DEF Listed
  <2>. QED
    BY <2>5, <2>6
<1>16. CASE GetStored(th)
  <2>1. /\ UNCHANGED <<openPositions, redis, job>> /\ pc[th] = "sell_get"
        /\ pc'[th] = "sell_take" /\ redis[u] # None /\ pos'[th] = redis[u]
    BY <1>0, <1>16 DEF GetStored, t
  <2>2. openPositions[u] # None
    BY <1>1, <2>1 DEF AliveInHand, t
  <2>3. /\ redis[u] = openPositions[u] /\ redis[u] \in Position /\ redis[u].token = u
        /\ ~Sold(redis[u])
    BY <1>0, <1>1, <2>1, <2>2 DEF Listed
  <2>4. \A p \in Position : p = redis[u] => ~Sold(p)'
    BY <1>3, <1>9, <2>1, <2>3
  <2>5. AliveInHand(th)'
    BY <2>1, <2>2, <2>3, <2>4 DEF AliveInHand, BuyStates, SellStates, CarryStates, t
  <2>. QED
    BY <1>7, <1>9, <2>1, <2>5
<1>17. CASE TakePosition(th)
  <2>1. /\ openPositions' = [openPositions EXCEPT ![u] = None] /\ UNCHANGED <<redis, job, pos>>
        /\ pc[th] = "sell_take" /\ pc'[th] = "sell_submit"
    BY <1>0, <1>17 DEF TakePosition, t
  <2>2. pos[th] \in Position /\ pos[th].token = u /\ ~Sold(pos[th])
    BY <1>1, <2>1 DEF AliveInHand, BuyStates, SellStates, CarryStates, t
  <2>3. \A p \in Position : p = pos[th] => ~Sold(p)'
    BY <1>8, <1>9, <2>1, <2>2
  <2>4. openPositions'[u] = None
    BY <1>0, <2>1
  <2>5. AliveInHand(th)'
    BY <2>1, <2>2, <2>3, <2>4 DEF AliveInHand, BuyStates, SellStates, CarryStates, t
  <2>6. Listed(u)'
    BY <1>1, <2>1, <2>4 DEF Listed
  <2>. QED
    BY <2>5, <2>6
<1>18. CASE SubmitSell(th) \/ InsertCloseSignalFails(th) \/ SellFails(th)
  <2>1. /\ UNCHANGED <<openPositions, redis, pos>> /\ job'[th].token = u /\ ~SellFills(th)
        /\ pc[th] \in {"sell_submit", "sell_exec"} /\ pc'[th] \in {"sell_exec", "restore_save"}
    BY <1>0, <1>18, NoneIsApart
       DEF SubmitSell, InsertCloseSignalFails, SellFails, SellFills, t
  <2>2. pos[th] \in Position /\ pos[th].token = u /\ ~Sold(pos[th]) /\ openPositions[u] = None
    BY <1>1, <2>1 DEF AliveInHand, BuyStates, SellStates, CarryStates, t
  <2>3. \A p \in Position : p = pos[th] => ~Sold(p)'
    BY <1>8, <2>1, <2>2
  <2>4. AliveInHand(th)'
    BY <2>1, <2>2, <2>3 DEF AliveInHand, BuyStates, SellStates, CarryStates
  <2>. QED
    BY <1>7, <2>1, <2>4
<1>19. CASE SellFills(th) \/ DeleteStored(th) \/ DeleteStoredFails(th) \/ FinishSell(th)
  <2>1. /\ UNCHANGED <<openPositions, pos, job>> /\ redis'[u] \in {redis[u], None}
        /\ pc[th] \in {"sell_exec", "sell_clear", "sell_finish"}
        /\ pc'[th] \in {"sell_clear", "sell_finish", "sell_persist"}
    BY <1>0, <1>19 DEF SellFills, DeleteStored, DeleteStoredFails, FinishSell
  <2>2. openPositions[u] = None /\ pos[th].token = u
    BY <1>1, <2>1 DEF AliveInHand, BuyStates, SellStates, CarryStates, t
  <2>3. AliveInHand(th)'
    BY <2>1, <2>2 DEF AliveInHand, BuyStates, SellStates, CarryStates, t
  <2>4. Listed(u)'
    BY <1>1, <2>1, <2>2 DEF Listed
  <2>. QED
    BY <2>3, <2>4
<1>. QED
  BY <1>10, <1>11, <1>12, <1>13, <1>14, <1>15, <1>16, <1>17, <1>18, <1>19 DEF ThreadStep

\* The persister moves a sale from its queue into the rows, and takes entries
\* out of Redis.
LEMMA PersisterGone ==
  ASSUME Typed, GoneInv, RunTask \/ FailTask \/ \E task \in delayed : RequeueTask(task)
  PROVE  GoneInv'
<1> USE DEF memory, market, thread, sync, rows
<1>0. /\ queue \in Seq(Task) /\ Pending \subseteq Task
      /\ redis \in [Tokens -> Position \cup {None}]
      /\ openPositions \in [Tokens -> Position \cup {None}]
      /\ pos \in [Threads -> Position \cup {None}]
  BY PendingTyped DEF Typed, TypeOK
<1>1. UNCHANGED <<openPositions, pc, pos, job, syncPc>>
  BY DEF RunTask, FailTask, RequeueTask
<1>2. (Pending)' \subseteq Pending
  <2>1. CASE RunTask \/ FailTask
    BY <1>0, <2>1, TailTakes DEF RunTask, FailTask
  <2>2. ASSUME NEW task \in delayed, RequeueTask(task) PROVE (Pending)' \subseteq Pending
    <3>1. (Pending)' \subseteq Pending \cup {task}
      BY <1>0, <2>2, EnqueueAdds DEF RequeueTask, Typed, TypeOK
    <3>. QED
      BY <3>1 DEF Pending
  <2>. QED
    BY <2>1, <2>2
<1>3. /\ \A p \in dbClosed' : p \in dbClosed \/ FilledSell(p) \in Pending
      /\ \A t \in Tokens : redis'[t] \in {redis[t], None}
  <2>1. CASE RunTask
    <3> PICK task \in Pending : task = Head(queue)
      BY <1>0, <2>1, TailTakes DEF RunTask
    <3>1. task \in Task /\ Apply(task)
      BY <1>0, <2>1 DEF RunTask
    <3>2. task.kind = "filled_sell" => task = FilledSell(task.pos)
      BY <3>1 DEF Task, FilledSell
    <3>3. task.kind \in {"create_order", "filled_buy", "filled_sell", "delete_runtime"}
      BY <3>1 DEF Task
    <3>. QED
      BY <1>0, <3>1, <3>2, <3>3 DEF Apply
  <2>2. CASE FailTask \/ \E task \in delayed : RequeueTask(task)
    BY <2>2 DEF FailTask, RequeueTask
  <2>. QED
    BY <2>1, <2>2
<1>4. \A p : Sold(p)' => Sold(p)
  BY <1>1, <1>2, <1>3 DEF Sold, FilledSell
<1>5. ASSUME NEW t \in Tokens PROVE Listed(t)'
  <2>1. Listed(t) /\ openPositions'[t] = openPositions[t] /\ redis'[t] \in {redis[t], None}
    BY <1>1, <1>3 DEF GoneInv
  <2>2. \A p : p = openPositions[t] /\ ~Sold(p) => ~Sold(p)'
    BY <1>4
  <2>. QED
    BY <2>1, <2>2 DEF Listed
<1>6. ASSUME NEW th \in Threads PROVE AliveInHand(th)'
  <2>1. AliveInHand(th) /\ pc'[th] = pc[th] /\ pos'[th] = pos[th] /\ job'[th] = job[th]
    BY <1>1 DEF GoneInv
  <2>2. \A p : p = pos[th] /\ ~Sold(p) => ~Sold(p)'
    BY <1>4
  <2>3. pc[th] # "idle" => job[th].token \in Tokens
    BY DEF Typed, ThreadsCarry, CarriesJob, Job
  <2>. QED
    BY <1>1, <1>3, <2>1, <2>2, <2>3 DEF AliveInHand, BuyStates, SellStates
<1>. QED
  BY <1>1, <1>5, <1>6 DEF GoneInv

\* A request finds its thread idle, and moves no position.
LEMMA RequestGone ==
  ASSUME Typed, InFlightExclusive, GoneInv, NEW th \in Threads,
         UNCHANGED <<openPositions, redis, persister, rows, sync>>,
         \A x \in Threads \ {th} : pc'[x] = pc[x] /\ pos'[x] = pos[x] /\ job'[x] = job[x],
         pc[th] = "idle", pc'[th] \in {"begin", "close_begin"}
  PROVE  GoneInv'
<1> USE DEF rows, sync, persister
<1>1. (Pending)' = Pending
  BY DEF Pending
<1>2. \A p : Sold(p)' => Sold(p)
  BY <1>1 DEF Sold, FilledSell
<1>3. AliveInHand(th)' /\ \A u \in Tokens : ~Owns(th, u)
  BY DEF AliveInHand, Owns, BuyStates, SellStates, CarryStates
<1>. QED
  BY <1>2, <1>3, OthersGone

\* What is loaded at start is open in the database, or not closed there.
LEMMA RestartGone ==
  ASSUME Typed, GoneInv, RowsInv, Restart
  PROVE  GoneInv'
<1>1. /\ \A t \in Tokens : redis'[t] = LoadedPosition(t) /\ openPositions'[t] = redis'[t]
      /\ \A th \in Threads : pc'[th] = "idle"
      /\ syncPc' = "idle" /\ queue' = <<>> /\ delayed' = {} /\ dbClosed' = dbClosed
  BY DEF Restart, rows
<1>2. \A p : Sold(p)' => p \in dbClosed
  BY <1>1 DEF Sold, Pending
<1>3. ASSUME NEW t \in Tokens PROVE Listed(t)'
  <2>1. redis[t] # None => redis[t].token = t
    BY DEF GoneInv, Listed
  <2>2. LoadedPosition(t) # None =>
          LoadedPosition(t).token = t /\ LoadedPosition(t) \notin dbClosed
    BY <2>1 DEF LoadedPosition, RowsInv, RowsNeverAhead
  <2>3. \A p : p = LoadedPosition(t) /\ p \notin dbClosed => ~Sold(p)'
    BY <1>2
  <2>. QED
    BY <1>1, <2>2, <2>3 DEF Listed
<1>4. \A th \in Threads : AliveInHand(th)'
  BY <1>1 DEF AliveInHand, BuyStates, SellStates, CarryStates
<1>. QED
  BY <1>1, <1>3, <1>4 DEF GoneInv

LEMMA GoneNext ==
  WritesReach /\ Typed /\ InFlightExclusive /\ RowsInv /\ GoneInv /\ [Next]_vars => GoneInv'
<1> SUFFICES ASSUME WritesReach, Typed, InFlightExclusive, RowsInv, GoneInv, [Next]_vars
             PROVE  GoneInv'
  OBVIOUS
<1>0. pc \in [Threads -> PcStates] /\ pos \in [Threads -> Position \cup {None}]
      /\ job \in [Threads -> Job \cup {None}]
      /\ Handlers \subseteq Threads /\ Consumer \in Threads
  BY DEF Typed, TypeOK, Threads
<1>1. ASSUME NEW id \in SignalIds, NEW side \in Sides, NEW t \in Tokens, ReceiveSignal(id, side, t)
      PROVE  GoneInv'
  BY <1>0, <1>1, RequestGone DEF ReceiveSignal, Go
<1>2. ASSUME NEW th \in Handlers, NEW j \in dbOrders, RetryOrder(th, j) PROVE GoneInv'
  BY <1>0, <1>2, RequestGone DEF RetryOrder, Go, memory
<1>3. ASSUME NEW th \in Handlers, NEW p \in dbOpen, ClosePosition(th, p) PROVE GoneInv'
  BY <1>0, <1>3, RequestGone DEF ClosePosition, Go, memory
<1>4. CASE (\E mode \in Modes : UpdateTradeMode(mode)) \/ UNCHANGED vars
  <2>1. UNCHANGED <<openPositions, redis, queue, delayed, dbClosed, pc, pos, job, syncPc>>
    BY <1>4 DEF UpdateTradeMode, vars, memory, persister, rows, market, thread, sync
  <2>. QED
    BY <2>1 DEF GoneInv, Listed, AliveInHand, Sold, FilledSell, Pending
<1>5. ~SyncStep
  BY DEF SyncStep, SyncSnapshot, SyncPrice, SyncSave, SyncSaveFails, SyncWriteBack, GoneInv,
     WritesReach
<1>. QED
  BY <1>1, <1>2, <1>3, <1>4, <1>5, ThreadGone, PersisterGone, RestartGone DEF Next

\* A position the database shows closed is in memory no more, and no restart
\* brings it back: whatever rows, deletions and reads fail, and whenever the
\* process dies, as long as Redis accepts writes and price sync is off.
THEOREM ClosedStaysGone == WritesReach => (Spec => []ClosedIsGone)
<1> SUFFICES ASSUME WritesReach PROVE Spec => []ClosedIsGone
  OBVIOUS
<1>1. Init => GoneInv
  BY DEF Init, GoneInv, Listed, AliveInHand, BuyStates, SellStates, CarryStates
<1>2. Typed /\ GoneInv => ClosedIsGone
  BY NoneIsApart DEF Typed, TypeOK, ClosedIsGone, GoneInv, Listed, Sold
<1>3. Spec => []Typed
  BY TypedInit, TypedNext, PTL DEF Spec
<1>4. Spec => []RowsInv
  BY <1>3, RowsInit, RowsNext, PTL DEF Spec
<1>. QED
  BY <1>1, <1>2, <1>3, <1>4, GoneNext, TokensAreExclusive, PTL DEF Spec

-----------------------------------------------------------------------------
(* The rows catch up with the market, unless the process dies.             *)

\* The position of a purchase has its row, or will get it.
Recorded(p) ==
  \/ p \in dbOpen
  \/ FilledBuy(p) \in Pending
  \/ \E th \in Threads : pc[th] \in {"buy_save", "buy_mark", "buy_persist"} /\ pos[th] = p

\* What is owned is recorded, and what is recorded is owned until it is sold.
RecordInv ==
  /\ \A p \in held : Recorded(p)
  /\ \A p \in Position : Recorded(p) => p \in held \/ Sold(p)

\* No task gets lost between the hands of a thread and the queue.
LEMMA ThreadHandsOver ==
  ASSUME Typed, NEW th \in Threads, ThreadStep(th)
  PROVE  /\ Pending \subseteq (Pending)'
         /\ pc[th] = "buy_persist" => FilledBuy(pos[th]) \in (Pending)'
         /\ pc[th] = "sell_persist" => FilledSell(pos[th]) \in (Pending)'
<1> USE DEF memory, rows, market, sync, persister, Go, Return
<1>0. queue \in Seq(Task) /\ CarriesJob(th)
  BY DEF Typed, TypeOK, ThreadsCarry
<1>1. ASSUME NEW task \in Task, Enqueue(task), delayed' = delayed
      PROVE  Pending \subseteq (Pending)' /\ task \in (Pending)'
  BY <1>0, <1>1, EnqueueKeeps DEF Pending
<1>2. CASE AcceptBuy(th)
  <2>1. CreateOrder(job[th]) \in Task /\ pc[th] = "check"
    BY <1>0, <1>2 DEF AcceptBuy, CreateOrder, Task, CarriesJob
  <2>. QED
    BY <1>1, <1>2, <2>1 DEF AcceptBuy
<1>3. CASE SubmitSell(th)
  <2> PICK j \in Job : Enqueue(CreateOrder(j))
    <3>1. [side |-> "sell", token |-> job[th].token, mode |-> pos[th].mode] \in Job
      BY <1>0, <1>3 DEF SubmitSell, CarriesJob, CarryStates, Job, Position, Sides
    <3>. QED
      BY <1>3, <3>1 DEF SubmitSell
  <2>1. CreateOrder(j) \in Task
    BY DEF CreateOrder, Task
  <2>. QED
    BY <1>1, <1>3, <2>1 DEF SubmitSell
<1>4. CASE DeleteStoredFails(th)
  <2>1. DeleteRuntime(job[th].token) \in Task
    BY <1>0, <1>4 DEF DeleteStoredFails, DeleteRuntime, Task, CarriesJob, Job
  <2>. QED
    BY <1>1, <1>4, <2>1 DEF DeleteStoredFails
<1>5. CASE EnqueueFilledBuy(th)
  <2>1. FilledBuy(pos[th]) \in Task
    BY <1>0, <1>5 DEF EnqueueFilledBuy, FilledBuy, Task, CarriesJob, CarryStates
  <2>. QED
    BY <1>1, <1>5, <2>1 DEF EnqueueFilledBuy
<1>6. CASE EnqueueFilledSell(th)
  <2>1. FilledSell(pos[th]) \in Task
    BY <1>0, <1>6 DEF EnqueueFilledSell, FilledSell, Task, CarriesJob, CarryStates
  <2>. QED
    BY <1>1, <1>6, <2>1 DEF EnqueueFilledSell
<1>7. \/ AcceptBuy(th) \/ SubmitSell(th) \/ DeleteStoredFails(th)
      \/ EnqueueFilledBuy(th) \/ EnqueueFilledSell(th)
      \/ UNCHANGED <<queue, delayed>> /\ pc[th] \notin {"buy_persist", "sell_persist"}
  BY DEF BuyStates, SellStates, ThreadStep, TryBeginBuy, TryBeginSell, BeginManualSell,
     RejectBuy, BuyFills, BuyFails, SaveBought, SavePosition, MarkOpenPosition, GetStored,
     GetStoredFails, TakePosition, InsertCloseSignalFails, SellFills, SellFails, SaveRestored,
     RestoreOpenPosition, DeleteStored, FinishSell
<1>8. CASE UNCHANGED <<queue, delayed>> /\ pc[th] \notin {"buy_persist", "sell_persist"}
  BY <1>8 DEF Pending
<1>. QED
  BY <1>2, <1>3, <1>4, <1>5, <1>6, <1>7, <1>8

\* What was bought or sold stays in hand until its row is queued.
LEMMA ThreadRecords ==
  ASSUME Typed, RecordInv, NEW th \in Threads, ThreadStep(th)
  PROVE  RecordInv'
<1> USE DEF memory, rows, market, sync, persister, Go, Return
<1>0. /\ pc \in [Threads -> PcStates] /\ pos \in [Threads -> Position \cup {None}]
      /\ held \subseteq Position
  BY DEF Typed, TypeOK
<1>1. /\ UNCHANGED <<dbOpen, dbClosed>>
      /\ \A x \in Threads \ {th} : pc'[x] = pc[x] /\ pos'[x] = pos[x]
  BY <1>0
     DEF ThreadStep, TryBeginBuy, TryBeginSell, BeginManualSell, RejectBuy, AcceptBuy, BuyFills,
     BuyFails, SaveBought, SavePosition, MarkOpenPosition, EnqueueFilledBuy, GetStored,
     GetStoredFails, TakePosition, SubmitSell, InsertCloseSignalFails, SellFills, SellFails,
     SaveRestored, RestoreOpenPosition, DeleteStored, DeleteStoredFails, FinishSell,
     EnqueueFilledSell
<1>2. /\ pc[th] \in {"buy_save", "buy_mark"} =>
           pc'[th] \in {"buy_mark", "buy_persist"} /\ pos'[th] = pos[th]
      /\ pc[th] \in {"sell_clear", "sell_finish"} =>
           pc'[th] \in {"sell_finish", "sell_persist"} /\ pos'[th] = pos[th]
  BY <1>0
     DEF ThreadStep, TryBeginBuy, TryBeginSell, BeginManualSell, RejectBuy, AcceptBuy, BuyFills,
     BuyFails, SaveBought, SavePosition, MarkOpenPosition, EnqueueFilledBuy, GetStored,
     GetStoredFails, TakePosition, SubmitSell, InsertCloseSignalFails, SellFills, SellFails,
     SaveRestored, RestoreOpenPosition, DeleteStored, DeleteStoredFails, FinishSell,
     EnqueueFilledSell
<1>3. pc'[th] \in {"buy_save", "buy_mark", "buy_persist"} =>
        \/ pc[th] \in {"buy_save", "buy_mark", "buy_persist"} /\ pos'[th] = pos[th]
        \/ pos'[th] \in held'
  BY <1>0
     DEF ThreadStep, TryBeginBuy, TryBeginSell, BeginManualSell, RejectBuy, AcceptBuy, BuyFills,
     BuyFails, SaveBought, SavePosition, MarkOpenPosition, EnqueueFilledBuy, GetStored,
     GetStoredFails, TakePosition, SubmitSell, InsertCloseSignalFails, SellFills, SellFails,
     SaveRestored, RestoreOpenPosition, DeleteStored, DeleteStoredFails, FinishSell,
     EnqueueFilledSell
<1>4. /\ \A p \in held' : p \in held \/ (pos'[th] = p /\ pc'[th] = "buy_save")
      /\ \A p \in held \ held' : pos'[th] = p /\ pc'[th] = "sell_clear"
  BY <1>0
     DEF ThreadStep, TryBeginBuy, TryBeginSell, BeginManualSell, RejectBuy, AcceptBuy, BuyFills,
     BuyFails, SaveBought, SavePosition, MarkOpenPosition, EnqueueFilledBuy, GetStored,
     GetStoredFails, TakePosition, SubmitSell, InsertCloseSignalFails, SellFills, SellFails,
     SaveRestored, RestoreOpenPosition, DeleteStored, DeleteStoredFails, FinishSell,
     EnqueueFilledSell
<1>5. ASSUME NEW p, Recorded(p) PROVE Recorded(p)'
  <2>1. CASE p \in dbOpen
    BY <1>1, <2>1 DEF Recorded
  <2>2. CASE FilledBuy(p) \in Pending
    BY <2>2, ThreadHandsOver DEF Recorded, FilledBuy
  <2>3. ASSUME NEW x \in Threads, pc[x] \in {"buy_save", "buy_mark", "buy_persist"}, pos[x] = p
        PROVE  Recorded(p)'
    BY <1>1, <1>2, <2>3, ThreadHandsOver DEF Recorded, FilledBuy
  <2>. QED
    BY <1>5, <2>1, <2>2, <2>3 DEF Recorded
<1>6. ASSUME NEW p, Sold(p) PROVE Sold(p)'
  <2>1. CASE p \in dbClosed
    BY <1>1, <2>1 DEF Sold
  <2>2. CASE FilledSell(p) \in Pending
    BY <2>2, ThreadHandsOver DEF Sold, FilledSell
  <2>3. ASSUME NEW x \in Threads, pc[x] \in {"sell_clear", "sell_finish", "sell_persist"},
               pos[x] = p
        PROVE  Sold(p)'
    BY <1>1, <1>2, <2>3, ThreadHandsOver DEF Sold, FilledSell
  <2>. QED
    BY <1>6, <2>1, <2>2, <2>3 DEF Sold
<1>7. ASSUME NEW p \in held' PROVE Recorded(p)'
  <2>1. CASE p \in held
    BY <1>5, <2>1 DEF RecordInv
  <2>2. CASE pos'[th] = p /\ pc'[th] = "buy_save"
    BY <2>2 DEF Recorded
  <2>. QED
    BY <1>4, <2>1, <2>2
<1>8. ASSUME NEW p \in Position, Recorded(p)' PROVE p \in held' \/ Sold(p)'
  <2>1. Recorded(p) \/ p \in held'
    <3>1. FilledBuy(p) \in (Pending)' => FilledBuy(p) \in Pending \/
            (p = pos[th] /\ pc[th] = "buy_persist")
      BY ThreadQueues DEF FilledBuy
    <3>. QED
      BY <1>1, <1>3, <1>8, <3>1 DEF Recorded
  <2>2. CASE Recorded(p)
    <3>1. CASE p \in held /\ p \notin held'
      BY <1>4, <3>1 DEF Sold
    <3>. QED
      BY <1>6, <2>2, <3>1 DEF RecordInv
  <2>. QED
    BY <2>1, <2>2
<1>. QED
  BY <1>7, <1>8 DEF RecordInv

\* The persister keeps what it cannot write yet.
LEMMA PersisterRecords ==
  ASSUME Typed, RowsInv, RecordInv, RunTask \/ FailTask \/ \E task \in delayed : RequeueTask(task)
  PROVE  RecordInv'
<1> USE DEF memory, market, thread, sync, rows
<1>0. queue \in Seq(Task) /\ Pending \subseteq Task /\ delayed \subseteq Task
      /\ held \subseteq Position
  BY PendingTyped DEF Typed, TypeOK
<1>1. UNCHANGED <<held, pc, pos>>
  BY DEF RunTask, FailTask, RequeueTask
<1>2. CASE FailTask \/ \E task \in delayed : RequeueTask(task)
  <2>1. UNCHANGED <<dbOpen, dbClosed>>
    BY <1>2 DEF FailTask, RequeueTask
  <2>2. (Pending)' = Pending
    <3>1. CASE FailTask
      BY <1>0, <3>1, TailTakes, TailLeaves DEF FailTask, Pending
    <3>2. ASSUME NEW task \in delayed, RequeueTask(task) PROVE (Pending)' = Pending
      <4>1. (Pending)' \subseteq Pending \cup {task}
        BY <1>0, <3>2, EnqueueAdds DEF RequeueTask
      <4>2. Pending \subseteq (Pending)'
        BY <1>0, <3>2, EnqueueKeeps DEF RequeueTask, Pending
      <4>. QED
        BY <4>1, <4>2 DEF Pending
    <3>. QED
      BY <1>2, <3>1, <3>2
  <2>. QED
    BY <1>1, <2>1, <2>2 DEF RecordInv, Recorded, Sold, FilledBuy, FilledSell
<1>3. CASE RunTask
  <2> PICK task \in Pending : task = Head(queue)
    BY <1>0, <1>3, TailTakes DEF RunTask
  <2>1. task \in Task /\ Applicable(task) /\ Apply(task)
    BY <1>0, <1>3 DEF RunTask
  <2>2. (Pending)' \subseteq Pending /\ Pending \subseteq (Pending)' \cup {task}
    BY <1>0, <1>3, TailTakes, TailLeaves DEF RunTask, Pending
  <2>3. /\ task.kind \in {"create_order", "filled_buy", "filled_sell", "delete_runtime"}
        /\ task.kind \in {"filled_buy", "filled_sell"} => task.pos \in Position
    BY <2>1 DEF Task
  <2>4. /\ \A p : FilledBuy(p) = task => task.kind = "filled_buy" /\ task.pos = p
        /\ \A p : FilledSell(p) = task => task.kind = "filled_sell" /\ task.pos = p
        /\ task.kind = "filled_buy" => task = FilledBuy(task.pos)
    BY <2>1 DEF FilledBuy, FilledSell, Task
  <2>5. /\ dbOpen' = IF task.kind = "filled_buy" THEN dbOpen \cup {task.pos}
                     ELSE IF task.kind = "filled_sell" THEN dbOpen \ {task.pos} ELSE dbOpen
        /\ dbClosed' = IF task.kind = "filled_sell" THEN dbClosed \cup {task.pos} ELSE dbClosed
    BY <2>1, <2>3 DEF Apply
  <2>6. task.kind = "filled_sell" => task.pos \notin held
    BY DEF RowsInv, SoldIsGone
  <2>7. ASSUME NEW p \in held PROVE Recorded(p)'
    BY <1>1, <2>2, <2>4, <2>5, <2>6, <2>7 DEF RecordInv, Recorded, FilledBuy
  <2>8. ASSUME NEW p \in Position, Recorded(p)' PROVE p \in held \/ Sold(p)'
    <3>1. Recorded(p)
      BY <1>1, <2>2, <2>4, <2>5, <2>8 DEF Recorded, FilledBuy
    <3>2. Sold(p) => Sold(p)'
      BY <1>1, <2>2, <2>4, <2>5 DEF Sold, FilledSell
    <3>. QED
      BY <3>1, <3>2 DEF RecordInv
  <2>. QED
    BY <1>1, <2>7, <2>8 DEF RecordInv
<1>. QED
  BY <1>2, <1>3

\* Requests and price sync record nothing.
LEMMA OthersRecord ==
  ASSUME RecordInv, UNCHANGED <<held, dbOpen, dbClosed, queue, delayed>>,
         \A x \in Threads : \/ pc'[x] = pc[x] /\ pos'[x] = pos[x]
                            \/ pc[x] = "idle" /\ pc'[x] \in {"begin", "close_begin"}
  PROVE  RecordInv'
<1>1. (Pending)' = Pending
  BY DEF Pending
<1>2. \A p : (Recorded(p)' <=> Recorded(p)) /\ (Sold(p)' <=> Sold(p))
  BY <1>1 DEF Recorded, Sold, FilledBuy, FilledSell
<1>. QED
  BY <1>2 DEF RecordInv

LEMMA RecordNext ==
  "crash" \notin Faults /\ Typed /\ RowsInv /\ RecordInv /\ [Next]_vars => RecordInv'
<1> SUFFICES ASSUME "crash" \notin Faults, Typed, RowsInv, RecordInv, [Next]_vars
             PROVE  RecordInv'
  OBVIOUS
<1> USE DEF memory, persister, rows, market, thread, sync
<1>0. pc \in [Threads -> PcStates] /\ pos \in [Threads -> Position \cup {None}]
      /\ Handlers \subseteq Threads /\ Consumer \in Threads
  BY DEF Typed, TypeOK, Threads
<1>1. ASSUME NEW id \in SignalIds, NEW side \in Sides, NEW t \in Tokens, ReceiveSignal(id, side, t)
      PROVE  RecordInv'
  BY <1>0, <1>1, OthersRecord DEF ReceiveSignal, Go
<1>2. ASSUME NEW th \in Handlers, NEW j \in dbOrders, RetryOrder(th, j) PROVE RecordInv'
  BY <1>0, <1>2, OthersRecord DEF RetryOrder, Go
<1>3. ASSUME NEW th \in Handlers, NEW p \in dbOpen, ClosePosition(th, p) PROVE RecordInv'
  BY <1>0, <1>3, OthersRecord DEF ClosePosition, Go
<1>4. CASE (\E mode \in Modes : UpdateTradeMode(mode)) \/ SyncStep \/ UNCHANGED vars
  BY <1>4, OthersRecord
     DEF UpdateTradeMode, vars, SyncStep, SyncSnapshot, SyncPrice, SyncSave, SyncSaveFails,
     SyncWriteBack
<1>5. ~Restart
  BY DEF Restart
<1>. QED
  BY <1>1, <1>2, <1>3, <1>4, <1>5, ThreadRecords, PersisterRecords DEF Next

\* When the persister has nothing left and no thread is at work, the open rows
\* are the positions the account owns, whatever failed in between and whether
\* or not price sync runs, unless the process died and lost its queue.
THEOREM RowsCatchUp == "crash" \notin Faults => (Spec => []RowsFollowMarket)
<1> SUFFICES ASSUME "crash" \notin Faults PROVE Spec => []RowsFollowMarket
  OBVIOUS
<1>1. Init => RecordInv
  BY DEF Init, RecordInv, Recorded, Pending
<1>2. Typed /\ RowsInv /\ RecordInv => RowsFollowMarket
  <2> SUFFICES ASSUME Typed, RowsInv, RecordInv, Quiescent PROVE dbOpen = held
    BY DEF RowsFollowMarket
  <2>1. Pending = {} /\ held \subseteq Position /\ dbOpen \subseteq Position
    BY DEF Quiescent, Pending, Typed, TypeOK
  <2>2. \A p : (Recorded(p) => p \in dbOpen) /\ (Sold(p) => p \in dbClosed)
    BY <2>1 DEF Recorded, Sold, Quiescent
  <2>3. \A p \in dbOpen : Recorded(p) /\ p \notin dbClosed
    BY DEF Recorded, RowsInv, RowsNeverAhead
  <2>. QED
    BY <2>1, <2>2, <2>3 DEF RecordInv
<1>3. Spec => []Typed
  BY TypedInit, TypedNext, PTL DEF Spec
<1>4. Spec => []RowsInv
  BY <1>3, RowsInit, RowsNext, PTL DEF Spec
<1>. QED
  BY <1>1, <1>2, <1>3, <1>4, RecordNext, PTL DEF Spec

-----------------------------------------------------------------------------
(* What the account owns, against what memory and Redis say it owns, and   *)
(* that the runtime implements the ledger of PositionLedger: every step of *)
(* its threads is one step of the ledger, or leaves it alone.  These       *)
(* theorems hold as long as the process does not restart, Redis accepts    *)
(* writes and deletions and price sync is off; the database, Redis reads   *)
(* and the executor may fail.                                              *)

Undisturbed ==
  /\ ~PriceSyncEnabled
  /\ Faults \subseteq {"db", "redis_get"}

HeldOf(t) == {p \in held : p.token = t}

\* A token nobody trades: memory, Redis and market agree.
Settled(t) ==
  /\ redis[t] = openPositions[t]
  /\ HeldOf(t) = {openPositions[t]} \ {None}

\* A token th trades: where its position stands at each place of the code.
InHand(th, t) ==
  /\ pc[th] \in {"check", "buy_exec"} =>
       redis[t] = None /\ openPositions[t] = None /\ HeldOf(t) = {}
  /\ pc[th] = "buy_save" =>
       redis[t] = None /\ openPositions[t] = None /\ HeldOf(t) = {pos[th]}
  /\ pc[th] = "sell_get" =>
       redis[t] # None /\ openPositions[t] = redis[t] /\ HeldOf(t) = {redis[t]}
  /\ pc[th] = "sell_take" =>
       redis[t] = pos[th] /\ openPositions[t] = pos[th] /\ HeldOf(t) = {pos[th]}
  /\ pc[th] \in {"buy_mark", "sell_submit", "sell_exec", "restore_save", "restore_mem"} =>
       redis[t] = pos[th] /\ openPositions[t] = None /\ HeldOf(t) = {pos[th]}
  /\ pc[th] = "sell_clear" =>
       redis[t] = pos[th] /\ openPositions[t] = None /\ HeldOf(t) = {}
  /\ pc[th] = "sell_finish" =>
       redis[t] = None /\ openPositions[t] = None /\ HeldOf(t) = {}

\* Nothing but trading threads writes to Redis or memory.
NoOtherWriter ==
  /\ syncPc = "idle"
  /\ \A n \in 1..Len(queue) : queue[n].kind # "delete_runtime"
  /\ \A task \in delayed : task.kind # "delete_runtime"

Accounted ==
  /\ \A t \in Tokens : inFlight[t] = "none" => Settled(t)
  /\ \A th \in Threads, t \in Tokens : Owns(th, t) => InHand(th, t)
  /\ NoOtherWriter

-----------------------------------------------------------------------------
(* Steps that leave tokens alone *)

\* Nothing about tokens and the threads that trade them changes: the step is
\* by the persister, or by a thread that owns no token before or after it.
LEMMA AsideAccounted ==
  ASSUME Accounted, NoOtherWriter',
         UNCHANGED <<openPositions, redis, inFlight, held>>,
         \A th \in Threads :
           \/ pc'[th] = pc[th] /\ job'[th] = job[th] /\ pos'[th] = pos[th]
           \/ pc'[th] \notin Owning
  PROVE  Accounted'
<1>1. \A t \in Tokens : (HeldOf(t))' = HeldOf(t)
  BY DEF HeldOf
<1>2. \A t \in Tokens : inFlight'[t] = "none" => Settled(t)'
  BY <1>1 DEF Accounted, Settled
<1>3. ASSUME NEW th \in Threads, NEW t \in Tokens, Owns(th, t)' PROVE InHand(th, t)'
  <2>1. pc'[th] = pc[th] /\ job'[th] = job[th] /\ pos'[th] = pos[th] /\ Owns(th, t)
    BY <1>3 DEF Owns, Owning
  <2>2. InHand(th, t)
    BY <2>1 DEF Accounted
  <2>. QED
    BY <1>1, <2>1, <2>2 DEF InHand
<1>. QED
  BY <1>2, <1>3 DEF Accounted

-----------------------------------------------------------------------------
(* Steps of the thread that trades a token *)

\* Tokens other than t, and threads other than th, see no change.
OnlyAt(th, t) ==
  /\ \A x \in Threads \ {th} : pc'[x] = pc[x] /\ job'[x] = job[x] /\ pos'[x] = pos[x]
  /\ \A u \in Tokens \ {t} :
       /\ openPositions'[u] = openPositions[u] /\ redis'[u] = redis[u]
       /\ inFlight'[u] = inFlight[u] /\ (HeldOf(u))' = HeldOf(u)

\* It is enough to look at the token and the thread of the step.
LEMMA LocalAccounted ==
  ASSUME Accounted, NoOtherWriter', InFlightExclusive',
         NEW th \in Threads, NEW t \in Tokens, OnlyAt(th, t),
         \A x \in Threads \ {th} : ~Owns(x, t),
         \A u \in Tokens \ {t} : ~Owns(th, u)',
         inFlight'[t] = "none" => Settled(t)',
         Owns(th, t)' => InHand(th, t)'
  PROVE  Accounted'
<1>1. \A u \in Tokens : inFlight'[u] = "none" => Settled(u)'
  BY DEF Accounted, Settled, OnlyAt
<1>2. ASSUME NEW x \in Threads, NEW u \in Tokens, Owns(x, u)' PROVE InHand(x, u)'
  <2>1. CASE x = th
    BY <1>2, <2>1
  <2>2. CASE x # th
    <3>1. Owns(x, u) /\ u # t
      BY <1>2, <2>2 DEF Owns, OnlyAt
    <3>2. InHand(x, u)
      BY <3>1 DEF Accounted
    <3>. QED
      BY <2>2, <3>1, <3>2 DEF InHand, OnlyAt
  <2>. QED
    BY <2>1, <2>2
<1>. QED
  BY <1>1, <1>2 DEF Accounted

\* The queue stays free of deletions when something else is appended.
LEMMA AppendKeepsWriters ==
  ASSUME NoOtherWriter, queue \in Seq(Task), NEW task \in Task,
         task.kind # "delete_runtime", queue' = Append(queue, task),
         UNCHANGED <<delayed, syncPc>>
  PROVE  NoOtherWriter'
<1>1. Len(queue') = Len(queue) + 1
  OBVIOUS
<1>2. ASSUME NEW n \in 1..Len(queue') PROVE queue'[n].kind # "delete_runtime"
  <2>1. CASE n \in 1..Len(queue)
    BY <2>1 DEF NoOtherWriter
  <2>2. CASE n = Len(queue) + 1
    BY <2>2
  <2>. QED
    BY <1>1, <2>1, <2>2
<1>. QED
  BY <1>2 DEF NoOtherWriter

\* A thread in an owning state owns the token of its signal, and no other
\* thread does; its move changes that token alone.
LEMMA OwnerFacts ==
  ASSUME Typed, InFlightExclusive, Accounted, NEW th \in Threads, pc[th] \in Owning
  PROVE  /\ job[th] \in Job /\ job[th].token \in Tokens
         /\ Owns(th, job[th].token) /\ InHand(th, job[th].token)
         /\ inFlight[job[th].token] # "none"
         /\ \A x \in Threads \ {th} : ~Owns(x, job[th].token)
<1>1. job[th] \in Job /\ job[th].token \in Tokens
  BY DEF Typed, ThreadsCarry, CarriesJob, Owning, BuyStates, SellStates, Job
<1>2. Owns(th, job[th].token)
  BY DEF Owns, Owning
<1>3. inFlight[job[th].token] = job[th].side /\ job[th].side \in Sides
  BY <1>1, <1>2 DEF InFlightExclusive, Job
<1>. QED
  BY <1>1, <1>2, <1>3 DEF InFlightExclusive, Accounted, Sides

LEMMA OwnerAccounted ==
  ASSUME Typed, InFlightExclusive, Accounted, InFlightExclusive', NoOtherWriter',
         NEW th \in Threads, pc[th] \in Owning,
         NEW t \in Tokens, t = job[th].token,
         OnlyAt(th, t),
         pc'[th] \in Owning => job'[th].token = t,
         inFlight'[t] = "none" => Settled(t)',
         pc'[th] \in Owning => InHand(th, t)'
  PROVE  Accounted'
<1>1. \A u \in Tokens \ {t} : ~Owns(th, u)'
  BY DEF Owns, Owning
<1>2. Owns(th, t)' => InHand(th, t)'
  BY DEF Owns, Owning
<1>3. \A x \in Threads \ {th} : ~Owns(x, t)
  BY OwnerFacts
<1>. QED
  BY <1>1, <1>2, <1>3, LocalAccounted

\* A position of the token is held, and its token is that token.
LEMMA HeldHasToken ==
  ASSUME NEW t, NEW p, HeldOf(t) = {p}
  PROVE  p \in held /\ p.token = t
BY DEF HeldOf

LEMMA BuyerAccounted ==
  ASSUME Undisturbed, Typed, InFlightExclusive, Accounted, InFlightExclusive',
         NEW th \in Threads, pc[th] \in BuyStates, ThreadStep(th)
  PROVE  Accounted'
<1> PICK t \in Tokens : t = job[th].token
  BY OwnerFacts DEF Owning
<1> USE DEF Go, Return, FinishInFlight, memory, rows, market, sync, persister
<1>0. /\ pc \in [Threads -> PcStates] /\ job \in [Threads -> Job \cup {None}]
      /\ pos \in [Threads -> Position \cup {None}]
      /\ openPositions \in [Tokens -> Position \cup {None}]
      /\ redis \in [Tokens -> Position \cup {None}]
      /\ inFlight \in [Tokens -> {"none"} \cup Sides]
      /\ queue \in Seq(Task) /\ held \subseteq Position
  BY DEF Typed, TypeOK
<1>1. /\ pc[th] \in Owning /\ job[th] \in Job /\ t \in Tokens /\ InHand(th, t)
      /\ inFlight[t] # "none" /\ NoOtherWriter
  BY OwnerFacts DEF Owning, Accounted
<1>2. UNCHANGED held => \A u \in Tokens : (HeldOf(u))' = HeldOf(u)
  BY DEF HeldOf
<1>3. CASE RejectBuy(th)
  <2>1. Settled(t)'
    BY <1>0, <1>1, <1>2, <1>3 DEF RejectBuy, Settled, InHand
  <2>2. OnlyAt(th, t)
    BY <1>0, <1>2, <1>3 DEF RejectBuy, OnlyAt
  <2>. QED
    BY <1>0, <1>1, <1>3, <2>1, <2>2, OwnerAccounted
       DEF RejectBuy, NoOtherWriter, Owning, BuyStates, SellStates
<1>4. CASE AcceptBuy(th)
  <2>1. CreateOrder(job[th]) \in Task /\ CreateOrder(job[th]).kind # "delete_runtime"
    BY <1>1 DEF CreateOrder, Task
  <2>2. NoOtherWriter'
    BY <1>0, <1>1, <1>4, <2>1, AppendKeepsWriters DEF AcceptBuy, Enqueue
  <2>. QED
    BY <1>0, <1>1, <1>2, <1>4, <2>2, OwnerAccounted
       DEF AcceptBuy, OnlyAt, InHand, Owning, BuyStates, SellStates
<1>5. CASE BuyFills(th)
  <2> DEFINE p == [id |-> nextId, token |-> t, mode |-> job[th].mode]
  <2>1. held' = held \cup {p} /\ p.token = t
    BY <1>5 DEF BuyFills
  <2>2. (HeldOf(t))' = HeldOf(t) \cup {p} /\ \A u \in Tokens \ {t} : (HeldOf(u))' = HeldOf(u)
    <3>. HIDE DEF p
    <3>. QED
      BY <2>1 DEF HeldOf
  <2>3. pos'[th] = p /\ pc'[th] = "buy_save"
    BY <1>0, <1>5 DEF BuyFills
  <2>4. InHand(th, t)'
    BY <1>1, <1>5, <2>2, <2>3 DEF BuyFills, InHand
  <2>5. OnlyAt(th, t)
    BY <1>0, <1>5, <2>2 DEF BuyFills, OnlyAt
  <2>. QED
    BY <1>0, <1>1, <1>5, <2>4, <2>5, OwnerAccounted DEF BuyFills, NoOtherWriter
<1>6. CASE BuyFails(th)
  <2>1. Settled(t)'
    BY <1>0, <1>1, <1>2, <1>6 DEF BuyFails, Settled, InHand
  <2>2. OnlyAt(th, t)
    BY <1>0, <1>2, <1>6 DEF BuyFails, OnlyAt
  <2>. QED
    BY <1>0, <1>1, <1>6, <2>1, <2>2, OwnerAccounted
       DEF BuyFails, NoOtherWriter, Owning, BuyStates, SellStates
<1>7. CASE SaveBought(th)
  <2>1. pc[th] = "buy_save" /\ HeldOf(t) = {pos[th]}
    BY <1>1, <1>7 DEF SaveBought, SavePosition, InHand
  <2>2. redis' = [redis EXCEPT ![t] = pos[th]]
    BY <1>7, <2>1, HeldHasToken DEF SaveBought, SavePosition, Undisturbed
  <2>. QED
    BY <1>0, <1>1, <1>2, <1>7, <2>1, <2>2, OwnerAccounted
       DEF SaveBought, SavePosition, OnlyAt, InHand, NoOtherWriter, Owning, BuyStates, SellStates
<1>8. CASE MarkOpenPosition(th)
  <2>1. pos[th] # None
    BY <1>0, <1>8, NoneIsApart DEF MarkOpenPosition, Typed, ThreadsCarry, CarriesJob, CarryStates
  <2>. QED
    BY <1>0, <1>1, <1>2, <1>8, <2>1, OwnerAccounted
       DEF MarkOpenPosition, OnlyAt, Settled, InHand, NoOtherWriter, Owning, BuyStates, SellStates
<1>. QED
  BY <1>3, <1>4, <1>5, <1>6, <1>7, <1>8
     DEF ThreadStep, BuyStates, TryBeginBuy, EnqueueFilledBuy, TryBeginSell, BeginManualSell,
         GetStored, GetStoredFails, TakePosition, SubmitSell, InsertCloseSignalFails, SellFills,
         SellFails, SaveRestored, SavePosition, RestoreOpenPosition, DeleteStored,
         DeleteStoredFails, FinishSell, EnqueueFilledSell

LEMMA SellerAccounted ==
  ASSUME Undisturbed, Typed, InFlightExclusive, Accounted, InFlightExclusive',
         NEW th \in Threads, pc[th] \in SellStates, ThreadStep(th)
  PROVE  Accounted'
<1> PICK t \in Tokens : t = job[th].token
  BY OwnerFacts DEF Owning
<1> USE DEF Go, Return, FinishInFlight, memory, rows, market, sync, persister
<1>0. /\ pc \in [Threads -> PcStates] /\ job \in [Threads -> Job \cup {None}]
      /\ pos \in [Threads -> Position \cup {None}]
      /\ openPositions \in [Tokens -> Position \cup {None}]
      /\ redis \in [Tokens -> Position \cup {None}]
      /\ inFlight \in [Tokens -> {"none"} \cup Sides]
      /\ queue \in Seq(Task) /\ held \subseteq Position
  BY DEF Typed, TypeOK
<1>1. /\ pc[th] \in Owning /\ job[th] \in Job /\ t \in Tokens /\ InHand(th, t)
      /\ inFlight[t] # "none" /\ NoOtherWriter
  BY OwnerFacts DEF Owning, Accounted
<1>2. UNCHANGED held => \A u \in Tokens : (HeldOf(u))' = HeldOf(u)
  BY DEF HeldOf
<1>3. pc[th] \in CarryStates => pos[th] \in Position /\ pos[th] # None
  BY NoneIsApart DEF Typed, ThreadsCarry, CarriesJob
<1>4. CASE GetStored(th)
  BY <1>0, <1>1, <1>2, <1>4, OwnerAccounted
     DEF GetStored, OnlyAt, InHand, NoOtherWriter, Owning, BuyStates, SellStates
<1>5. CASE GetStoredFails(th)
  <2>1. Settled(t)'
    BY <1>0, <1>1, <1>2, <1>5 DEF GetStoredFails, Settled, InHand
  <2>2. OnlyAt(th, t)
    BY <1>0, <1>2, <1>5 DEF GetStoredFails, OnlyAt
  <2>. QED
    BY <1>0, <1>1, <1>5, <2>1, <2>2, OwnerAccounted
       DEF GetStoredFails, NoOtherWriter, Owning, BuyStates, SellStates
<1>6. CASE TakePosition(th)
  BY <1>0, <1>1, <1>2, <1>6, OwnerAccounted
     DEF TakePosition, OnlyAt, InHand, NoOtherWriter, Owning, BuyStates, SellStates
<1>7. CASE SubmitSell(th)
  <2> DEFINE j == [side |-> "sell", token |-> t, mode |-> pos[th].mode]
  <2>1. j \in Job /\ j.token = t
    BY <1>3, <1>7 DEF SubmitSell, CarryStates, Position, Job, Sides
  <2>2. job' = [job EXCEPT ![th] = j] /\ queue' = Append(queue, CreateOrder(j))
    BY <1>7 DEF SubmitSell, Enqueue
  <2> HIDE DEF j
  <2>3. CreateOrder(j) \in Task /\ CreateOrder(j).kind # "delete_runtime"
    BY <2>1 DEF CreateOrder, Task
  <2>4. NoOtherWriter'
    BY <1>0, <1>1, <1>7, <2>2, <2>3, AppendKeepsWriters DEF SubmitSell
  <2>5. OnlyAt(th, t) /\ InHand(th, t)' /\ pc'[th] \in Owning /\ job'[th].token = t
    BY <1>0, <1>1, <1>2, <1>7, <2>1, <2>2 DEF SubmitSell, OnlyAt, InHand, Owning, SellStates
  <2>6. inFlight'[t] # "none"
    BY <1>1, <1>7 DEF SubmitSell
  <2>. QED
    BY <1>1, <2>4, <2>5, <2>6, OwnerAccounted
<1>8. CASE InsertCloseSignalFails(th)
  BY <1>0, <1>1, <1>2, <1>8, OwnerAccounted
     DEF InsertCloseSignalFails, OnlyAt, InHand, NoOtherWriter, Owning, BuyStates, SellStates
<1>9. CASE SellFills(th)
  <2>1. held' = held \ {pos[th]} /\ HeldOf(t) = {pos[th]}
    BY <1>1, <1>9 DEF SellFills, InHand
  <2>2. (HeldOf(t))' = {} /\ \A u \in Tokens \ {t} : (HeldOf(u))' = HeldOf(u)
    BY <2>1 DEF HeldOf
  <2>. QED
    BY <1>0, <1>1, <1>9, <2>2, OwnerAccounted
       DEF SellFills, OnlyAt, InHand, NoOtherWriter, Owning, BuyStates, SellStates
<1>10. CASE SellFails(th)
  BY <1>0, <1>1, <1>2, <1>10, OwnerAccounted
     DEF SellFails, OnlyAt, InHand, NoOtherWriter, Owning, BuyStates, SellStates
<1>11. CASE SaveRestored(th)
  <2>1. pc[th] = "restore_save" /\ HeldOf(t) = {pos[th]}
    BY <1>1, <1>11 DEF SaveRestored, SavePosition, InHand
  <2>2. redis' = [redis EXCEPT ![t] = pos[th]]
    BY <1>11, <2>1, HeldHasToken DEF SaveRestored, SavePosition, Undisturbed
  <2>. QED
    BY <1>0, <1>1, <1>2, <1>11, <2>1, <2>2, OwnerAccounted
       DEF SaveRestored, SavePosition, OnlyAt, InHand, NoOtherWriter, Owning, BuyStates, SellStates
<1>12. CASE RestoreOpenPosition(th)
  BY <1>0, <1>1, <1>2, <1>3, <1>12, OwnerAccounted
     DEF RestoreOpenPosition, OnlyAt, Settled, InHand, NoOtherWriter, CarryStates, Owning,
         BuyStates, SellStates
<1>13. CASE DeleteStored(th)
  BY <1>0, <1>1, <1>2, <1>13, OwnerAccounted
     DEF DeleteStored, OnlyAt, InHand, NoOtherWriter, Owning, BuyStates, SellStates
<1>14. CASE FinishSell(th)
  <2>1. Settled(t)'
    BY <1>0, <1>1, <1>2, <1>14 DEF FinishSell, Settled, InHand
  <2>2. OnlyAt(th, t)
    BY <1>0, <1>2, <1>14 DEF FinishSell, OnlyAt
  <2>. QED
    BY <1>0, <1>1, <1>14, <2>1, <2>2, OwnerAccounted
       DEF FinishSell, NoOtherWriter, Owning, BuyStates, SellStates
<1>. QED
  BY <1>4, <1>5, <1>6, <1>7, <1>8, <1>9, <1>10, <1>11, <1>12, <1>13, <1>14
     DEF ThreadStep, SellStates, TryBeginBuy, EnqueueFilledBuy, TryBeginSell, BeginManualSell,
         RejectBuy, AcceptBuy, BuyFills, BuyFails, SaveBought, SavePosition, MarkOpenPosition,
         DeleteStoredFails, EnqueueFilledSell, Undisturbed

\* Claiming a token, or giving up because it is not to be had.
LEMMA ClaimantAccounted ==
  ASSUME Undisturbed, Typed, InFlightExclusive, Accounted, InFlightExclusive',
         NEW th \in Threads, TryBeginBuy(th) \/ TryBeginSell(th) \/ BeginManualSell(th)
  PROVE  Accounted'
<1> USE DEF Go, Return, memory, rows, market, sync, persister
<1>0. /\ pc \in [Threads -> PcStates] /\ job \in [Threads -> Job \cup {None}]
      /\ pos \in [Threads -> Position \cup {None}]
      /\ inFlight \in [Tokens -> {"none"} \cup Sides]
  BY DEF Typed, TypeOK
<1>1. job[th] \in Job /\ job[th].token \in Tokens
  BY DEF Typed, ThreadsCarry, CarriesJob, TryBeginBuy, TryBeginSell, BeginManualSell, Job
<1> PICK t \in Tokens : t = job[th].token
  BY <1>1
<1>2. UNCHANGED <<openPositions, redis, held, queue, delayed, syncPc>> /\ NoOtherWriter'
  BY DEF TryBeginBuy, TryBeginSell, BeginManualSell, Accounted, NoOtherWriter
<1>3. CASE UNCHANGED inFlight /\ pc'[th] = "idle"
  <2>1. \A x \in Threads \ {th} : pc'[x] = pc[x] /\ job'[x] = job[x] /\ pos'[x] = pos[x]
    BY <1>0 DEF TryBeginBuy, TryBeginSell, BeginManualSell
  <2>. QED
    BY <1>2, <1>3, <2>1, AsideAccounted DEF Owning, BuyStates, SellStates
<1>4. CASE /\ inFlight[t] = "none" /\ UNCHANGED <<job, pos>>
           /\ inFlight' = [inFlight EXCEPT ![t] = inFlight'[t]] /\ inFlight'[t] # "none"
           /\ \/ openPositions[t] = None /\ pc' = [pc EXCEPT ![th] = "check"]
              \/ openPositions[t] # None /\ pc' = [pc EXCEPT ![th] = "sell_get"]
  <2>1. Settled(t)
    BY <1>4 DEF Accounted
  <2>2. \A u \in Tokens : (HeldOf(u))' = HeldOf(u)
    BY <1>2 DEF HeldOf
  <2>3. OnlyAt(th, t)
    BY <1>0, <1>2, <1>4, <2>2 DEF OnlyAt
  <2>4. InHand(th, t)'
    BY <1>0, <1>2, <1>4, <2>1, <2>2 DEF InHand, Settled
  <2>5. \A x \in Threads : ~Owns(x, t)
    BY <1>4, NoneIsApart DEF InFlightExclusive, Owns, Typed, ThreadsCarry, CarriesJob,
       BuyStates, SellStates
  <2>6. \A u \in Tokens \ {t} : ~Owns(th, u)'
    BY <1>4 DEF Owns
  <2>. QED
    BY <1>2, <1>4, <2>3, <2>4, <2>5, <2>6, LocalAccounted
<1>5. CASE TryBeginBuy(th)
  <2>1. CASE openPositions[t] = None /\ inFlight[t] = "none"
    BY <1>0, <1>4, <1>5, <2>1 DEF TryBeginBuy
  <2>2. CASE ~(openPositions[t] = None /\ inFlight[t] = "none")
    BY <1>0, <1>3, <1>5, <2>2 DEF TryBeginBuy
  <2>. QED
    BY <2>1, <2>2
<1>6. CASE TryBeginSell(th)
  <2>1. CASE openPositions[t] # None /\ inFlight[t] = "none"
    BY <1>0, <1>4, <1>6, <2>1 DEF TryBeginSell
  <2>2. CASE ~(openPositions[t] # None /\ inFlight[t] = "none")
    BY <1>0, <1>3, <1>6, <2>2 DEF TryBeginSell
  <2>. QED
    BY <2>1, <2>2
<1>7. CASE BeginManualSell(th)
  <2>1. pos[th] # None
    BY <1>7, NoneIsApart DEF BeginManualSell, Typed, ThreadsCarry, CarriesJob, CarryStates
  <2>2. CASE openPositions[t] = pos[th] /\ inFlight[t] = "none"
    BY <1>0, <1>4, <1>7, <2>1, <2>2 DEF BeginManualSell
  <2>3. CASE ~(openPositions[t] = pos[th] /\ inFlight[t] = "none")
    BY <1>0, <1>3, <1>7, <2>3 DEF BeginManualSell
  <2>. QED
    BY <2>2, <2>3
<1>. QED
  BY <1>5, <1>6, <1>7

\* Requests that arrive, and rows that are queued after a trade.
LEMMA RequestAccounted ==
  ASSUME Typed, Accounted, NEW th \in Threads, pc[th] = "idle",
         \A x \in Threads \ {th} : pc'[x] = pc[x] /\ job'[x] = job[x] /\ pos'[x] = pos[x],
         pc'[th] \in {"begin", "close_begin"},
         UNCHANGED <<openPositions, redis, inFlight, held, queue, delayed, syncPc>>
  PROVE  Accounted'
BY AsideAccounted DEF Accounted, NoOtherWriter, Owning, BuyStates, SellStates

LEMMA RowsAccounted ==
  ASSUME Typed, Accounted, NEW th \in Threads, EnqueueFilledBuy(th) \/ EnqueueFilledSell(th)
  PROVE  Accounted'
<1> PICK task \in {FilledBuy(pos[th]), FilledSell(pos[th])} : queue' = Append(queue, task)
  BY DEF EnqueueFilledBuy, EnqueueFilledSell, Enqueue
<1>1. pos[th] \in Position
  BY DEF EnqueueFilledBuy, EnqueueFilledSell, Typed, ThreadsCarry, CarriesJob, CarryStates
<1>2. task \in Task /\ task.kind # "delete_runtime"
  BY <1>1 DEF FilledBuy, FilledSell, Task
<1>3. UNCHANGED <<openPositions, redis, inFlight, held, delayed, syncPc>>
  BY DEF EnqueueFilledBuy, EnqueueFilledSell, memory, market, sync
<1>4. NoOtherWriter'
  BY <1>2, <1>3, AppendKeepsWriters DEF Accounted, Typed, TypeOK
<1>5. pc'[th] = "idle" /\ \A x \in Threads \ {th} : pc'[x] = pc[x] /\ job'[x] = job[x] /\ pos'[x] = pos[x]
  BY DEF EnqueueFilledBuy, EnqueueFilledSell, Return, Go, Typed, TypeOK
<1>. QED
  BY <1>3, <1>4, <1>5, AsideAccounted DEF Owning, BuyStates, SellStates

\* The persister has no deletion to run, so it writes database rows only.
LEMMA PersisterAccounted ==
  ASSUME Typed, Accounted, RunTask \/ FailTask \/ \E task \in delayed : RequeueTask(task)
  PROVE  Accounted'
<1> USE DEF memory, market, thread, sync
<1>0. queue \in Seq(Task) /\ delayed \subseteq Task /\ NoOtherWriter
  BY DEF Typed, TypeOK, Accounted
<1>1. ASSUME queue # <<>>
      PROVE  /\ Head(queue) \in Task /\ Head(queue).kind # "delete_runtime"
             /\ \A n \in 1..Len(Tail(queue)) : Tail(queue)[n].kind # "delete_runtime"
  <2>1. Head(queue) = queue[1] /\ 1 \in 1..Len(queue)
    BY <1>0, <1>1
  <2>2. Len(Tail(queue)) = Len(queue) - 1
        /\ \A n \in 1..Len(Tail(queue)) : Tail(queue)[n] = queue[n + 1] /\ n + 1 \in 1..Len(queue)
    BY <1>0, <1>1
  <2>. QED
    BY <1>0, <1>1, <2>1, <2>2 DEF NoOtherWriter
<1>2. UNCHANGED <<pc, job, pos, openPositions, inFlight, held, syncPc>>
  BY DEF RunTask, FailTask, RequeueTask
<1>3. CASE RunTask
  <2>1. UNCHANGED redis
    <3> DEFINE task == Head(queue)
    <3>1. task \in Task /\ task.kind # "delete_runtime" /\ Apply(task)
      BY <1>1, <1>3 DEF RunTask
    <3> HIDE DEF task
    <3>2. CASE task.kind = "create_order"
      BY <3>1, <3>2 DEF Apply
    <3>3. CASE task.kind = "filled_buy"
      BY <3>1, <3>3 DEF Apply
    <3>4. CASE task.kind = "filled_sell"
      BY <3>1, <3>4 DEF Apply
    <3>. QED
      BY <3>1, <3>2, <3>3, <3>4 DEF Task
  <2>2. NoOtherWriter'
    BY <1>0, <1>1, <1>3 DEF RunTask, NoOtherWriter
  <2>. QED
    BY <1>2, <2>1, <2>2, AsideAccounted
<1>4. CASE FailTask
  <2>1. NoOtherWriter' /\ UNCHANGED redis
    BY <1>0, <1>1, <1>4 DEF FailTask, NoOtherWriter
  <2>. QED
    BY <1>2, <2>1, AsideAccounted
<1>5. ASSUME NEW task \in delayed, RequeueTask(task) PROVE Accounted'
  <2> DEFINE longer == Append(queue, task)
  <2>1. queue' = longer /\ delayed' = delayed \ {task} /\ UNCHANGED redis
    BY <1>5 DEF RequeueTask, Enqueue
  <2>2. task \in Task /\ task.kind # "delete_runtime"
    BY <1>0 DEF NoOtherWriter
  <2>3. \A n \in 1..Len(longer) : longer[n].kind # "delete_runtime"
    <3>1. Len(longer) = Len(queue) + 1 /\ longer[Len(queue) + 1] = task
          /\ \A n \in 1..Len(queue) : longer[n] = queue[n]
      BY <1>0, <2>2
    <3>. QED
      BY <1>0, <2>2, <3>1 DEF NoOtherWriter
  <2>4. NoOtherWriter'
    BY <1>0, <1>2, <2>1, <2>3 DEF NoOtherWriter
  <2>. QED
    BY <1>2, <2>1, <2>4, AsideAccounted
<1>. QED
  BY <1>3, <1>4, <1>5

LEMMA AccountedInit == Init => Accounted
BY DEF Init, Accounted, Settled, HeldOf, Owns, BuyStates, SellStates, NoOtherWriter

LEMMA AccountedNext ==
  ASSUME Undisturbed, Typed, InFlightExclusive, Accounted, [Next]_vars, InFlightExclusive'
  PROVE  Accounted'
<1> USE DEF memory, market, thread, sync, persister
<1>1. ASSUME NEW id \in SignalIds, NEW side \in Sides, NEW t \in Tokens, ReceiveSignal(id, side, t)
      PROVE  Accounted'
  BY <1>1, RequestAccounted DEF ReceiveSignal, Go, Typed, TypeOK, Threads
<1>2. ASSUME NEW th \in Handlers, NEW j \in dbOrders, RetryOrder(th, j) PROVE Accounted'
  BY <1>2, RequestAccounted DEF RetryOrder, Go, Typed, TypeOK, Threads
<1>3. ASSUME NEW th \in Handlers, NEW p \in dbOpen, ClosePosition(th, p) PROVE Accounted'
  BY <1>3, RequestAccounted DEF ClosePosition, Go, Typed, TypeOK, Threads
<1>4. CASE (\E mode \in Modes : UpdateTradeMode(mode)) \/ UNCHANGED vars
  <2>1. UNCHANGED <<pc, job, pos, openPositions, redis, inFlight, held, queue, delayed, syncPc>>
    BY <1>4 DEF UpdateTradeMode, vars
  <2>. QED
    BY <2>1, AsideAccounted DEF Accounted, NoOtherWriter
<1>5. ASSUME NEW th \in Threads, ThreadStep(th) PROVE Accounted'
  <2>1. pc \in [Threads -> PcStates]
    BY DEF Typed, TypeOK
  <2>2. CASE pc[th] \in BuyStates
    BY <1>5, <2>2, BuyerAccounted
  <2>3. CASE pc[th] \in SellStates
    BY <1>5, <2>3, SellerAccounted
  <2>4. CASE pc[th] \notin Owning
    <3>1. \/ TryBeginBuy(th) \/ TryBeginSell(th) \/ BeginManualSell(th)
          \/ EnqueueFilledBuy(th) \/ EnqueueFilledSell(th)
      BY <1>5, <2>4 DEF ThreadStep, Owning, BuyStates, SellStates, RejectBuy, AcceptBuy,
         BuyFills, BuyFails, SaveBought, SavePosition, MarkOpenPosition, GetStored,
         GetStoredFails, TakePosition, SubmitSell, InsertCloseSignalFails, SellFills,
         SellFails, SaveRestored, RestoreOpenPosition, DeleteStored, DeleteStoredFails, FinishSell
    <3>. QED
      BY <3>1, ClaimantAccounted, RowsAccounted
  <2>. QED
    BY <2>2, <2>3, <2>4 DEF Owning
<1>6. CASE RunTask \/ FailTask \/ \E task \in delayed : RequeueTask(task)
  BY <1>6, PersisterAccounted
<1>7. ~SyncStep /\ ~Restart
  BY DEF Undisturbed, Accounted, NoOtherWriter, SyncStep, SyncSnapshot, SyncPrice, SyncSave,
     SyncSaveFails, SyncWriteBack, Restart
<1>. QED
  BY <1>1, <1>2, <1>3, <1>4, <1>5, <1>6, <1>7 DEF Next

\* The inductive invariant behind the theorems below.
THEOREM EverythingAccounted == Undisturbed /\ Spec => []Accounted
<1>1. Undisturbed /\ Typed /\ InFlightExclusive /\ Accounted /\ [Next]_vars /\ InFlightExclusive'
        => Accounted'
  BY AccountedNext
<1>2. Init => Accounted
  BY AccountedInit
<1>3. CASE Undisturbed
  <2>1. Typed /\ InFlightExclusive /\ Accounted /\ [Next]_vars /\ InFlightExclusive' => Accounted'
    BY <1>1, <1>3
  <2>2. Spec => []Typed
    BY TypedInit, TypedNext, PTL DEF Spec
  <2>. QED
    BY <1>2, <2>1, <2>2, TokensAreExclusive, PTL DEF Spec
<1>. QED
  BY <1>3

\* At most one position of a token is held at a time.
THEOREM OneHeld == Undisturbed /\ Spec => []OneHeldPerToken
<1>1. Typed /\ InFlightExclusive /\ Accounted => OneHeldPerToken
  <2> SUFFICES ASSUME Typed, InFlightExclusive, Accounted, NEW p \in held, NEW q \in held,
                      p.token = q.token
               PROVE  p = q
    BY DEF OneHeldPerToken
  <2> PICK t \in Tokens : t = p.token
    BY DEF Typed, TypeOK, Position
  <2>1. p \in HeldOf(t) /\ q \in HeldOf(t)
    BY DEF HeldOf
  <2>2. CASE inFlight[t] = "none"
    BY <2>1, <2>2 DEF Accounted, Settled
  <2>3. ASSUME NEW th \in Threads, Owns(th, t) PROVE p = q
    <3>1. InHand(th, t) /\ pc[th] \in BuyStates \cup SellStates
      BY <2>3 DEF Accounted, Owns
    <3>2. HeldOf(t) = {} \/ \E x : HeldOf(t) = {x}
      BY <3>1 DEF InHand, BuyStates, SellStates
    <3>. QED
      BY <2>1, <3>2
  <2>. QED
    BY <2>2, <2>3 DEF InFlightExclusive
<1>2. Spec => []Typed
  BY TypedInit, TypedNext, PTL DEF Spec
<1>. QED
  BY <1>1, <1>2, EverythingAccounted, TokensAreExclusive, PTL

\* Whoever is about to sell a position still owns it.
THEOREM NothingSoldTwice == Undisturbed /\ Spec => []SellsOnlyHeld
<1>1. Typed /\ InFlightExclusive /\ Accounted => SellsOnlyHeld
  <2> SUFFICES ASSUME Typed, InFlightExclusive, Accounted, NEW th \in Threads,
                      pc[th] \in {"sell_take", "sell_submit", "sell_exec"}
               PROVE  pos[th] \in held
    BY DEF SellsOnlyHeld
  <2>1. pc[th] \in Owning /\ InHand(th, job[th].token)
    BY OwnerFacts DEF Owning, SellStates
  <2>2. HeldOf(job[th].token) = {pos[th]}
    BY <2>1 DEF InHand
  <2>. QED
    BY <2>2, HeldHasToken
<1>2. Spec => []Typed
  BY TypedInit, TypedNext, PTL DEF Spec
<1>. QED
  BY <1>1, <1>2, EverythingAccounted, TokensAreExclusive, PTL

\* A position that is held is in memory or with the thread that trades it.
THEOREM NothingLost == Undisturbed /\ Spec => []NothingStranded
<1>1. Typed /\ InFlightExclusive /\ Accounted => NothingStranded
  <2> SUFFICES ASSUME Typed, InFlightExclusive, Accounted, NEW p \in held,
                      openPositions[p.token] # p
               PROVE  \E th \in Threads :
                        /\ pos[th] = p
                        /\ pc[th] \in {"buy_save", "buy_mark", "sell_submit", "sell_exec",
                                       "restore_save", "restore_mem"}
    BY DEF NothingStranded
  <2> PICK t \in Tokens : t = p.token
    BY DEF Typed, TypeOK, Position
  <2>1. p \in HeldOf(t)
    BY DEF HeldOf
  <2>2. inFlight[t] # "none"
    BY <2>1 DEF Accounted, Settled
  <2>3. PICK th \in Threads : Owns(th, t)
    BY <2>2 DEF InFlightExclusive
  <2>4. InHand(th, t)
    BY <2>3 DEF Accounted
  <2>. QED
    BY <2>1, <2>3, <2>4 DEF InHand, Owns, BuyStates, SellStates
<1>2. Spec => []Typed
  BY TypedInit, TypedNext, PTL DEF Spec
<1>. QED
  BY <1>1, <1>2, EverythingAccounted, TokensAreExclusive, PTL

\* Between trades memory and Redis tell the same story about a token.
THEOREM StoreAgrees == Undisturbed /\ Spec => []StoredMatchesMemory
<1>1. Accounted => StoredMatchesMemory
  BY DEF Accounted, StoredMatchesMemory, Settled
<1>. QED
  BY <1>1, EverythingAccounted, PTL

-----------------------------------------------------------------------------
(* The runtime implements the ledger.                                      *)

\* Places where a bought position is not in memory yet.
BoughtStates == {"buy_save", "buy_mark"}

Bought == {th \in Threads : pc[th] \in BoughtStates}

\* Ids are issued once: a fresh purchase has an id below the counter, and no
\* two buyers carry the same one.
IdsIssuedOnce ==
  /\ \A th \in Bought : pos[th].id \in 1..(nextId - 1)
  /\ \A th, other \in Bought : pos[th].id = pos[other].id => th = other

\* The thread found for a token is the one that owns it.
LEMMA OwnerChosen ==
  ASSUME InFlightExclusive, NEW t \in Tokens, NEW th \in Threads, Owns(th, t)
  PROVE  (CHOOSE x \in Threads : Owns(x, t)) = th
<1>1. \A x \in Threads : Owns(x, t) => x = th
  BY DEF InFlightExclusive
<1>. QED
  BY <1>1

LEMMA OwnerChosenNext ==
  ASSUME InFlightExclusive', NEW t \in Tokens, NEW th \in Threads, Owns(th, t)'
  PROVE  (CHOOSE x \in Threads : Owns(x, t)') = th
<1>1. \A x \in Threads : Owns(x, t)' => x = th
  BY DEF InFlightExclusive
<1>. QED
  BY <1>1

-----------------------------------------------------------------------------
(* Ids *)

LEMMA IdsInit == Init => IdsIssuedOnce
BY DEF Init, IdsIssuedOnce, Bought, BoughtStates

\* Buyers keep what they bought, or drop it.
LEMMA IdsKept ==
  ASSUME IdsIssuedOnce, UNCHANGED nextId,
         \A x \in Threads : pc'[x] \in BoughtStates => pc[x] \in BoughtStates /\ pos'[x] = pos[x]
  PROVE  IdsIssuedOnce'
BY DEF IdsIssuedOnce, Bought

LEMMA IdsNext ==
  ASSUME Typed, IdsIssuedOnce, [Next]_vars
  PROVE  IdsIssuedOnce'
<1> USE DEF memory, rows, market, thread, sync, persister
<1>0. /\ pc \in [Threads -> PcStates] /\ pos \in [Threads -> Position \cup {None}]
      /\ nextId \in Nat \ {0} /\ Handlers \subseteq Threads /\ Consumer \in Threads
  BY ConstantsAssumption DEF Typed, TypeOK, Threads
<1>1. CASE UNCHANGED <<pc, pos, nextId>>
  BY <1>1, IdsKept
<1>2. ASSUME NEW th \in Threads, BuyFills(th) PROVE IdsIssuedOnce'
  <2>1. /\ pc' = [pc EXCEPT ![th] = "buy_save"] /\ nextId' = nextId + 1 /\ pc[th] = "buy_exec"
        /\ \A x \in Threads \ {th} : pos'[x] = pos[x]
        /\ pos'[th].id = nextId
    BY <1>0, <1>2 DEF BuyFills, Go
  <2>2. (Bought)' = Bought \cup {th} /\ th \notin Bought
    BY <1>0, <2>1 DEF Bought, BoughtStates
  <2>3. \A x \in Bought : pos'[x] = pos[x] /\ pos[x].id \in 1..(nextId - 1)
    BY <2>1, <2>2 DEF IdsIssuedOnce, Bought
  <2>4. \A x \in (Bought)' : pos'[x].id \in 1..(nextId' - 1)
    BY <1>0, <2>1, <2>2, <2>3
  <2>5. ASSUME NEW x \in (Bought)', NEW y \in (Bought)', pos'[x].id = pos'[y].id
        PROVE  x = y
    <3>1. CASE x \in Bought /\ y \in Bought
      BY <2>3, <2>5, <3>1 DEF IdsIssuedOnce
    <3>2. CASE x \in Bought /\ y = th
      BY <1>0, <2>1, <2>3, <2>5, <3>2
    <3>3. CASE x = th /\ y \in Bought
      BY <1>0, <2>1, <2>3, <2>5, <3>3
    <3>. QED
      BY <2>2, <3>1, <3>2, <3>3
  <2>. QED
    BY <2>4, <2>5 DEF IdsIssuedOnce
<1>3. ASSUME NEW th \in Threads, ThreadStep(th), ~BuyFills(th) PROVE IdsIssuedOnce'
  <2>1. UNCHANGED nextId
    BY <1>3 DEF ThreadStep, TryBeginBuy, TryBeginSell, BeginManualSell, RejectBuy, AcceptBuy,
       BuyFails, SaveBought, SavePosition, MarkOpenPosition, EnqueueFilledBuy, GetStored,
       GetStoredFails, TakePosition, SubmitSell, InsertCloseSignalFails, SellFills, SellFails,
       SaveRestored, RestoreOpenPosition, DeleteStored, DeleteStoredFails, FinishSell,
       EnqueueFilledSell
  <2>2. \A x \in Threads \ {th} : pc'[x] = pc[x] /\ pos'[x] = pos[x]
    BY <1>0, <1>3
       DEF ThreadStep, TryBeginBuy, TryBeginSell, BeginManualSell, RejectBuy, AcceptBuy,
       BuyFails, SaveBought, SavePosition, MarkOpenPosition, EnqueueFilledBuy, GetStored,
       GetStoredFails, TakePosition, SubmitSell, InsertCloseSignalFails, SellFills, SellFails,
       SaveRestored, RestoreOpenPosition, DeleteStored, DeleteStoredFails, FinishSell,
       EnqueueFilledSell, Go, Return
  <2>3. pc'[th] \in BoughtStates => pc[th] = "buy_save" /\ pos'[th] = pos[th]
    BY <1>0, <1>3
       DEF ThreadStep, TryBeginBuy, TryBeginSell, BeginManualSell, RejectBuy, AcceptBuy,
       BuyFails, SaveBought, SavePosition, MarkOpenPosition, EnqueueFilledBuy, GetStored,
       GetStoredFails, TakePosition, SubmitSell, InsertCloseSignalFails, SellFills, SellFails,
       SaveRestored, RestoreOpenPosition, DeleteStored, DeleteStoredFails, FinishSell,
       EnqueueFilledSell, Go, Return, BoughtStates
  <2>. QED
    BY <2>1, <2>2, <2>3, IdsKept DEF BoughtStates
<1>4. ASSUME NEW id \in SignalIds, NEW side \in Sides, NEW t \in Tokens, ReceiveSignal(id, side, t)
      PROVE  IdsIssuedOnce'
  BY <1>0, <1>4, IdsKept DEF ReceiveSignal, Go, BoughtStates
<1>5. ASSUME NEW th \in Handlers, NEW j \in dbOrders, RetryOrder(th, j) PROVE IdsIssuedOnce'
  BY <1>0, <1>5, IdsKept DEF RetryOrder, Go, BoughtStates
<1>6. ASSUME NEW th \in Handlers, NEW p \in dbOpen, ClosePosition(th, p) PROVE IdsIssuedOnce'
  BY <1>0, <1>6, IdsKept DEF ClosePosition, Go, BoughtStates
<1>7. CASE Restart
  BY <1>0, <1>7, IdsKept DEF Restart, BoughtStates
<1>8. CASE (\E mode \in Modes : UpdateTradeMode(mode)) \/ UNCHANGED vars
  BY <1>1, <1>8 DEF UpdateTradeMode, vars
<1>9. CASE RunTask \/ FailTask \/ \E task \in delayed : RequeueTask(task)
  BY <1>1, <1>9 DEF RunTask, FailTask, RequeueTask
<1>10. CASE SyncStep
  BY <1>1, <1>10 DEF SyncStep, SyncSnapshot, SyncPrice, SyncSave, SyncSaveFails, SyncWriteBack
<1>. QED
  BY <1>2, <1>3, <1>4, <1>5, <1>6, <1>7, <1>8, <1>9, <1>10 DEF Next

-----------------------------------------------------------------------------
(* What a step means to the ledger *)

\* Ids are used once the position is in memory.
LEMMA UsedKept ==
  ASSUME UNCHANGED nextId,
         \A x \in Threads :
           /\ pc'[x] \in BoughtStates <=> pc[x] \in BoughtStates
           /\ pc[x] \in BoughtStates => pos'[x] = pos[x]
  PROVE  UNCHANGED LedgerUsed
<1>1. (Bought)' = Bought /\ \A x \in Bought : pos'[x] = pos[x]
  BY DEF Bought
<1>2. {pos[x].id : x \in Bought} = {pos'[x].id : x \in Bought}
  BY <1>1
<1>. QED
  BY <1>1, <1>2 DEF LedgerUsed, Bought, BoughtStates

\* The step of one thread, on one token.
TradesOnly(th, t) ==
  /\ \A x \in Threads \ {th} : pc'[x] = pc[x] /\ job'[x] = job[x] /\ pos'[x] = pos[x]
  /\ \A u \in Tokens \ {t} : openPositions'[u] = openPositions[u] /\ inFlight'[u] = inFlight[u]
  /\ pc[th] \in Owning => job[th].token = t
  /\ pc'[th] \in Owning => job'[th].token = t

\* Every other token is where it was.
LEMMA OthersLedger ==
  ASSUME Typed, Typed', InFlightExclusive, InFlightExclusive',
         NEW th \in Threads, NEW t \in Tokens, TradesOnly(th, t),
         NEW u \in Tokens, u # t
  PROVE  LedgerPhase'[u] = LedgerPhase[u] /\ LedgerPosition'[u] = LedgerPosition[u]
<1>1. openPositions'[u] = openPositions[u] /\ inFlight'[u] = inFlight[u]
  BY DEF TradesOnly
<1>2. LedgerPhase'[u] = LedgerPhase[u]
  BY <1>1 DEF LedgerPhase
<1>3. CASE inFlight[u] = "sell" /\ openPositions[u] = None
  <2> PICK x \in Threads : Owns(x, u)
    BY <1>3 DEF InFlightExclusive
  <2>1. x # th
    BY DEF TradesOnly, Owns, Owning
  <2>2. Owns(x, u)' /\ pos'[x] = pos[x]
    BY <2>1 DEF TradesOnly, Owns
  <2>3. LedgerPosition[u] = pos[x]
    BY <1>3, OwnerChosen DEF LedgerPosition
  <2>4. LedgerPosition'[u] = pos'[x]
    BY <1>1, <1>3, <2>2, OwnerChosenNext DEF LedgerPosition
  <2>. QED
    BY <1>2, <2>2, <2>3, <2>4
<1>4. CASE ~(inFlight[u] = "sell" /\ openPositions[u] = None)
  BY <1>1, <1>2, <1>4 DEF LedgerPosition
<1>. QED
  BY <1>3, <1>4

\* So the maps of the ledger change at that token at most.
LEMMA LedgerAt ==
  ASSUME Typed, Typed', InFlightExclusive, InFlightExclusive',
         NEW th \in Threads, NEW t \in Tokens, TradesOnly(th, t)
  PROVE  /\ \A ph : LedgerPhase'[t] = ph => LedgerPhase' = [LedgerPhase EXCEPT ![t] = ph]
         /\ \A p : LedgerPosition'[t] = p => LedgerPosition' = [LedgerPosition EXCEPT ![t] = p]
         /\ LedgerPhase'[t] = LedgerPhase[t] => UNCHANGED LedgerPhase
         /\ LedgerPosition'[t] = LedgerPosition[t] => UNCHANGED LedgerPosition
<1>1. \A u \in Tokens \ {t} :
        LedgerPhase'[u] = LedgerPhase[u] /\ LedgerPosition'[u] = LedgerPosition[u]
  BY OthersLedger
<1>2. /\ LedgerPhase = [u \in Tokens |-> LedgerPhase[u]]
      /\ LedgerPhase' = [u \in Tokens |-> LedgerPhase'[u]]
  BY DEF LedgerPhase
<1>3. /\ LedgerPosition = [u \in Tokens |-> LedgerPosition[u]]
      /\ LedgerPosition' = [u \in Tokens |-> LedgerPosition'[u]]
  BY DEF LedgerPosition
<1>. QED
  BY <1>1, <1>2, <1>3

\* What the ledger shows of a token.
LEMMA LedgerShows ==
  ASSUME InFlightExclusive, NEW t \in Tokens
  PROVE  /\ inFlight[t] = "buy" => LedgerPhase[t] = "buying" /\ LedgerPosition[t] = openPositions[t]
         /\ inFlight[t] = "sell" => LedgerPhase[t] = "selling"
         /\ inFlight[t] = "none" =>
              /\ LedgerPhase[t] = IF openPositions[t] = None THEN "flat" ELSE "open"
              /\ LedgerPosition[t] = openPositions[t]
         /\ openPositions[t] # None => LedgerPosition[t] = openPositions[t]
         /\ \A th \in Threads :
              Owns(th, t) /\ inFlight[t] = "sell" /\ openPositions[t] = None
                => LedgerPosition[t] = pos[th]
BY OwnerChosen DEF LedgerPhase, LedgerPosition

LEMMA LedgerShowsNext ==
  ASSUME InFlightExclusive', NEW t \in Tokens
  PROVE  /\ inFlight'[t] = "buy" => LedgerPhase'[t] = "buying" /\ LedgerPosition'[t] = openPositions'[t]
         /\ inFlight'[t] = "sell" => LedgerPhase'[t] = "selling"
         /\ inFlight'[t] = "none" =>
              /\ LedgerPhase'[t] = IF openPositions'[t] = None THEN "flat" ELSE "open"
              /\ LedgerPosition'[t] = openPositions'[t]
         /\ openPositions'[t] # None => LedgerPosition'[t] = openPositions'[t]
         /\ \A th \in Threads :
              Owns(th, t)' /\ inFlight'[t] = "sell" /\ openPositions'[t] = None
                => LedgerPosition'[t] = pos'[th]
BY OwnerChosenNext DEF LedgerPhase, LedgerPosition

-----------------------------------------------------------------------------
(* The steps *)

LedgerStep == Ledger!Next \/ UNCHANGED <<LedgerPhase, LedgerPosition, LedgerUsed>>

\* The facts every step is judged with.
Sound == Typed /\ InFlightExclusive /\ Accounted /\ IdsIssuedOnce

\* A thread that owns a token acts on that token alone.
LEMMA OwnerTrades ==
  ASSUME Sound, NEW th \in Threads, pc[th] \in Owning, ThreadStep(th)
  PROVE  TradesOnly(th, job[th].token)
<1> USE DEF Go, Return, FinishInFlight, memory
<1>0. /\ pc \in [Threads -> PcStates] /\ job \in [Threads -> Job \cup {None}]
      /\ pos \in [Threads -> Position \cup {None}]
      /\ openPositions \in [Tokens -> Position \cup {None}]
      /\ inFlight \in [Tokens -> {"none"} \cup Sides]
  BY DEF Sound, Typed, TypeOK
<1>1. job[th] \in Job
  BY OwnerFacts DEF Sound
<1>2. \A x \in Threads \ {th} : pc'[x] = pc[x] /\ job'[x] = job[x] /\ pos'[x] = pos[x]
  BY <1>0 DEF ThreadStep, TryBeginBuy, TryBeginSell, BeginManualSell, RejectBuy, AcceptBuy,
     BuyFills, BuyFails, SaveBought, SavePosition, MarkOpenPosition, EnqueueFilledBuy, GetStored,
     GetStoredFails, TakePosition, SubmitSell, InsertCloseSignalFails, SellFills, SellFails,
     SaveRestored, RestoreOpenPosition, DeleteStored, DeleteStoredFails, FinishSell,
     EnqueueFilledSell
<1>3. \A u \in Tokens \ {job[th].token} :
        openPositions'[u] = openPositions[u] /\ inFlight'[u] = inFlight[u]
  BY <1>0, <1>1
     DEF ThreadStep, TryBeginBuy, TryBeginSell, BeginManualSell, RejectBuy, AcceptBuy,
     BuyFills, BuyFails, SaveBought, SavePosition, MarkOpenPosition, EnqueueFilledBuy, GetStored,
     GetStoredFails, TakePosition, SubmitSell, InsertCloseSignalFails, SellFills, SellFails,
     SaveRestored, RestoreOpenPosition, DeleteStored, DeleteStoredFails, FinishSell,
     EnqueueFilledSell
<1>4. pc'[th] \in Owning => job'[th].token = job[th].token
  BY <1>0, <1>1
     DEF ThreadStep, TryBeginBuy, TryBeginSell, BeginManualSell, RejectBuy, AcceptBuy,
     BuyFills, BuyFails, SaveBought, SavePosition, MarkOpenPosition, EnqueueFilledBuy, GetStored,
     GetStoredFails, TakePosition, SubmitSell, InsertCloseSignalFails, SellFills, SellFails,
     SaveRestored, RestoreOpenPosition, DeleteStored, DeleteStoredFails, FinishSell,
     EnqueueFilledSell, Owning, BuyStates, SellStates
<1>. QED
  BY <1>2, <1>3, <1>4 DEF TradesOnly

\* Buying: the claim is given up, or the position enters the ledger with the
\* in-memory write, which is the one step that uses its id.
LEMMA BuyerLedger ==
  ASSUME Undisturbed, Sound, Sound', NEW th \in Threads, pc[th] \in BuyStates, ThreadStep(th)
  PROVE  LedgerStep
<1> PICK t \in Tokens : t = job[th].token
  BY OwnerFacts DEF Sound, Owning
<1> USE DEF Go, Return, FinishInFlight, memory, market
<1>0. /\ pc \in [Threads -> PcStates] /\ job \in [Threads -> Job \cup {None}]
      /\ pos \in [Threads -> Position \cup {None}]
      /\ openPositions \in [Tokens -> Position \cup {None}]
      /\ inFlight \in [Tokens -> {"none"} \cup Sides]
      /\ nextId \in Nat \ {0}
  BY ConstantsAssumption DEF Sound, Typed, TypeOK
<1>1. /\ InHand(th, t) /\ Owns(th, t)
      /\ inFlight[t] = "buy" /\ openPositions[t] = None
  <2>1. Owns(th, t) /\ InHand(th, t) /\ job[th].side = "buy"
    BY OwnerFacts DEF Sound, Owning, Typed, ThreadsCarry, CarriesJob
  <2>. QED
    BY <2>1 DEF Sound, InFlightExclusive, InHand, BuyStates
<1>2. TradesOnly(th, t)
  BY OwnerTrades DEF Owning
<1>3. /\ LedgerPhase[t] = "buying" /\ LedgerPosition[t] = None
      /\ \A ph : LedgerPhase'[t] = ph => LedgerPhase' = [LedgerPhase EXCEPT ![t] = ph]
      /\ \A p : LedgerPosition'[t] = p => LedgerPosition' = [LedgerPosition EXCEPT ![t] = p]
      /\ LedgerPhase'[t] = LedgerPhase[t] => UNCHANGED LedgerPhase
      /\ LedgerPosition'[t] = LedgerPosition[t] => UNCHANGED LedgerPosition
  BY <1>1, <1>2, LedgerAt, LedgerShows DEF Sound
<1>4. CASE RejectBuy(th) \/ BuyFails(th)
  <2>1. inFlight'[t] = "none" /\ openPositions'[t] = None
    BY <1>0, <1>1, <1>4 DEF RejectBuy, BuyFails
  <2>2. LedgerPhase'[t] = "flat" /\ LedgerPosition'[t] = None
    BY <2>1, LedgerShowsNext DEF Sound
  <2>3. UNCHANGED LedgerUsed
    BY <1>0, <1>4, UsedKept DEF RejectBuy, BuyFails, BoughtStates
  <2>4. Ledger!BuyAborted(t)
    BY <1>3, <2>2, <2>3 DEF Ledger!BuyAborted, Ledger!Move
  <2>. QED
    BY <2>4 DEF LedgerStep, Ledger!Next
<1>5. CASE AcceptBuy(th) \/ SaveBought(th)
  <2>1. inFlight'[t] = "buy" /\ openPositions'[t] = None
    BY <1>1, <1>5 DEF AcceptBuy, SaveBought, SavePosition
  <2>2. LedgerPhase'[t] = "buying" /\ LedgerPosition'[t] = None
    BY <2>1, LedgerShowsNext DEF Sound
  <2>3. UNCHANGED LedgerUsed
    BY <1>0, <1>5, UsedKept DEF AcceptBuy, SaveBought, SavePosition, BoughtStates
  <2>. QED
    BY <1>3, <2>2, <2>3 DEF LedgerStep
<1>6. CASE BuyFills(th)
  <2>1. inFlight'[t] = "buy" /\ openPositions'[t] = None
    BY <1>1, <1>6 DEF BuyFills
  <2>2. LedgerPhase'[t] = "buying" /\ LedgerPosition'[t] = None
    BY <2>1, LedgerShowsNext DEF Sound
  <2>3. UNCHANGED LedgerUsed
    <3>1. /\ pc[th] = "buy_exec" /\ pc' = [pc EXCEPT ![th] = "buy_save"]
          /\ nextId' = nextId + 1 /\ pos'[th].id = nextId
          /\ \A x \in Threads \ {th} : pos'[x] = pos[x]
      BY <1>0, <1>6 DEF BuyFills
    <3>2. (Bought)' = Bought \cup {th} /\ th \notin Bought
      BY <1>0, <3>1 DEF Bought, BoughtStates
    <3>3. {pos'[x].id : x \in (Bought)'} = {pos[x].id : x \in Bought} \cup {nextId}
      BY <3>1, <3>2 DEF Bought
    <3>4. LedgerUsed = (1..(nextId - 1)) \ {pos[x].id : x \in Bought}
          /\ LedgerUsed' = (1..(nextId' - 1)) \ {pos'[x].id : x \in (Bought)'}
      BY DEF LedgerUsed, Bought, BoughtStates
    <3> PICK ids : ids = {pos[x].id : x \in Bought}
      OBVIOUS
    <3>5. (1..nextId) \ (ids \cup {nextId}) = (1..(nextId - 1)) \ ids
      BY <1>0
    <3>6. nextId' - 1 = nextId
      BY <1>0, <3>1
    <3>. QED
      BY <3>3, <3>4, <3>5, <3>6
  <2>. QED
    BY <1>3, <2>2, <2>3 DEF LedgerStep
<1>7. CASE MarkOpenPosition(th)
  <2> PICK p \in Position : p = pos[th]
    BY <1>7 DEF MarkOpenPosition, Sound, Typed, ThreadsCarry, CarriesJob, CarryStates
  <2>1. inFlight'[t] = "none" /\ openPositions'[t] = p /\ p # None
    BY <1>0, <1>7, NoneIsApart DEF MarkOpenPosition
  <2>2. LedgerPhase'[t] = "open" /\ LedgerPosition'[t] = p
    BY <2>1, LedgerShowsNext DEF Sound
  <2>3. HeldOf(t) = {p}
    BY <1>1, <1>7 DEF MarkOpenPosition, InHand
  <2>4. p.token = t
    BY <2>3, HeldHasToken
  <2>5. th \in Bought /\ (Bought)' = Bought \ {th} /\ nextId' = nextId /\ pos' = pos
    BY <1>0, <1>7 DEF MarkOpenPosition, Bought, BoughtStates
  <2>6. LedgerUsed = (1..(nextId - 1)) \ {pos[x].id : x \in Bought}
        /\ LedgerUsed' = (1..(nextId' - 1)) \ {pos'[x].id : x \in (Bought)'}
    BY DEF LedgerUsed, Bought, BoughtStates
  <2>7. {pos'[x].id : x \in (Bought)'} = {pos[x].id : x \in Bought} \ {p.id}
    BY <2>5 DEF Sound, IdsIssuedOnce
  <2>8. p.id \in 1..(nextId - 1) /\ p.id \in {pos[x].id : x \in Bought}
    BY <2>5 DEF Sound, IdsIssuedOnce
  <2>9. p.id \notin LedgerUsed /\ LedgerUsed' = LedgerUsed \cup {p.id}
    BY <2>5, <2>6, <2>7, <2>8
  <2>10. Ledger!BuyDone(t, p)
    BY <1>3, <2>2, <2>4, <2>9 DEF Ledger!BuyDone, Ledger!Move
  <2>. QED
    BY <2>10 DEF LedgerStep, Ledger!Next
<1>. QED
  BY <1>4, <1>5, <1>6, <1>7
     DEF ThreadStep, BuyStates, TryBeginBuy, EnqueueFilledBuy, TryBeginSell, BeginManualSell,
         GetStored, GetStoredFails, TakePosition, SubmitSell, InsertCloseSignalFails, SellFills,
         SellFails, SaveRestored, SavePosition, RestoreOpenPosition, DeleteStored,
         DeleteStoredFails, FinishSell, EnqueueFilledSell

\* Selling: the ledger keeps the position with its seller, until the mark is
\* cleared, with the position back in memory or gone.
LEMMA SellerLedger ==
  ASSUME Undisturbed, Sound, Sound', NEW th \in Threads, pc[th] \in SellStates, ThreadStep(th)
  PROVE  LedgerStep
<1> PICK t \in Tokens : t = job[th].token
  BY OwnerFacts DEF Sound, Owning
<1> USE DEF Go, Return, FinishInFlight, memory, market
<1>0. /\ pc \in [Threads -> PcStates] /\ job \in [Threads -> Job \cup {None}]
      /\ pos \in [Threads -> Position \cup {None}]
      /\ openPositions \in [Tokens -> Position \cup {None}]
      /\ inFlight \in [Tokens -> {"none"} \cup Sides]
  BY DEF Sound, Typed, TypeOK
<1>1. InHand(th, t) /\ Owns(th, t) /\ inFlight[t] = "sell" /\ ~DeleteStoredFails(th)
  <2>1. Owns(th, t) /\ InHand(th, t) /\ job[th].side = "sell"
    BY OwnerFacts DEF Sound, Owning, Typed, ThreadsCarry, CarriesJob
  <2>. QED
    BY <2>1 DEF Sound, InFlightExclusive, Undisturbed, DeleteStoredFails
<1>2. TradesOnly(th, t)
  BY OwnerTrades DEF Owning
<1>3. /\ LedgerPhase[t] = "selling"
      /\ LedgerPosition[t] = IF openPositions[t] = None THEN pos[th] ELSE openPositions[t]
      /\ \A ph : LedgerPhase'[t] = ph => LedgerPhase' = [LedgerPhase EXCEPT ![t] = ph]
      /\ \A p : LedgerPosition'[t] = p => LedgerPosition' = [LedgerPosition EXCEPT ![t] = p]
      /\ LedgerPhase'[t] = LedgerPhase[t] => UNCHANGED LedgerPhase
      /\ LedgerPosition'[t] = LedgerPosition[t] => UNCHANGED LedgerPosition
  BY <1>1, <1>2, LedgerAt, LedgerShows DEF Sound
<1>4. UNCHANGED LedgerUsed
  <2>1. pc[th] \notin BoughtStates /\ pc'[th] \notin BoughtStates /\ UNCHANGED nextId
    BY <1>0, <1>1
       DEF ThreadStep, TryBeginBuy, TryBeginSell, BeginManualSell, RejectBuy, AcceptBuy,
       BuyFills, BuyFails, SaveBought, SavePosition, MarkOpenPosition, EnqueueFilledBuy, GetStored,
       GetStoredFails, TakePosition, SubmitSell, InsertCloseSignalFails, SellFills, SellFails,
       SaveRestored, RestoreOpenPosition, DeleteStored, DeleteStoredFails, FinishSell,
       EnqueueFilledSell, BoughtStates, SellStates
  <2>. QED
    BY <1>2, <2>1, UsedKept DEF TradesOnly
<1>5. CASE GetStoredFails(th)
  <2>1. inFlight'[t] = "none" /\ openPositions'[t] = openPositions[t] /\ openPositions[t] # None
    BY <1>0, <1>1, <1>5 DEF GetStoredFails, InHand
  <2>2. LedgerPhase'[t] = "open" /\ LedgerPosition'[t] = LedgerPosition[t]
    BY <1>3, <2>1, LedgerShowsNext DEF Sound
  <2>3. Ledger!SellAborted(t)
    BY <1>3, <1>4, <2>2 DEF Ledger!SellAborted, Ledger!Move
  <2>. QED
    BY <2>3 DEF LedgerStep, Ledger!Next
<1>6. CASE RestoreOpenPosition(th)
  <2>1. pos[th] # None
    BY <1>6, NoneIsApart
       DEF RestoreOpenPosition, Sound, Typed, ThreadsCarry, CarriesJob, CarryStates
  <2>2. inFlight'[t] = "none" /\ openPositions'[t] = pos[th] /\ openPositions[t] = None
    BY <1>0, <1>1, <1>6 DEF RestoreOpenPosition, InHand
  <2>3. LedgerPhase'[t] = "open" /\ LedgerPosition'[t] = LedgerPosition[t]
    BY <1>3, <2>1, <2>2, LedgerShowsNext DEF Sound
  <2>4. Ledger!SellAborted(t)
    BY <1>3, <1>4, <2>3 DEF Ledger!SellAborted, Ledger!Move
  <2>. QED
    BY <2>4 DEF LedgerStep, Ledger!Next
<1>7. CASE FinishSell(th)
  <2>1. inFlight'[t] = "none" /\ openPositions'[t] = None
    BY <1>0, <1>1, <1>7 DEF FinishSell, InHand
  <2>2. LedgerPhase'[t] = "flat" /\ LedgerPosition'[t] = None
    BY <2>1, LedgerShowsNext DEF Sound
  <2>3. Ledger!SellDone(t)
    BY <1>3, <1>4, <2>2 DEF Ledger!SellDone, Ledger!Move
  <2>. QED
    BY <2>3 DEF LedgerStep, Ledger!Next
<1>8. CASE GetStored(th)
  <2>1. inFlight'[t] = "sell" /\ openPositions'[t] = openPositions[t] /\ openPositions[t] # None
    BY <1>1, <1>8 DEF GetStored, InHand
  <2>. QED
    BY <1>3, <1>4, <2>1, LedgerShowsNext DEF Sound, LedgerStep
<1>9. CASE TakePosition(th)
  <2>1. /\ inFlight'[t] = "sell" /\ openPositions'[t] = None /\ pos'[th] = pos[th]
        /\ openPositions[t] = pos[th] /\ Owns(th, t)'
    BY <1>0, <1>1, <1>9 DEF TakePosition, InHand, Owns, SellStates
  <2>. QED
    BY <1>3, <1>4, <2>1, LedgerShowsNext DEF Sound, LedgerStep
<1>10. CASE \/ SubmitSell(th) \/ InsertCloseSignalFails(th) \/ SellFills(th) \/ SellFails(th)
            \/ SaveRestored(th) \/ DeleteStored(th)
  <2>1. /\ inFlight'[t] = "sell" /\ openPositions'[t] = None /\ pos'[th] = pos[th]
        /\ openPositions[t] = None
    BY <1>1, <1>10 DEF SubmitSell, InsertCloseSignalFails, SellFills, SellFails, SaveRestored,
       SavePosition, DeleteStored, InHand
  <2>2. pc'[th] \in Owning
    BY <1>0, <1>10 DEF SubmitSell, InsertCloseSignalFails, SellFills, SellFails, SaveRestored,
       SavePosition, DeleteStored, Owning, SellStates
  <2>3. Owns(th, t)'
    BY <1>2, <2>2 DEF TradesOnly, Owns, Owning
  <2>. QED
    BY <1>3, <1>4, <2>1, <2>3, LedgerShowsNext DEF Sound, LedgerStep
<1>. QED
  BY <1>1, <1>5, <1>6, <1>7, <1>8, <1>9, <1>10
     DEF ThreadStep, SellStates, TryBeginBuy, EnqueueFilledBuy, TryBeginSell, BeginManualSell,
         RejectBuy, AcceptBuy, BuyFills, BuyFails, SaveBought, SavePosition, MarkOpenPosition,
         EnqueueFilledSell

\* Nothing the ledger looks at changes.
LEMMA AsideLedger ==
  ASSUME Sound, Sound', UNCHANGED <<openPositions, inFlight, nextId>>,
         \A th \in Threads :
           \/ pc'[th] = pc[th] /\ job'[th] = job[th] /\ pos'[th] = pos[th]
           \/ pc[th] \notin Owning /\ pc'[th] \notin Owning
  PROVE  LedgerStep
<1>1. UNCHANGED LedgerUsed
  BY UsedKept DEF BoughtStates, Owning, BuyStates
<1>2. UNCHANGED LedgerPhase
  BY DEF LedgerPhase
<1>3. \A t \in Tokens : LedgerPosition'[t] = LedgerPosition[t]
  <2> SUFFICES ASSUME NEW t \in Tokens PROVE LedgerPosition'[t] = LedgerPosition[t]
    OBVIOUS
  <2>1. CASE inFlight[t] = "sell" /\ openPositions[t] = None
    <3> PICK x \in Threads : Owns(x, t)
      BY <2>1 DEF Sound, InFlightExclusive
    <3>1. Owns(x, t)' /\ pos'[x] = pos[x]
      BY DEF Owns, Owning
    <3>. QED
      BY <2>1, <3>1, OwnerChosen, OwnerChosenNext DEF Sound, LedgerPosition
  <2>2. CASE ~(inFlight[t] = "sell" /\ openPositions[t] = None)
    BY <2>2 DEF LedgerPosition
  <2>. QED
    BY <2>1, <2>2
<1>4. UNCHANGED LedgerPosition
  BY <1>3 DEF LedgerPosition
<1>. QED
  BY <1>1, <1>2, <1>4 DEF LedgerStep

\* Claiming a token is the ledger's first step; a refusal is none.
LEMMA ClaimantLedger ==
  ASSUME Sound, Sound', NEW th \in Threads,
         TryBeginBuy(th) \/ TryBeginSell(th) \/ BeginManualSell(th)
  PROVE  LedgerStep
<1> USE DEF Go, Return, memory, market
<1>0. /\ pc \in [Threads -> PcStates] /\ job \in [Threads -> Job \cup {None}]
      /\ pos \in [Threads -> Position \cup {None}]
      /\ openPositions \in [Tokens -> Position \cup {None}]
      /\ inFlight \in [Tokens -> {"none"} \cup Sides]
  BY DEF Sound, Typed, TypeOK
<1>1. job[th] \in Job /\ job[th].token \in Tokens
  BY DEF Sound, Typed, ThreadsCarry, CarriesJob, TryBeginBuy, TryBeginSell, BeginManualSell, Job
<1> PICK t \in Tokens : t = job[th].token
  BY <1>1
<1>2. /\ UNCHANGED <<openPositions, nextId>> /\ pc[th] \notin Owning
      /\ \A x \in Threads \ {th} : pc'[x] = pc[x] /\ job'[x] = job[x] /\ pos'[x] = pos[x]
  BY <1>0 DEF TryBeginBuy, TryBeginSell, BeginManualSell, Owning, BuyStates, SellStates
<1>3. CASE UNCHANGED inFlight /\ pc'[th] = "idle"
  BY <1>2, <1>3, AsideLedger DEF Owning, BuyStates, SellStates
<1>4. CASE /\ inFlight[t] = "none" /\ job'[th] = job[th]
           /\ \/ openPositions[t] = None /\ pc'[th] = "check"
                 /\ inFlight' = [inFlight EXCEPT ![t] = "buy"]
              \/ openPositions[t] # None /\ pc'[th] = "sell_get"
                 /\ inFlight' = [inFlight EXCEPT ![t] = "sell"]
  <2>1. TradesOnly(th, t)
    BY <1>0, <1>2, <1>4 DEF TradesOnly
  <2>2. UNCHANGED LedgerUsed
    BY <1>2, <1>4, UsedKept DEF BoughtStates, Owning, BuyStates
  <2>3. /\ LedgerPhase[t] = IF openPositions[t] = None THEN "flat" ELSE "open"
        /\ LedgerPosition[t] = openPositions[t]
        /\ \A ph : LedgerPhase'[t] = ph => LedgerPhase' = [LedgerPhase EXCEPT ![t] = ph]
        /\ LedgerPosition'[t] = LedgerPosition[t] => UNCHANGED LedgerPosition
    BY <1>4, <2>1, LedgerAt, LedgerShows DEF Sound
  <2>4. CASE openPositions[t] = None
    <3>1. inFlight'[t] = "buy" /\ openPositions'[t] = openPositions[t]
      BY <1>0, <1>2, <1>4, <2>4
    <3>2. Ledger!BeginBuy(t)
      BY <2>2, <2>3, <2>4, <3>1, LedgerShowsNext DEF Sound, Ledger!BeginBuy, Ledger!Move
    <3>. QED
      BY <3>2 DEF LedgerStep, Ledger!Next
  <2>5. CASE openPositions[t] # None
    <3>1. inFlight'[t] = "sell" /\ openPositions'[t] = openPositions[t]
      BY <1>0, <1>2, <1>4, <2>5
    <3>2. Ledger!BeginSell(t)
      BY <2>2, <2>3, <2>5, <3>1, LedgerShowsNext DEF Sound, Ledger!BeginSell, Ledger!Move
    <3>. QED
      BY <3>2 DEF LedgerStep, Ledger!Next
  <2>. QED
    BY <2>4, <2>5
<1>5. CASE TryBeginBuy(th)
  <2>1. CASE openPositions[t] = None /\ inFlight[t] = "none"
    BY <1>0, <1>4, <1>5, <2>1 DEF TryBeginBuy
  <2>2. CASE ~(openPositions[t] = None /\ inFlight[t] = "none")
    BY <1>0, <1>3, <1>5, <2>2 DEF TryBeginBuy
  <2>. QED
    BY <2>1, <2>2
<1>6. CASE TryBeginSell(th)
  <2>1. CASE openPositions[t] # None /\ inFlight[t] = "none"
    BY <1>0, <1>4, <1>6, <2>1 DEF TryBeginSell
  <2>2. CASE ~(openPositions[t] # None /\ inFlight[t] = "none")
    BY <1>0, <1>3, <1>6, <2>2 DEF TryBeginSell
  <2>. QED
    BY <2>1, <2>2
<1>7. CASE BeginManualSell(th)
  <2>1. pos[th] # None
    BY <1>7, NoneIsApart
       DEF BeginManualSell, Sound, Typed, ThreadsCarry, CarriesJob, CarryStates
  <2>2. CASE openPositions[t] = pos[th] /\ inFlight[t] = "none"
    BY <1>0, <1>4, <1>7, <2>1, <2>2 DEF BeginManualSell
  <2>3. CASE ~(openPositions[t] = pos[th] /\ inFlight[t] = "none")
    BY <1>0, <1>3, <1>7, <2>3 DEF BeginManualSell
  <2>. QED
    BY <2>2, <2>3
<1>. QED
  BY <1>5, <1>6, <1>7

LEMMA LedgerNext ==
  ASSUME Undisturbed, Sound, Sound', [Next]_vars
  PROVE  LedgerStep
<1> USE DEF memory, market, rows, thread, sync, persister
<1>0. pc \in [Threads -> PcStates] /\ Handlers \subseteq Threads /\ Consumer \in Threads
  BY DEF Sound, Typed, TypeOK, Threads
<1>1. ASSUME NEW th \in Threads, ThreadStep(th) PROVE LedgerStep
  <2>1. CASE pc[th] \in BuyStates
    BY <1>1, <2>1, BuyerLedger
  <2>2. CASE pc[th] \in SellStates
    BY <1>1, <2>2, SellerLedger
  <2>3. CASE pc[th] \notin Owning
    <3>1. \/ TryBeginBuy(th) \/ TryBeginSell(th) \/ BeginManualSell(th)
          \/ EnqueueFilledBuy(th) \/ EnqueueFilledSell(th)
      BY <1>1, <2>3 DEF ThreadStep, Owning, BuyStates, SellStates, RejectBuy, AcceptBuy,
         BuyFills, BuyFails, SaveBought, SavePosition, MarkOpenPosition, GetStored,
         GetStoredFails, TakePosition, SubmitSell, InsertCloseSignalFails, SellFills,
         SellFails, SaveRestored, RestoreOpenPosition, DeleteStored, DeleteStoredFails, FinishSell
    <3>2. CASE EnqueueFilledBuy(th) \/ EnqueueFilledSell(th)
      BY <1>0, <3>2, AsideLedger DEF EnqueueFilledBuy, EnqueueFilledSell, Go, Return, Sound,
         Typed, TypeOK, Owning, BuyStates, SellStates
    <3>. QED
      BY <3>1, <3>2, ClaimantLedger
  <2>. QED
    BY <2>1, <2>2, <2>3 DEF Owning
<1>2. ASSUME NEW id \in SignalIds, NEW side \in Sides, NEW t \in Tokens, ReceiveSignal(id, side, t)
      PROVE  LedgerStep
  BY <1>0, <1>2, AsideLedger
     DEF ReceiveSignal, Go, Sound, Typed, TypeOK, Owning, BuyStates, SellStates
<1>3. ASSUME NEW th \in Handlers, NEW j \in dbOrders, RetryOrder(th, j) PROVE LedgerStep
  BY <1>0, <1>3, AsideLedger
     DEF RetryOrder, Go, Sound, Typed, TypeOK, Owning, BuyStates, SellStates
<1>4. ASSUME NEW th \in Handlers, NEW p \in dbOpen, ClosePosition(th, p) PROVE LedgerStep
  BY <1>0, <1>4, AsideLedger
     DEF ClosePosition, Go, Sound, Typed, TypeOK, Owning, BuyStates, SellStates
<1>5. CASE \/ \E mode \in Modes : UpdateTradeMode(mode)
           \/ RunTask \/ FailTask \/ (\E task \in delayed : RequeueTask(task))
           \/ UNCHANGED vars
  <2>1. UNCHANGED <<openPositions, inFlight, nextId, pc, job, pos>>
    BY <1>5 DEF UpdateTradeMode, RunTask, FailTask, RequeueTask, vars
  <2>. QED
    BY <2>1, AsideLedger
<1>6. ~SyncStep /\ ~Restart
  BY
     DEF Undisturbed, Sound, Accounted, NoOtherWriter, SyncStep, SyncSnapshot, SyncPrice, SyncSave,
     SyncSaveFails, SyncWriteBack, Restart
<1>. QED
  BY <1>1, <1>2, <1>3, <1>4, <1>5, <1>6 DEF Next

LEMMA LedgerInit == Init => Ledger!Init
<1> SUFFICES ASSUME Init PROVE Ledger!Init
  OBVIOUS
<1>1. LedgerPhase = [t \in Tokens |-> "flat"]
  BY DEF Init, LedgerPhase
<1>2. LedgerPosition = [t \in Tokens |-> None]
  BY DEF Init, LedgerPosition
<1>3. LedgerUsed = {}
  BY DEF Init, LedgerUsed
<1>. QED
  BY <1>1, <1>2, <1>3 DEF Ledger!Init

\* Each token runs through flat, buying, open, selling and back as the ledger
\* says: a failed trade restores what was there, a purchase opens a position
\* that was never open before (tryBegin*, markOpenPosition, restoreOpenPosition
\* and the ends of handleBuySignal, handleSellSignal and closePosition).
THEOREM RuntimeImplementsLedger == Undisturbed /\ Spec => ImplementsLedger
<1>1. CASE Undisturbed
  <2>1. Sound /\ Sound' /\ [Next]_vars => [Ledger!Next]_<<LedgerPhase, LedgerPosition, LedgerUsed>>
    BY <1>1, LedgerNext DEF LedgerStep
  <2>2. Spec => []Typed
    BY TypedInit, TypedNext, PTL DEF Spec
  <2>3. Typed /\ IdsIssuedOnce /\ [Next]_vars => IdsIssuedOnce'
    BY IdsNext
  <2>4. Spec => []IdsIssuedOnce
    BY <2>2, <2>3, IdsInit, PTL DEF Spec
  <2>5. Spec => []Accounted
    BY <1>1, EverythingAccounted
  <2>6. Typed /\ InFlightExclusive /\ Accounted /\ IdsIssuedOnce => Sound
    BY DEF Sound
  <2>7. Spec => []Sound
    BY <2>2, <2>4, <2>5, <2>6, TokensAreExclusive, PTL
  <2>. QED
    BY <2>1, <2>7, LedgerInit, PTL DEF Spec, ImplementsLedger, Ledger!Spec, Ledger!ledger
<1>. QED
  BY <1>1

=============================================================================

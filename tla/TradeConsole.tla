----------------------------- MODULE TradeConsole -----------------------------
(***************************************************************************)
(* The controls of the trade dashboard: the trade mode, the two switches   *)
(* and the amount of a purchase, each with a confirmation where the code   *)
(* asks for one, the closing of a position by hand, and the table of the   *)
(* positions.  The configuration is kept three times: in the backend, in   *)
(* the store (runtime) and in the controls (shown); what follows brings    *)
(* them together.                                                          *)
(*                                                                         *)
(* The dashboard loads that end a change of the mode and the closing of a  *)
(* position are in TradeStream, what the backend sells in TradeService.    *)
(***************************************************************************)
EXTENDS TradeTables

CONSTANTS
  Amounts,        \* amounts in dollars the user types, 0 for an empty field
  Lists,          \* contents the position list takes
  Instants,       \* seconds at which the page looks at the clock
  MaxUpdates,     \* bound: updates in flight at once
  MaxClicks,      \* bound: operations of the user
  MaxOthers       \* bound: updates of other clients

\* A row of the list has an id, and a position was opened at a time and at a cost.
IsRow(row) ==
  /\ row.id # None
  /\ {row.openedAt, row.costAmount} \subseteq Nat \ {0}
  /\ {row.closedAt, row.quantity, row.marketValue} \subseteq Nat
  /\ {row.realizedPnl, row.unrealizedPnl} \subseteq Int

ASSUME TradeConsoleAssumption ==
  /\ Amounts \subseteq Nat
  /\ MaxUpdates \in Nat \ {0}
  /\ Instants \subseteq Nat /\ Instants # {}
  /\ \A items \in Lists : items \in Seq(ToSet(items)) /\ \A row \in ToSet(items) : IsRow(row)

Modes == {"paper", "live"}
Config == [mode : Modes, amount : Nat \ {0}, ca : BOOLEAN, exec : BOOLEAN]

VARIABLES
  config,         \* the backend: trade mode, account and runtime switches
  runtime,        \* store.tradeRuntime
  shown,          \* tradeRuntimeMode, tradeBuyAmountUsd and the two switches
  edited,         \* the amount was typed and not saved
  updating,       \* runtimeUpdating
  updates,        \* PUT requests in flight
  startup,        \* the two requests of onMounted
  dialog,         \* the confirmation on display
  closing,        \* closingPositionID
  closes,         \* positions whose closing is in flight
  positions,      \* tradePositions
  now,            \* relativeNow
  stale,          \* the store may lag behind the backend (see ControlsFollowServer)
  clicks, others

vars == <<config, runtime, shown, edited, updating, updates, startup, dialog,
          closing, closes, positions, now, stale, clicks, others>>

storeVars == <<runtime, shown, edited, updating>>
closeVars == <<closing, closes>>
tableVars == <<positions, now>>

-----------------------------------------------------------------------------
(* Updates in flight.                                                      *)

NoUpdate == [phase |-> "none"]
Slots == 1..MaxUpdates
InFlight == {s \in Slots : updates[s] # NoUpdate}
Free == CHOOSE s \in Slots \ InFlight : TRUE

\* updateRuntimeConfig up to its await.
Send(field, value) ==
  /\ InFlight # Slots
  /\ updates' = [updates EXCEPT ![Free] =
       [phase |-> "sent", field |-> field, value |-> value, mode |-> "paper",
        answer |-> config]]
  /\ updating' = TRUE

\* The store's and the controls' first values.
Default == [mode |-> "paper", amount |-> 10, ca |-> FALSE, exec |-> FALSE]

NoDialog == [of |-> "none"]

Init ==
  /\ \E mode \in Modes, on \in BOOLEAN :
       config = [Default EXCEPT !.mode = mode, !.exec = on]
  /\ runtime = Default
  /\ shown = Default
  /\ edited = FALSE
  /\ updating = FALSE
  /\ updates = [s \in Slots |-> NoUpdate]
  /\ startup = [methods |-> "sent", runtime |-> "sent", value |-> config]
  /\ dialog = NoDialog
  /\ closing = None /\ closes = {}
  /\ positions = <<>> /\ now = Min(Instants)
  /\ stale = FALSE
  /\ clicks = 0 /\ others = 0

-----------------------------------------------------------------------------
(* The backend.                                                            *)

\* updateTradeRuntime sets or reads the mode,
Begin(s) ==
  /\ updates[s].phase = "sent"
  /\ config' = IF updates[s].field = "mode"
               THEN [config EXCEPT !.mode = updates[s].value] ELSE config
  /\ updates' = [updates EXCEPT ![s].phase = "begun", ![s].mode = config'.mode]
  /\ UNCHANGED <<storeVars, startup, dialog, closeVars, tableVars, stale,
                 clicks, others>>

\* then the amount and the switches, and answers with all four.
Finish(s) ==
  /\ updates[s].phase = "begun"
  /\ config' = IF updates[s].field = "mode" THEN config
               ELSE [config EXCEPT ![updates[s].field] = updates[s].value]
  /\ updates' = [updates EXCEPT ![s].phase = "done",
                                ![s].answer = [config' EXCEPT !.mode = updates[s].mode]]
  /\ UNCHANGED <<storeVars, startup, dialog, closeVars, tableVars, stale,
                 clicks, others>>

\* Another client changes a field.
OtherClient(new) ==
  /\ others < MaxOthers
  /\ others' = others + 1
  /\ new # config
  /\ \E field \in DOMAIN config : new = [config EXCEPT ![field] = new[field]]
  /\ config' = new
  /\ stale' = TRUE
  /\ UNCHANGED <<storeVars, updates, startup, dialog, closeVars, tableVars, clicks>>

-----------------------------------------------------------------------------
(* onMounted: the methods and the configuration are asked for together and *)
(* the controls are set once both are there; if one fails they stay.       *)

Started(st) == st.methods = "done" /\ st.runtime = "done"

SetControls(st, new) ==
  IF Started(st) THEN shown' = new /\ edited' = FALSE ELSE UNCHANGED <<shown, edited>>

StartupRead ==
  /\ startup.runtime = "sent"
  /\ startup' = [startup EXCEPT !.runtime = "read", !.value = config]
  /\ UNCHANGED <<config, storeVars, updates, dialog, closeVars, tableVars, stale,
                 clicks, others>>

\* loadTradeRuntime.  An answer that an update of the user has overtaken takes
\* the store back to what the backend held before.
loadTradeRuntime ==
  /\ startup.runtime = "read"
  /\ startup' = [startup EXCEPT !.runtime = "done"]
  /\ runtime' = startup.value
  /\ SetControls(startup', runtime')
  /\ stale' = (stale \/ startup.value # config)
  /\ UNCHANGED <<config, updating, updates, dialog, closeVars, tableVars, clicks, others>>

MethodsAnswered ==
  /\ startup.methods = "sent"
  /\ startup' = [startup EXCEPT !.methods = "done"]
  /\ SetControls(startup', runtime)
  /\ UNCHANGED <<config, runtime, updating, updates, dialog, closeVars, tableVars,
                 stale, clicks, others>>

StartupFails ==
  /\ \/ startup.methods = "sent" /\ startup' = [startup EXCEPT !.methods = "failed"]
     \/ startup.runtime \in {"sent", "read"}
        /\ startup' = [startup EXCEPT !.runtime = "failed"]
  /\ UNCHANGED <<config, storeVars, updates, dialog, closeVars, tableVars, stale,
                 clicks, others>>

-----------------------------------------------------------------------------
(* The controls.  A dialog is modal, and the controls are disabled while   *)
(* an update is in flight.                                                 *)

\* Variant: the controls stay enabled while an update is in flight.
ClickAlways ==
  /\ clicks < MaxClicks
  /\ clicks' = clicks + 1
  /\ dialog = NoDialog

Click ==
  /\ clicks < MaxClicks
  /\ clicks' = clicks + 1
  /\ dialog = NoDialog
  /\ ~updating

\* The segmented control takes the new value before the handler runs; only the
\* real mode is confirmed.
handleTradeModeChange(value) ==
  /\ Click
  /\ value # shown.mode
  /\ shown' = [shown EXCEPT !.mode = value]
  /\ IF value = runtime.mode THEN UNCHANGED <<dialog, updates, updating>>
     ELSE IF value = "live"
     THEN dialog' = [of |-> "mode", value |-> value] /\ UNCHANGED <<updates, updating>>
     ELSE Send("mode", value) /\ UNCHANGED dialog
  /\ UNCHANGED <<config, runtime, edited, startup, closeVars, tableVars, stale, others>>

\* handleCAMonitoringChange and handleTradeExecutionChange: a switch shows its
\* variable, so it moves only when the variable does; off is confirmed.
handleSwitch(field) ==
  /\ Click
  /\ IF shown[field]
     THEN dialog' = [of |-> field, value |-> FALSE] /\ UNCHANGED <<updates, updating>>
     ELSE Send(field, TRUE) /\ UNCHANGED dialog
  /\ UNCHANGED <<config, runtime, shown, edited, startup, closeVars, tableVars,
                 stale, others>>

EditAmount(amount) ==
  /\ Click
  /\ amount # shown.amount
  /\ shown' = [shown EXCEPT !.amount = amount]
  /\ edited' = TRUE
  /\ UNCHANGED <<config, runtime, updating, updates, startup, dialog, closeVars,
                 tableVars, stale, others>>

\* Variant: any amount in the field is sent.
SaveAnyAmount ==
  /\ Click
  /\ Send("amount", shown.amount)
  /\ UNCHANGED <<config, runtime, shown, edited, startup, dialog, closeVars,
                 tableVars, stale, others>>

handleBuyAmountSave ==
  /\ Click
  /\ shown.amount > 0
  /\ Send("amount", shown.amount)
  /\ UNCHANGED <<config, runtime, shown, edited, startup, dialog, closeVars,
                 tableVars, stale, others>>

\* Once an update has ended the control takes what the store has.
Reset(field, new) ==
  /\ shown' = [shown EXCEPT ![field] = new[field]]
  /\ edited' = (edited /\ field # "amount")

Cancel ==
  /\ dialog # NoDialog
  /\ dialog' = NoDialog
  /\ IF dialog.of = "close" THEN UNCHANGED <<shown, edited>>
                            ELSE Reset(dialog.of, runtime)
  /\ UNCHANGED <<config, runtime, updating, updates, startup, closeVars, tableVars,
                 stale, clicks, others>>

Confirm ==
  /\ dialog \notin {NoDialog} /\ dialog.of # "close"
  /\ dialog' = NoDialog
  /\ Send(dialog.of, dialog.value)
  /\ UNCHANGED <<config, runtime, shown, edited, startup, closeVars, tableVars,
                 stale, clicks, others>>

\* Variant: only the field that was changed is taken from the answer.
SetField(s) == [runtime EXCEPT ![updates[s].field] = shown[updates[s].field]]

\* The configuration of the answer takes the place of the store's.
Answer(s) == updates[s].answer

UpdateAnswered(s) ==
  /\ updates[s].phase = "done"
  /\ runtime' = Answer(s)
  /\ Reset(updates[s].field, runtime')
  /\ updating' = FALSE
  /\ updates' = [updates EXCEPT ![s] = NoUpdate]
  /\ UNCHANGED <<config, startup, dialog, closeVars, tableVars, stale, clicks, others>>

\* The backend refuses an update it has not begun to carry out.
Refused(s) == updates[s].phase = "sent"
              \/ (updates[s].phase = "begun" /\ updates[s].field # "mode")

\* An update fails; if its answer is lost or late, it may yet have been made.
UpdateFailed(s) ==
  /\ s \in InFlight
  /\ Reset(updates[s].field, runtime)
  /\ updating' = FALSE
  /\ updates' = [updates EXCEPT ![s] = NoUpdate]
  /\ stale' \in (IF Refused(s) THEN {stale, TRUE} ELSE {TRUE})
  /\ UNCHANGED <<config, runtime, startup, dialog, closeVars, tableVars, clicks, others>>

-----------------------------------------------------------------------------
(* Positions.                                                              *)

\* The close buttons are disabled while one position is being closed.
ClickClose(row) ==
  /\ clicks < MaxClicks
  /\ clicks' = clicks + 1
  /\ dialog = NoDialog
  /\ row.status = "open"
  /\ closing = None
  /\ dialog' = [of |-> "close", value |-> row.id]
  /\ UNCHANGED <<config, storeVars, updates, startup, closeVars, tableVars, stale, others>>

handleClosePosition ==
  /\ dialog.of = "close"
  /\ dialog' = NoDialog
  /\ closing' = dialog.value
  /\ closes' = closes \cup {dialog.value}
  /\ UNCHANGED <<config, storeVars, updates, startup, tableVars, stale, clicks, others>>

\* The command and the load that follows it are answered, or one of them fails.
CloseEnded(id) ==
  /\ id \in closes
  /\ closes' = closes \ {id}
  /\ closing' = None
  /\ UNCHANGED <<config, storeVars, updates, startup, dialog, tableVars, stale,
                 clicks, others>>

PositionsChange(items) ==
  /\ items # positions
  /\ positions' = items
  /\ UNCHANGED <<config, storeVars, updates, startup, dialog, closeVars, now, stale,
                 clicks, others>>

\* Every second, or later if the browser holds the timer back.
Tick(time) ==
  /\ time > now
  /\ now' = time
  /\ UNCHANGED <<config, storeVars, updates, startup, dialog, closeVars, positions,
                 stale, clicks, others>>

-----------------------------------------------------------------------------
Configs == [mode : Modes, amount : Amounts \ {0}, ca : BOOLEAN, exec : BOOLEAN]

Backend ==
  \/ \E s \in Slots : Begin(s) \/ Finish(s)
  \/ \E new \in Configs : OtherClient(new)
  \/ StartupRead

User ==
  \/ \E value \in Modes : handleTradeModeChange(value)
  \/ \E field \in {"ca", "exec"} : handleSwitch(field)
  \/ \E amount \in Amounts : EditAmount(amount)
  \/ handleBuyAmountSave
  \/ \E row \in ToSet(positions) : ClickClose(row)
  \/ Cancel \/ Confirm \/ handleClosePosition

Page ==
  \/ loadTradeRuntime \/ MethodsAnswered \/ StartupFails
  \/ \E s \in Slots : UpdateAnswered(s) \/ UpdateFailed(s)
  \/ \E id \in closes : CloseEnded(id)
  \/ \E items \in Lists : PositionsChange(items)
  \/ \E time \in Instants : Tick(time)

Next == Backend \/ User \/ Page

Spec == Init /\ [][Next]_vars

-----------------------------------------------------------------------------
(* Properties.                                                             *)

\* The values a field takes.
Fits(field, value) ==
  CASE field = "mode" -> value \in Modes
    [] field = "amount" -> value \in Nat \ {0}
    [] field \in {"ca", "exec"} -> value \in BOOLEAN

\* The variables keep their shapes: above all, an amount of 0 never leaves the
\* input field, and a switch is never mistaken for a mode.
TypeOK ==
  /\ config \in Config /\ runtime \in Config
  /\ shown \in [mode : Modes, amount : Nat, ca : BOOLEAN, exec : BOOLEAN]
  /\ {edited, updating, stale} \subseteq BOOLEAN
  /\ DOMAIN updates = Slots
  /\ \A s \in InFlight : /\ updates[s].phase \in {"sent", "begun", "done"}
                         /\ Fits(updates[s].field, updates[s].value)
                         /\ updates[s].mode \in Modes /\ updates[s].answer \in Config
  /\ dialog.of \in {"none", "mode", "ca", "exec", "close"}

\* At most one update and one closing are in flight: the flag that disables the
\* controls, the mark that disables the close buttons and the modal dialogs
\* together let no second one through, whenever it was begun.
CommandsAreSerial ==
  /\ \A s, t \in InFlight : s = t
  /\ updating <=> InFlight # {}
  /\ dialog.of \in {"mode", "ca", "exec"} => ~updating
  /\ closes = IF closing = None THEN {} ELSE {closing}
  /\ dialog.of = "close" => closing = None

\* When nothing is in flight and no question open, store and controls show what
\* the backend holds (but for an amount being typed), unless another client
\* has changed it, the answer of an update was lost, or the load of the start
\* was overtaken by an update.
ControlsFollowServer ==
  (Started(startup) /\ InFlight = {} /\ dialog.of \in {"none", "close"} /\ ~stale) =>
    /\ runtime = config
    /\ shown = [config EXCEPT !.amount = IF edited THEN shown.amount ELSE @]

\* A text stands for a number of seconds, of which it leaves out less than this.
IsTextOf(text, seconds, precision) ==
  /\ text.h < 24 /\ text.m < 60 /\ text.s < 60
  /\ SecondsOf(text) <= seconds /\ seconds < SecondsOf(text) + precision

\* Ages and durations can be read back to the precision they are shown with,
\* and no part overflows into the next.
TimesReadBack ==
  \A row \in ToSet(positions) :
    LET held  == formatHoldingDuration(row.openedAt, row.closedAt, now)
        end   == IF row.closedAt = 0 THEN now ELSE row.closedAt
        short == formatRelativeTime(row.openedAt, now)
        age   == AtLeast(now - row.openedAt, 0)
    IN /\ IsTextOf(held, AtLeast(end - row.openedAt, 0), IF held.d > 0 THEN Minute ELSE 1)
       /\ IsTextOf(formatCompactRelativeTime(row.openedAt, now), age,
                   IF age < Minute THEN 1 ELSE Minute)
       /\ IsTextOf(short, age, IF short.d > 0 THEN Day ELSE IF short.h > 0 THEN Hour
                               ELSE IF short.m > 0 THEN Minute ELSE 1)

\* Amounts can be read back to half of their last digit, compact ones to a
\* thousand above a million.
AmountsReadBack ==
  \A row \in ToSet(positions) :
    LET cap  == formatMarketCap(row.costAmount)
        text == formatCompactTokenAmount(row.quantity)
        read == text.millions * 1000000 + text.thousands * 1000
                  + text.tenths * 100 + text.ones
    IN /\ 2 * Abs(cap.hundredths * cap.unit - row.costAmount) <= cap.unit
       /\ Abs(read - row.quantity)
            <= (IF text.millions > 0 /\ text.thousands > 0 THEN 999
                ELSE IF text.thousands > 0 THEN 500 ELSE IF text.tenths > 0 THEN 50
                ELSE IF text.millions > 0 THEN 50 ELSE 0)

\* The strip shows the sums of the rows that are open, whatever is not known of
\* them, and the bar under a row has the colour of its profit.
TotalsMatchRows ==
  LET total(values) == SumOf([i \in DOMAIN positions |->
                                IF positions[i].status = "open" THEN values[i] ELSE 0])
      strip == summarizeOpenPositions(positions)
  IN /\ strip.totalPnl = total([i \in DOMAIN positions |-> positionTotalPnl(positions[i])])
     /\ strip.marketValue
          = total([i \in DOMAIN positions |-> positionDisplayMarketValue(positions[i])])
     /\ \A row \in ToSet(positions) :
          (positionPnlBarStyle(row).color = "red") <=> (positionTotalPnl(row) < 0)

\* What the table says of the positions agrees with them.
TablesReadBack == TimesReadBack /\ AmountsReadBack /\ TotalsMatchRows
=============================================================================

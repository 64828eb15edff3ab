------------------------- MODULE TradeConsoleProofs -------------------------
(***************************************************************************)
(* Proofs about TradeConsole, for any number of slots, clicks and clients: *)
(* the page sends one update and one closing at a time, the variables keep *)
(* their types, and once all is answered the store and the controls show   *)
(* what the backend holds.  Between the two ends of an update the invariant *)
(* says, field by field, how far the backend, the answer, the store and the *)
(* controls have come.  The texts and the totals of the table are shown to *)
(* be right for any rows.                                                  *)
(***************************************************************************)
EXTENDS TradeConsole, OrderingProofs

\* The shapes the argument needs: an update has a phase, a question asks about
\* a field or about a position that has an id.
ShapeInv ==
  /\ DOMAIN updates = Slots
  /\ \A s \in Slots : "phase" \in DOMAIN updates[s]
  /\ dialog.of \in {"none", "mode", "ca", "exec", "close"}
  /\ dialog.of = "none" => dialog = NoDialog
  /\ dialog.of = "close" => dialog.value # None
  /\ positions \in Lists \cup {<<>>}

SerialInv == ShapeInv /\ CommandsAreSerial

-----------------------------------------------------------------------------
(* What the parts of a step do to the updates in flight.                   *)

\* An update that is sent while none is in flight is the only one.
LEMMA SendIsAlone ==
  ASSUME SerialInv, NEW field, NEW value, Send(field, value), InFlight = {}
  PROVE  /\ DOMAIN updates' = Slots
         /\ \A s \in Slots : "phase" \in DOMAIN updates'[s]
         /\ \A s, t \in InFlight' : s = t
         /\ InFlight' # {} /\ updating' = TRUE
<1> DEFINE sent == [phase |-> "sent", field |-> field, value |-> value,
                    mode |-> "paper", answer |-> config]
<1>1. updates' = [updates EXCEPT ![Free] = sent] /\ updating' = TRUE /\ InFlight # Slots
  BY DEF Send
<1>2. Free \in Slots
  BY <1>1 DEF Free
<1>3. sent # NoUpdate /\ "phase" \in DOMAIN sent
  BY DEF NoUpdate
<1> HIDE DEF sent
<1>4. /\ DOMAIN updates' = Slots
      /\ \A s \in Slots : updates'[s] = IF s = Free THEN sent ELSE updates[s]
  BY <1>1, <1>2 DEF SerialInv, ShapeInv
<1>5. \A s \in Slots : updates[s] = NoUpdate
  BY DEF InFlight
<1>6. InFlight' = {Free}
  BY <1>2, <1>3, <1>4, <1>5 DEF InFlight
<1> QED BY <1>1, <1>3, <1>4, <1>6 DEF SerialInv, ShapeInv

\* The backend carries an update on: it stays the one in flight.
LEMMA WorkKeepsInFlight ==
  ASSUME SerialInv, NEW s \in Slots, Begin(s) \/ Finish(s)
  PROVE  /\ DOMAIN updates' = Slots
         /\ \A t \in Slots : "phase" \in DOMAIN updates'[t]
         /\ InFlight' = InFlight
<1>1. updates[s].phase # "none" /\ DOMAIN updates = Slots
      /\ "phase" \in DOMAIN updates[s]
  BY DEF Begin, Finish, SerialInv, ShapeInv
<1>2. /\ DOMAIN updates' = DOMAIN updates
      /\ \A t \in Slots : t # s => updates'[t] = updates[t]
      /\ "phase" \in DOMAIN updates'[s] /\ updates'[s].phase # "none"
  <2>1. CASE Begin(s)
    <3>1. PICK value : updates' = [updates EXCEPT ![s].phase = "begun", ![s].mode = value]
      BY <2>1 DEF Begin
    <3>2. DOMAIN updates' = DOMAIN updates
      BY <3>1
    <3>3. \A t \in Slots : t # s => updates'[t] = updates[t]
      BY <1>1, <3>1
    <3>4. updates'[s] = [[updates[s] EXCEPT !.phase = "begun"] EXCEPT !.mode = value]
      BY <1>1, <3>1
    <3>5. "phase" \in DOMAIN updates'[s] /\ updates'[s].phase = "begun"
      BY <1>1, <3>4
    <3> QED BY <3>2, <3>3, <3>5
  <2>2. CASE Finish(s)
    <3>1. PICK value : updates' = [updates EXCEPT ![s].phase = "done", ![s].answer = value]
      BY <2>2 DEF Finish
    <3>2. DOMAIN updates' = DOMAIN updates
      BY <3>1
    <3>3. \A t \in Slots : t # s => updates'[t] = updates[t]
      BY <1>1, <3>1
    <3>4. updates'[s] = [[updates[s] EXCEPT !.phase = "done"] EXCEPT !.answer = value]
      BY <1>1, <3>1
    <3>5. "phase" \in DOMAIN updates'[s] /\ updates'[s].phase = "done"
      BY <1>1, <3>4
    <3> QED BY <3>2, <3>3, <3>5
  <2> QED BY <2>1, <2>2
<1>3. updates[s] # NoUpdate /\ updates'[s] # NoUpdate
  BY <1>1, <1>2 DEF NoUpdate
<1> QED BY <1>1, <1>2, <1>3 DEF InFlight, SerialInv, ShapeInv

\* An update that ends leaves none in flight.
LEMMA EndLeavesNone ==
  ASSUME SerialInv, NEW s \in InFlight,
         updates' = [updates EXCEPT ![s] = NoUpdate]
  PROVE  /\ DOMAIN updates' = Slots
         /\ \A t \in Slots : "phase" \in DOMAIN updates'[t]
         /\ InFlight' = {}
<1>1. s \in Slots /\ \A t \in Slots : t # s => updates[t] = NoUpdate
  BY DEF SerialInv, CommandsAreSerial, InFlight
<1>2. \A t \in Slots : updates'[t] = NoUpdate
  BY <1>1 DEF SerialInv, ShapeInv
<1>3. "phase" \in DOMAIN NoUpdate
  BY DEF NoUpdate
<1> QED BY <1>1, <1>2, <1>3 DEF InFlight, SerialInv, ShapeInv

\* A step that leaves updates, questions and closings alone.
LEMMA NothingSent ==
  ASSUME SerialInv,
         UNCHANGED <<updates, updating, dialog, closing, closes, positions>>
  PROVE  SerialInv'
BY DEF SerialInv, ShapeInv, CommandsAreSerial, InFlight

\* A question is opened, answered or dropped while no update is in flight.
LEMMA QuestionChanges ==
  ASSUME SerialInv, UNCHANGED <<updates, updating, closing, closes, positions>>,
         \/ dialog' = NoDialog
         \/ ~updating /\ \E field \in {"mode", "ca", "exec"} : \E value :
              dialog' = [of |-> field, value |-> value]
         \/ closing = None /\ \E id : id # None /\ dialog' = [of |-> "close", value |-> id]
  PROVE  SerialInv'
<1>1. InFlight' = InFlight
  BY DEF InFlight
<1>2. CASE dialog' = NoDialog
  BY <1>1, <1>2 DEF SerialInv, ShapeInv, CommandsAreSerial, NoDialog
<1>3. CASE ~updating /\ \E field \in {"mode", "ca", "exec"} : \E value :
             dialog' = [of |-> field, value |-> value]
  BY <1>1, <1>3 DEF SerialInv, ShapeInv, CommandsAreSerial
<1>4. CASE closing = None /\ \E id : id # None /\ dialog' = [of |-> "close", value |-> id]
  BY <1>1, <1>4 DEF SerialInv, ShapeInv, CommandsAreSerial
<1> QED BY <1>2, <1>3, <1>4

\* An update is sent while none is in flight, and no question stays open.
LEMMA UpdateSent ==
  ASSUME SerialInv, NEW field, NEW value, Send(field, value), ~updating,
         dialog' = NoDialog, UNCHANGED <<closing, closes, positions>>
  PROVE  SerialInv'
<1>1. InFlight = {}
  BY DEF SerialInv, CommandsAreSerial
<1> QED BY <1>1, SendIsAlone DEF SerialInv, ShapeInv, CommandsAreSerial, NoDialog

-----------------------------------------------------------------------------
(* The handlers.                                                           *)

LEMMA BackendKeepsSerial ==
  ASSUME SerialInv, Backend
  PROVE  SerialInv'
<1>1. CASE \E s \in Slots : Begin(s) \/ Finish(s)
  <2>1. PICK s \in Slots : Begin(s) \/ Finish(s)
    BY <1>1
  <2>2. UNCHANGED <<updating, dialog, closing, closes, positions>>
    BY <2>1 DEF Begin, Finish, storeVars, closeVars, tableVars
  <2> QED BY <2>1, <2>2, WorkKeepsInFlight DEF SerialInv, ShapeInv, CommandsAreSerial
<1>2. CASE \E new \in Configs : OtherClient(new)
  BY <1>2, NothingSent DEF OtherClient, storeVars, closeVars, tableVars
<1>3. CASE StartupRead
  BY <1>3, NothingSent DEF StartupRead, storeVars, closeVars, tableVars
<1> QED BY <1>1, <1>2, <1>3 DEF Backend

LEMMA ModeKeepsSerial ==
  ASSUME SerialInv, NEW value \in Modes, handleTradeModeChange(value)
  PROVE  SerialInv'
<1>1. dialog = NoDialog /\ ~updating /\ UNCHANGED <<closing, closes, positions>>
  BY DEF handleTradeModeChange, Click, closeVars, tableVars
<1>2. CASE value = runtime.mode
  BY <1>1, <1>2, NothingSent DEF handleTradeModeChange
<1>3. CASE value # runtime.mode /\ value = "live"
  BY <1>1, <1>3, QuestionChanges DEF handleTradeModeChange
<1>4. CASE value # runtime.mode /\ value # "live"
  BY <1>1, <1>4, UpdateSent DEF handleTradeModeChange
<1> QED BY <1>2, <1>3, <1>4

LEMMA SwitchKeepsSerial ==
  ASSUME SerialInv, NEW field \in {"ca", "exec"}, handleSwitch(field)
  PROVE  SerialInv'
<1>1. dialog = NoDialog /\ ~updating /\ UNCHANGED <<closing, closes, positions>>
  BY DEF handleSwitch, Click, closeVars, tableVars
<1>2. CASE shown[field]
  BY <1>1, <1>2, QuestionChanges DEF handleSwitch
<1>3. CASE ~shown[field]
  BY <1>1, <1>3, UpdateSent DEF handleSwitch
<1> QED BY <1>2, <1>3

LEMMA AmountKeepsSerial ==
  ASSUME SerialInv, handleBuyAmountSave \/ \E amount \in Amounts : EditAmount(amount)
  PROVE  SerialInv'
<1>1. CASE handleBuyAmountSave
  BY <1>1, UpdateSent DEF handleBuyAmountSave, Click, closeVars, tableVars
<1>2. CASE \E amount \in Amounts : EditAmount(amount)
  BY <1>2, NothingSent DEF EditAmount, closeVars, tableVars
<1> QED BY <1>1, <1>2

\* The question of an update was asked while none was in flight, and the
\* controls it blocks have sent none since.
LEMMA AnswerKeepsSerial ==
  ASSUME SerialInv, Cancel \/ Confirm
  PROVE  SerialInv'
<1>1. CASE Cancel
  BY <1>1, QuestionChanges DEF Cancel, closeVars, tableVars
<1>2. CASE Confirm
  <2>1. dialog.of \in {"mode", "ca", "exec"}
    BY <1>2 DEF Confirm, SerialInv, ShapeInv
  <2>2. ~updating
    BY <2>1 DEF SerialInv, CommandsAreSerial
  <2> QED BY <1>2, <2>2, UpdateSent DEF Confirm, closeVars, tableVars
<1> QED BY <1>1, <1>2

\* A position may be closed once its question has been asked, and a question
\* is asked only while none is being closed.
LEMMA CloseKeepsSerial ==
  ASSUME SerialInv,
         \/ \E row \in ToSet(positions) : ClickClose(row)
         \/ handleClosePosition
         \/ \E id \in closes : CloseEnded(id)
  PROVE  SerialInv'
<1>1. CASE \E row \in ToSet(positions) : ClickClose(row)
  <2>1. PICK row \in ToSet(positions) : ClickClose(row)
    BY <1>1
  <2>2. PICK i \in DOMAIN positions : row = positions[i]
    BY <2>1 DEF ToSet
  <2>3. positions \in Lists
    <3>1. positions # <<>>
      BY <2>2
    <3> QED BY <3>1 DEF SerialInv, ShapeInv
  <2>4. row.id # None
    BY <2>1, <2>3, TradeConsoleAssumption DEF IsRow
  <2>5. /\ UNCHANGED <<updates, updating, closing, closes, positions>>
        /\ closing = None /\ dialog' = [of |-> "close", value |-> row.id]
    BY <2>1 DEF ClickClose, storeVars, closeVars, tableVars
  <2> QED BY <2>4, <2>5, QuestionChanges
<1>2. CASE handleClosePosition
  <2>1. /\ UNCHANGED <<updates, updating, positions>>
        /\ dialog.of = "close" /\ dialog' = NoDialog
        /\ closing' = dialog.value /\ closes' = closes \cup {dialog.value}
    BY <1>2 DEF handleClosePosition, storeVars, tableVars
  <2>2. closes' = {dialog.value} /\ dialog.value # None
    BY <2>1 DEF SerialInv, ShapeInv, CommandsAreSerial
  <2> QED BY <2>1, <2>2 DEF SerialInv, ShapeInv, CommandsAreSerial, InFlight, NoDialog
<1>3. CASE \E id \in closes : CloseEnded(id)
  <2>1. PICK id \in closes : CloseEnded(id)
    BY <1>3
  <2>2. /\ UNCHANGED <<updates, updating, dialog, positions>>
        /\ closes' = closes \ {id} /\ closing' = None
    BY <2>1 DEF CloseEnded, storeVars, tableVars
  <2>3. closes' = {}
    BY <2>1, <2>2 DEF SerialInv, CommandsAreSerial
  <2> QED BY <2>2, <2>3 DEF SerialInv, ShapeInv, CommandsAreSerial, InFlight
<1> QED BY <1>1, <1>2, <1>3

LEMMA UpdateEndKeepsSerial ==
  ASSUME SerialInv, NEW s \in Slots, UpdateAnswered(s) \/ UpdateFailed(s)
  PROVE  SerialInv'
<1>1. s \in InFlight
  <2>1. CASE UpdateAnswered(s)
    BY <2>1 DEF UpdateAnswered, InFlight, NoUpdate
  <2> QED BY <2>1 DEF UpdateFailed
<1>2. /\ updates' = [updates EXCEPT ![s] = NoUpdate] /\ updating' = FALSE
      /\ UNCHANGED <<dialog, closing, closes, positions>>
  BY DEF UpdateAnswered, UpdateFailed, closeVars, tableVars
<1> QED BY <1>1, <1>2, EndLeavesNone DEF SerialInv, ShapeInv, CommandsAreSerial

LEMMA PageKeepsSerial ==
  ASSUME SerialInv, Page
  PROVE  SerialInv'
<1>1. CASE loadTradeRuntime \/ MethodsAnswered \/ StartupFails
  BY <1>1, NothingSent
     DEF loadTradeRuntime, MethodsAnswered, StartupFails, storeVars, closeVars, tableVars
<1>2. CASE \E s \in Slots : UpdateAnswered(s) \/ UpdateFailed(s)
  BY <1>2, UpdateEndKeepsSerial
<1>3. CASE \E id \in closes : CloseEnded(id)
  BY <1>3, CloseKeepsSerial
<1>4. CASE \E items \in Lists : PositionsChange(items)
  BY <1>4 DEF PositionsChange, SerialInv, ShapeInv, CommandsAreSerial, InFlight,
              storeVars, closeVars
<1>5. CASE \E time \in Instants : Tick(time)
  BY <1>5, NothingSent DEF Tick, storeVars, closeVars
<1> QED BY <1>1, <1>2, <1>3, <1>4, <1>5 DEF Page

-----------------------------------------------------------------------------
LEMMA SerialInit ==
  ASSUME Init
  PROVE  SerialInv
<1>1. DOMAIN updates = Slots /\ \A s \in Slots : updates[s] = NoUpdate
  BY DEF Init
<1>2. InFlight = {}
  BY <1>1 DEF InFlight
<1>3. "phase" \in DOMAIN NoUpdate
  BY DEF NoUpdate
<1>4. /\ dialog = NoDialog /\ closing = None /\ closes = {} /\ positions = <<>>
      /\ updating = FALSE
  BY DEF Init
<1> QED BY <1>1, <1>2, <1>3, <1>4 DEF SerialInv, ShapeInv, CommandsAreSerial, NoDialog

LEMMA SerialStep ==
  ASSUME SerialInv, [Next]_vars
  PROVE  SerialInv'
<1>1. CASE Backend
  BY <1>1, BackendKeepsSerial
<1>2. CASE User
  BY <1>2, ModeKeepsSerial, SwitchKeepsSerial, AmountKeepsSerial, AnswerKeepsSerial,
     CloseKeepsSerial DEF User
<1>3. CASE Page
  BY <1>3, PageKeepsSerial
<1>4. CASE UNCHANGED vars
  BY <1>4, NothingSent DEF vars
<1> QED BY <1>1, <1>2, <1>3, <1>4 DEF Next

\* One update and one closing at a time, as long as the program runs: the flag
\* updating and the mark closing say exactly what is in flight, and a question
\* that is open was asked, and will be answered, while nothing is
\* (updateRuntimeConfig, handleTradeModeChange, handleTradeExecutionChange,
\* handleBuyAmountSave, handleClosePosition).
THEOREM CommandsAlwaysSerial == Spec => []CommandsAreSerial
<1>1. Init => SerialInv
  BY SerialInit
<1>2. SerialInv /\ [Next]_vars => SerialInv'
  BY SerialStep
<1>3. SerialInv => CommandsAreSerial
  BY DEF SerialInv
<1> QED BY <1>1, <1>2, <1>3, PTL DEF Spec

-----------------------------------------------------------------------------
(* Types, and what the page shows.                                         *)

Fields == {"mode", "amount", "ca", "exec"}
Shown == [mode : Modes, amount : Nat, ca : BOOLEAN, exec : BOOLEAN]
Parts4 == {"phase", "field", "value", "mode", "answer"}

\* The types, with those of an update in flight.
UpdateOK(u) ==
  /\ DOMAIN u = Parts4
  /\ u.phase \in {"sent", "begun", "done"}
  /\ u.field \in Fields /\ Fits(u.field, u.value)
  /\ u.mode \in Modes /\ u.answer \in Config

TypeInv ==
  /\ config \in Config /\ runtime \in Config /\ shown \in Shown
  /\ edited \in BOOLEAN /\ stale \in BOOLEAN
  /\ DOMAIN startup = {"methods", "runtime", "value"} /\ startup.value \in Config
  /\ dialog.of \in {"mode", "ca", "exec"} => Fits(dialog.of, dialog.value)
  /\ \A s \in InFlight : UpdateOK(updates[s])

\* An update whose field the backend has changed.
Carried(u) == u.phase = "done" \/ (u.phase = "begun" /\ u.field = "mode")

AnswersFollow ==
  \A s \in InFlight :
    /\ updates[s].phase # "sent" => updates[s].mode = config.mode
    /\ updates[s].phase = "done" => updates[s].answer = config

StoreFollows ==
  \A f \in Fields :
    \/ runtime[f] = config[f]
    \/ \E s \in InFlight : updates[s].field = f /\ Carried(updates[s])

ControlsFollow ==
  \A f \in Fields :
    \/ shown[f] = runtime[f]
    \/ f = "amount" /\ edited
    \/ f = dialog.of
    \/ \E s \in InFlight : updates[s].field = f

FollowInv ==
  ~stale => /\ AnswersFollow
            /\ startup.runtime = "done" => StoreFollows
            /\ Started(startup) => ControlsFollow

ControlInv == SerialInv /\ TypeInv /\ FollowInv

-----------------------------------------------------------------------------
(* Configurations, field by field.                                         *)

LEMMA ConfigFields ==
  ASSUME NEW c \in Config
  PROVE  DOMAIN c = Fields /\ c \in Shown
BY DEF Config, Fields, Shown

LEMMA SameFields ==
  ASSUME NEW c \in Shown, NEW d \in Shown, \A f \in Fields : c[f] = d[f]
  PROVE  c = d
<1>1. c.mode = d.mode /\ c.amount = d.amount /\ c.ca = d.ca /\ c.exec = d.exec
  BY DEF Fields
<1> QED BY <1>1 DEF Shown

LEMMA FieldSet ==
  ASSUME NEW c \in Config, NEW field \in Fields, NEW v, Fits(field, v)
  PROVE  [c EXCEPT ![field] = v] \in Config
<1> DEFINE d == [c EXCEPT ![field] = v]
<1>1. CASE field = "mode"
  <2>1. d = [c EXCEPT !.mode = v] /\ v \in Modes
    BY <1>1 DEF Fits
  <2> QED BY <1>1, <2>1 DEF Config
<1>2. CASE field = "amount"
  <2>1. d = [c EXCEPT !.amount = v] /\ v \in Nat \ {0}
    BY <1>2 DEF Fits
  <2> QED BY <1>2, <2>1 DEF Config
<1>3. CASE field = "ca"
  <2>1. d = [c EXCEPT !.ca = v] /\ v \in BOOLEAN
    BY <1>3 DEF Fits
  <2> QED BY <1>3, <2>1 DEF Config
<1>4. CASE field = "exec"
  <2>1. d = [c EXCEPT !.exec = v] /\ v \in BOOLEAN
    BY <1>4 DEF Fits
  <2> QED BY <1>4, <2>1 DEF Config
<1> QED BY <1>1, <1>2, <1>3, <1>4 DEF Fields

\* What an update writes, if it is its turn.
LEMMA UpdateWrites ==
  ASSUME config \in Config, NEW s \in Slots, UpdateOK(updates[s]),
         config' = [config EXCEPT ![updates[s].field] = updates[s].value]
  PROVE  /\ config' \in Config
         /\ \A f \in Fields : config'[f] = IF f = updates[s].field
                                           THEN updates[s].value ELSE config[f]
<1>1. PICK field \in Fields : field = updates[s].field
  BY DEF UpdateOK
<1>2. PICK v : v = updates[s].value
  OBVIOUS
<1>3. Fits(field, v)
  BY <1>1, <1>2 DEF UpdateOK, Fits
<1>4. PICK c \in Config : c = config
  OBVIOUS
<1>5. [c EXCEPT ![field] = v] \in Config
  BY <1>3, FieldSet
<1> QED BY <1>1, <1>2, <1>4, <1>5, ConfigFields

\* A control that is set from a configuration.
LEMMA ControlSet ==
  ASSUME NEW c \in Shown, NEW field \in Fields, NEW r \in Config
  PROVE  /\ [c EXCEPT ![field] = r[field]] \in Shown
         /\ \A f \in Fields :
              [c EXCEPT ![field] = r[field]][f] = IF f = field THEN r[f] ELSE c[f]
<1> DEFINE d == [c EXCEPT ![field] = r[field]]
<1>1. CASE field = "mode"
  <2>1. d = [c EXCEPT !.mode = r.mode] /\ r.mode \in Modes
    BY <1>1 DEF Config
  <2> QED BY <1>1, <2>1 DEF Shown
<1>2. CASE field = "amount"
  <2>1. d = [c EXCEPT !.amount = r.amount] /\ r.amount \in Nat
    BY <1>2 DEF Config
  <2> QED BY <1>2, <2>1 DEF Shown
<1>3. CASE field = "ca"
  <2>1. d = [c EXCEPT !.ca = r.ca] /\ r.ca \in BOOLEAN
    BY <1>3 DEF Config
  <2> QED BY <1>3, <2>1 DEF Shown
<1>4. CASE field = "exec"
  <2>1. d = [c EXCEPT !.exec = r.exec] /\ r.exec \in BOOLEAN
    BY <1>4 DEF Config
  <2> QED BY <1>4, <2>1 DEF Shown
<1>5. DOMAIN c = Fields
  BY DEF Shown, Fields
<1> QED BY <1>1, <1>2, <1>3, <1>4, <1>5 DEF Fields

-----------------------------------------------------------------------------
(* Updates in flight.                                                      *)

LEMMA InFlightIs ==
  ASSUME SerialInv, NEW s \in Slots, updates[s].phase # "none"
  PROVE  InFlight = {s}
<1>1. s \in InFlight
  BY DEF InFlight, NoUpdate
<1> QED BY <1>1 DEF SerialInv, CommandsAreSerial

LEMMA SentIs ==
  ASSUME SerialInv, NEW field, NEW value, Send(field, value), InFlight = {}
  PROVE  \E s \in Slots :
           /\ InFlight' = {s}
           /\ updates'[s] = [phase |-> "sent", field |-> field, value |-> value,
                             mode |-> "paper", answer |-> config]
<1>1. /\ updates' = [updates EXCEPT ![Free] =
                       [phase |-> "sent", field |-> field, value |-> value,
                        mode |-> "paper", answer |-> config]]
      /\ InFlight # Slots
  BY DEF Send
<1>2. Free \in Slots
  BY <1>1 DEF Free
<1>3. updates'[Free] = [phase |-> "sent", field |-> field, value |-> value,
                        mode |-> "paper", answer |-> config]
  BY <1>1, <1>2 DEF SerialInv, ShapeInv
<1>4. Free \in InFlight'
  BY <1>2, <1>3 DEF InFlight, NoUpdate
<1>5. \A s, t \in InFlight' : s = t
  BY SendIsAlone
<1> QED BY <1>2, <1>3, <1>4, <1>5

\* An update that the backend takes a step with keeps all but its phase and
\* one more part.
LEMMA BegunIs ==
  ASSUME SerialInv, TypeInv, NEW s \in Slots, Begin(s)
  PROVE  /\ InFlight = {s} /\ InFlight' = {s}
         /\ DOMAIN updates'[s] = Parts4
         /\ updates'[s].phase = "begun" /\ updates'[s].mode = config'.mode
         /\ updates'[s].field = updates[s].field
         /\ updates'[s].value = updates[s].value
         /\ updates'[s].answer = updates[s].answer
<1>1. updates[s].phase = "sent"
  BY DEF Begin
<1>2. InFlight = {s} /\ InFlight' = {s}
  BY <1>1, InFlightIs, WorkKeepsInFlight
<1>3. s \in DOMAIN updates /\ DOMAIN updates[s] = Parts4
  BY <1>2 DEF SerialInv, ShapeInv, TypeInv, UpdateOK
<1>4. PICK mode : mode = config'.mode
                  /\ updates' = [updates EXCEPT ![s].phase = "begun", ![s].mode = mode]
  BY DEF Begin
<1>5. updates'[s] = [[updates[s] EXCEPT !.phase = "begun"] EXCEPT !.mode = mode]
  BY <1>3, <1>4
<1> QED BY <1>2, <1>3, <1>4, <1>5 DEF Parts4

LEMMA FinishedIs ==
  ASSUME SerialInv, TypeInv, NEW s \in Slots, Finish(s)
  PROVE  /\ InFlight = {s} /\ InFlight' = {s}
         /\ DOMAIN updates'[s] = Parts4
         /\ updates'[s].phase = "done" /\ updates'[s].mode = updates[s].mode
         /\ updates'[s].field = updates[s].field
         /\ updates'[s].value = updates[s].value
         /\ updates'[s].answer = [config' EXCEPT !.mode = updates[s].mode]
<1>1. updates[s].phase = "begun"
  BY DEF Finish
<1>2. InFlight = {s} /\ InFlight' = {s}
  BY <1>1, InFlightIs, WorkKeepsInFlight
<1>3. s \in DOMAIN updates /\ DOMAIN updates[s] = Parts4
  BY <1>2 DEF SerialInv, ShapeInv, TypeInv, UpdateOK
<1>4. PICK answer : answer = [config' EXCEPT !.mode = updates[s].mode]
        /\ updates' = [updates EXCEPT ![s].phase = "done", ![s].answer = answer]
  BY DEF Finish
<1>5. updates'[s] = [[updates[s] EXCEPT !.phase = "done"] EXCEPT !.answer = answer]
  BY <1>3, <1>4
<1> QED BY <1>2, <1>3, <1>4, <1>5 DEF Parts4

-----------------------------------------------------------------------------
(* The backend.                                                            *)

LEMMA BeginFollows ==
  ASSUME ControlInv, NEW s \in Slots, Begin(s)
  PROVE  (TypeInv /\ FollowInv)'
<1>1. /\ InFlight = {s} /\ InFlight' = {s}
      /\ DOMAIN updates'[s] = Parts4
      /\ updates'[s].phase = "begun" /\ updates'[s].mode = config'.mode
      /\ updates'[s].field = updates[s].field
      /\ updates'[s].value = updates[s].value
      /\ updates'[s].answer = updates[s].answer
  BY BegunIs DEF ControlInv
<1>2. UpdateOK(updates[s]) /\ config \in Config /\ updates[s].phase = "sent"
  BY <1>1 DEF ControlInv, TypeInv, Begin
<1>3. /\ config' \in Config
      /\ \A f \in Fields : f # updates[s].field => config'[f] = config[f]
      /\ updates[s].field # "mode" => config' = config
  <2>1. CASE updates[s].field = "mode"
    <3>1. config' = [config EXCEPT ![updates[s].field] = updates[s].value]
      BY <2>1 DEF Begin
    <3>2. /\ config' \in Config
          /\ \A f \in Fields : config'[f] = IF f = updates[s].field
                                            THEN updates[s].value ELSE config[f]
      BY <1>2, <3>1, UpdateWrites
    <3> QED BY <2>1, <3>2
  <2>2. CASE updates[s].field # "mode"
    BY <1>2, <2>2 DEF Begin
  <2> QED BY <2>1, <2>2
<1>4. UNCHANGED <<runtime, shown, edited, startup, dialog, stale>>
  BY DEF Begin, storeVars
<1>5. UpdateOK(updates'[s])
  BY <1>1, <1>2, <1>3 DEF UpdateOK, Config
<1>6. TypeInv'
  BY <1>1, <1>3, <1>4, <1>5 DEF ControlInv, TypeInv
<1>7. FollowInv'
  <2> SUFFICES ASSUME ~stale
               PROVE  /\ AnswersFollow'
                      /\ startup.runtime = "done" => StoreFollows'
                      /\ Started(startup) => ControlsFollow'
    BY <1>4 DEF FollowInv, Started
  <2>1. AnswersFollow'
    BY <1>1 DEF AnswersFollow
  <2>2. ASSUME startup.runtime = "done" PROVE StoreFollows'
    <3>1. \A f \in Fields : runtime[f] = config[f]
      BY <1>1, <1>2, <2>2 DEF ControlInv, FollowInv, StoreFollows, Carried
    <3> QED BY <1>1, <1>3, <1>4, <3>1 DEF StoreFollows, Carried
  <2>3. ASSUME Started(startup) PROVE ControlsFollow'
    BY <1>1, <1>4, <2>3 DEF ControlInv, FollowInv, ControlsFollow
  <2> QED BY <2>1, <2>2, <2>3
<1> QED BY <1>6, <1>7

LEMMA FinishFollows ==
  ASSUME ControlInv, NEW s \in Slots, Finish(s)
  PROVE  (TypeInv /\ FollowInv)'
<1>1. /\ InFlight = {s} /\ InFlight' = {s}
      /\ DOMAIN updates'[s] = Parts4
      /\ updates'[s].phase = "done" /\ updates'[s].mode = updates[s].mode
      /\ updates'[s].field = updates[s].field
      /\ updates'[s].value = updates[s].value
      /\ updates'[s].answer = [config' EXCEPT !.mode = updates[s].mode]
  BY FinishedIs DEF ControlInv
<1>2. UpdateOK(updates[s]) /\ config \in Config /\ updates[s].phase = "begun"
  BY <1>1 DEF ControlInv, TypeInv, Finish
<1>3. /\ config' \in Config /\ config'.mode = config.mode
      /\ \A f \in Fields : f # updates[s].field => config'[f] = config[f]
  <2>1. CASE updates[s].field = "mode"
    BY <1>2, <2>1 DEF Finish
  <2>2. CASE updates[s].field # "mode"
    <3>1. config' = [config EXCEPT ![updates[s].field] = updates[s].value]
      BY <2>2 DEF Finish
    <3>2. /\ config' \in Config
          /\ \A f \in Fields : config'[f] = IF f = updates[s].field
                                            THEN updates[s].value ELSE config[f]
      BY <1>2, <3>1, UpdateWrites
    <3> QED BY <2>2, <3>2 DEF Fields
  <2> QED BY <2>1, <2>2
<1>4. UNCHANGED <<runtime, shown, edited, startup, dialog, stale>>
  BY DEF Finish, storeVars
<1>5. updates'[s].answer \in Config
  BY <1>1, <1>2, <1>3 DEF UpdateOK, Config
<1>6. UpdateOK(updates'[s])
  BY <1>1, <1>2, <1>5 DEF UpdateOK
<1>7. TypeInv'
  BY <1>1, <1>3, <1>4, <1>6 DEF ControlInv, TypeInv
<1>8. FollowInv'
  <2> SUFFICES ASSUME ~stale
               PROVE  /\ AnswersFollow'
                      /\ startup.runtime = "done" => StoreFollows'
                      /\ Started(startup) => ControlsFollow'
    BY <1>4 DEF FollowInv, Started
  <2>1. AnswersFollow'
    <3>1. updates[s].mode = config'.mode
      BY <1>1, <1>2, <1>3 DEF ControlInv, FollowInv, AnswersFollow
    <3>2. updates'[s].answer = config'
      BY <1>1, <1>3, <3>1 DEF Config
    <3> QED BY <1>1, <3>1, <3>2 DEF AnswersFollow
  <2>2. ASSUME startup.runtime = "done" PROVE StoreFollows'
    <3>1. \A f \in Fields : f # updates[s].field => runtime[f] = config[f]
      BY <1>1, <2>2 DEF ControlInv, FollowInv, StoreFollows
    <3> QED BY <1>1, <1>3, <1>4, <3>1 DEF StoreFollows, Carried
  <2>3. ASSUME Started(startup) PROVE ControlsFollow'
    BY <1>1, <1>4, <2>3 DEF ControlInv, FollowInv, ControlsFollow
  <2> QED BY <2>1, <2>2, <2>3
<1> QED BY <1>7, <1>8

LEMMA OtherFollows ==
  ASSUME ControlInv, NEW new \in Configs, OtherClient(new)
  PROVE  (TypeInv /\ FollowInv)'
<1>1. config' = new /\ stale' = TRUE
      /\ UNCHANGED <<runtime, shown, edited, updates, startup, dialog>>
  BY DEF OtherClient, storeVars
<1>2. new \in Config
  BY TradeConsoleAssumption DEF Configs, Config
<1> QED BY <1>1, <1>2 DEF ControlInv, TypeInv, FollowInv, InFlight

LEMMA StartupReadFollows ==
  ASSUME ControlInv, StartupRead
  PROVE  (TypeInv /\ FollowInv)'
<1>1. /\ startup' = [[startup EXCEPT !.runtime = "read"] EXCEPT !.value = config]
      /\ UNCHANGED <<config, runtime, shown, edited, updates, dialog, stale>>
  BY DEF StartupRead, storeVars, ControlInv, TypeInv
<1>2. DOMAIN startup' = {"methods", "runtime", "value"}
      /\ startup'.value = config /\ startup'.runtime = "read"
  BY <1>1 DEF ControlInv, TypeInv
<1> QED BY <1>1, <1>2
        DEF ControlInv, TypeInv, FollowInv, InFlight, AnswersFollow, Started

-----------------------------------------------------------------------------
(* The start of the page.                                                  *)

\* The controls are set from what the store then holds.
LEMMA LoadFollows ==
  ASSUME ControlInv, loadTradeRuntime
  PROVE  (TypeInv /\ FollowInv)'
<1>1. /\ startup' = [startup EXCEPT !.runtime = "done"]
      /\ runtime' = startup.value /\ SetControls(startup', runtime')
      /\ stale' = (stale \/ startup.value # config)
      /\ UNCHANGED <<config, updates, dialog>>
  BY DEF loadTradeRuntime
<1>2. DOMAIN startup' = {"methods", "runtime", "value"}
      /\ startup'.value = startup.value
  BY <1>1 DEF ControlInv, TypeInv
<1>3. /\ runtime' \in Config /\ shown' \in Shown /\ edited' \in BOOLEAN
      /\ Started(startup)' => shown' = runtime'
  BY <1>1, ConfigFields DEF ControlInv, TypeInv, SetControls, Started
<1>4. TypeInv'
  BY <1>1, <1>2, <1>3 DEF ControlInv, TypeInv, InFlight
<1>5. FollowInv'
  <2> SUFFICES ASSUME ~stale'
               PROVE  AnswersFollow' /\ StoreFollows'
                      /\ (Started(startup)' => ControlsFollow')
    BY DEF FollowInv
  <2>1. ~stale /\ runtime' = config'
    BY <1>1 DEF ControlInv, TypeInv
  <2>2. AnswersFollow'
    BY <1>1, <2>1 DEF ControlInv, FollowInv, AnswersFollow, InFlight
  <2> QED BY <1>3, <2>1, <2>2 DEF StoreFollows, ControlsFollow
<1> QED BY <1>4, <1>5

LEMMA MethodsFollow ==
  ASSUME ControlInv, MethodsAnswered
  PROVE  (TypeInv /\ FollowInv)'
<1>1. /\ startup' = [startup EXCEPT !.methods = "done"]
      /\ SetControls(startup', runtime)
      /\ UNCHANGED <<config, runtime, updates, dialog, stale>>
  BY DEF MethodsAnswered
<1>2. DOMAIN startup' = {"methods", "runtime", "value"}
      /\ startup'.value = startup.value /\ startup'.runtime = startup.runtime
  BY <1>1 DEF ControlInv, TypeInv
<1>3. /\ shown' \in Shown /\ edited' \in BOOLEAN
      /\ Started(startup)' => shown' = runtime'
  BY <1>1, ConfigFields DEF ControlInv, TypeInv, SetControls, Started
<1>4. TypeInv'
  BY <1>1, <1>2, <1>3 DEF ControlInv, TypeInv, InFlight
<1>5. FollowInv'
  BY <1>1, <1>2, <1>3 DEF ControlInv, FollowInv, InFlight, AnswersFollow, StoreFollows,
                          ControlsFollow, Carried
<1> QED BY <1>4, <1>5

LEMMA StartupFailFollows ==
  ASSUME ControlInv, StartupFails
  PROVE  (TypeInv /\ FollowInv)'
<1>1. UNCHANGED <<config, runtime, shown, edited, updates, dialog, stale>>
  BY DEF StartupFails, storeVars
<1>2. /\ DOMAIN startup' = {"methods", "runtime", "value"}
      /\ startup'.value = startup.value
      /\ startup'.runtime = "done" => startup.runtime = "done"
      /\ ~Started(startup)'
  <2>1. CASE startup' = [startup EXCEPT !.methods = "failed"]
    BY <2>1 DEF ControlInv, TypeInv, Started
  <2>2. CASE startup' = [startup EXCEPT !.runtime = "failed"]
    BY <2>2 DEF ControlInv, TypeInv, Started
  <2> QED BY <2>1, <2>2 DEF StartupFails
<1> QED BY <1>1, <1>2 DEF ControlInv, TypeInv, FollowInv, InFlight, AnswersFollow,
                          StoreFollows, Carried

-----------------------------------------------------------------------------
(* The user.                                                               *)

\* Controls and questions change, no update is sent.
LEMMA QuestionFollows ==
  ASSUME ControlInv, UNCHANGED <<config, runtime, updates, startup, stale>>,
         shown' \in Shown, edited' \in BOOLEAN,
         dialog'.of \in {"mode", "ca", "exec"} => Fits(dialog'.of, dialog'.value),
         ControlsFollow => ControlsFollow'
  PROVE  (TypeInv /\ FollowInv)'
<1>1. InFlight' = InFlight
  BY DEF InFlight
<1>2. TypeInv'
  BY <1>1 DEF ControlInv, TypeInv, Fits
<1>3. FollowInv'
  BY <1>1 DEF ControlInv, FollowInv, AnswersFollow, StoreFollows, Carried, Started
<1> QED BY <1>2, <1>3

\* An update is sent, of a control that may be ahead of the store.
LEMMA SentFollows ==
  ASSUME ControlInv, NEW field \in Fields, NEW value, Fits(field, value),
         Send(field, value), ~updating, dialog' = NoDialog,
         UNCHANGED <<config, runtime, edited, startup, stale>>,
         shown' \in Shown, \A f \in Fields : f # field => shown'[f] = shown[f],
         dialog.of \in {"none", field}
  PROVE  (TypeInv /\ FollowInv)'
<1> DEFINE sent == [phase |-> "sent", field |-> field, value |-> value,
                    mode |-> "paper", answer |-> config]
<1>1. InFlight = {} /\ SerialInv
  BY DEF ControlInv, SerialInv, CommandsAreSerial
<1>2. PICK s \in Slots : InFlight' = {s} /\ updates'[s] = sent
  BY <1>1, SentIs
<1>3. UpdateOK(updates'[s])
  <2>1. /\ DOMAIN updates'[s] = Parts4 /\ updates'[s].phase = "sent"
        /\ updates'[s].field = field /\ updates'[s].value = value
        /\ updates'[s].mode = "paper" /\ updates'[s].answer = config
    BY <1>2 DEF Parts4
  <2>2. Fits(updates'[s].field, updates'[s].value)
    BY <2>1 DEF Fits
  <2> QED BY <2>1, <2>2 DEF UpdateOK, ControlInv, TypeInv, Modes
<1>4. TypeInv'
  BY <1>2, <1>3 DEF ControlInv, TypeInv, NoDialog
<1>5. FollowInv'
  <2> SUFFICES ASSUME ~stale
               PROVE  /\ AnswersFollow'
                      /\ startup.runtime = "done" => StoreFollows'
                      /\ Started(startup) => ControlsFollow'
    BY DEF FollowInv, Started
  <2>1. AnswersFollow'
    BY <1>2 DEF AnswersFollow
  <2>2. ASSUME startup.runtime = "done" PROVE StoreFollows'
    BY <1>1, <2>2 DEF ControlInv, FollowInv, StoreFollows
  <2>3. ASSUME Started(startup) PROVE ControlsFollow'
    BY <1>1, <1>2, <2>3 DEF ControlInv, FollowInv, ControlsFollow, NoDialog
  <2> QED BY <2>1, <2>2, <2>3
<1> QED BY <1>4, <1>5

LEMMA ModeFollows ==
  ASSUME ControlInv, NEW value \in Modes, handleTradeModeChange(value)
  PROVE  (TypeInv /\ FollowInv)'
<1>1. /\ dialog = NoDialog /\ ~updating
      /\ shown' = [shown EXCEPT !.mode = value]
      /\ UNCHANGED <<config, runtime, edited, startup, stale>>
  BY DEF handleTradeModeChange, Click
<1>2. shown' \in Shown /\ \A f \in Fields : f # "mode" => shown'[f] = shown[f]
  BY <1>1 DEF ControlInv, TypeInv, Shown, Fields
<1>3. shown'["mode"] = value
  BY <1>1 DEF ControlInv, TypeInv, Shown
<1>4. CASE value = runtime.mode
  <2>1. UNCHANGED <<dialog, updates>>
    BY <1>4 DEF handleTradeModeChange
  <2>2. ControlsFollow => ControlsFollow'
    BY <1>1, <1>2, <1>3, <1>4, <2>1 DEF ControlsFollow, InFlight
  <2> QED BY <1>1, <1>2, <2>1, <2>2, QuestionFollows DEF ControlInv, TypeInv, Fits
<1>5. CASE value # runtime.mode /\ value = "live"
  <2>1. UNCHANGED updates /\ dialog' = [of |-> "mode", value |-> value]
    BY <1>5 DEF handleTradeModeChange
  <2>2. ControlsFollow => ControlsFollow'
    BY <1>1, <1>2, <2>1 DEF ControlsFollow, InFlight, NoDialog, Fields
  <2>3. Fits(dialog'.of, dialog'.value) /\ edited' \in BOOLEAN
    BY <1>1, <2>1 DEF Fits, ControlInv, TypeInv
  <2> QED BY <1>1, <1>2, <2>1, <2>2, <2>3, QuestionFollows
<1>6. CASE value # runtime.mode /\ value # "live"
  <2>1. Send("mode", value) /\ dialog' = NoDialog
    BY <1>1, <1>6 DEF handleTradeModeChange
  <2>2. "mode" \in Fields /\ Fits("mode", value) /\ dialog.of = "none"
    BY <1>1 DEF Fields, Fits, NoDialog
  <2> QED BY <1>1, <1>2, <2>1, <2>2, SentFollows
<1> QED BY <1>4, <1>5, <1>6

LEMMA SwitchFollows ==
  ASSUME ControlInv, NEW field \in {"ca", "exec"}, handleSwitch(field)
  PROVE  (TypeInv /\ FollowInv)'
<1>1. /\ dialog = NoDialog /\ ~updating
      /\ UNCHANGED <<config, runtime, shown, edited, startup, stale>>
  BY DEF handleSwitch, Click
<1>2. shown \in Shown /\ edited \in BOOLEAN
  BY DEF ControlInv, TypeInv
<1>3. CASE shown[field]
  <2>1. UNCHANGED updates /\ dialog' = [of |-> field, value |-> FALSE]
    BY <1>3 DEF handleSwitch
  <2>2. ControlsFollow => ControlsFollow'
    BY <1>1, <2>1 DEF ControlsFollow, InFlight, NoDialog, Fields
  <2> QED BY <1>1, <1>2, <2>1, <2>2, QuestionFollows DEF Fits
<1>4. CASE ~shown[field]
  <2>1. Send(field, TRUE) /\ dialog' = NoDialog
    BY <1>1, <1>4 DEF handleSwitch
  <2>2. field \in Fields /\ Fits(field, TRUE) /\ dialog.of = "none"
    BY <1>1 DEF Fields, Fits, NoDialog
  <2> QED BY <1>1, <1>2, <2>1, <2>2, SentFollows
<1> QED BY <1>3, <1>4

LEMMA EditFollows ==
  ASSUME ControlInv, NEW amount \in Amounts, EditAmount(amount)
  PROVE  (TypeInv /\ FollowInv)'
<1>1. /\ shown' = [shown EXCEPT !.amount = amount] /\ edited' = TRUE
      /\ UNCHANGED <<config, runtime, updates, startup, dialog, stale>>
  BY DEF EditAmount
<1>2. amount \in Nat
  BY TradeConsoleAssumption
<1>3. shown' \in Shown /\ \A f \in Fields : f # "amount" => shown'[f] = shown[f]
  BY <1>1, <1>2 DEF ControlInv, TypeInv, Shown, Fields
<1>4. ControlsFollow => ControlsFollow'
  BY <1>1, <1>3 DEF ControlsFollow, InFlight
<1> QED BY <1>1, <1>3, <1>4, QuestionFollows DEF ControlInv, TypeInv, Fits

LEMMA SaveFollows ==
  ASSUME ControlInv, handleBuyAmountSave
  PROVE  (TypeInv /\ FollowInv)'
<1>1. /\ dialog = NoDialog /\ dialog' = NoDialog /\ ~updating /\ shown.amount > 0
      /\ Send("amount", shown.amount)
      /\ UNCHANGED <<config, runtime, shown, edited, startup, stale>>
  BY DEF handleBuyAmountSave, Click
<1>2. shown \in Shown /\ shown.amount \in Nat \ {0}
  BY <1>1 DEF ControlInv, TypeInv, Shown
<1>3. "amount" \in Fields /\ Fits("amount", shown.amount) /\ dialog.of = "none"
  BY <1>1, <1>2 DEF Fields, Fits, NoDialog
<1> QED BY <1>1, <1>2, <1>3, SentFollows

LEMMA CancelFollows ==
  ASSUME ControlInv, Cancel
  PROVE  (TypeInv /\ FollowInv)'
<1>1. /\ dialog' = NoDialog
      /\ UNCHANGED <<config, runtime, updates, startup, stale>>
  BY DEF Cancel
<1>2. shown \in Shown /\ runtime \in Config /\ edited \in BOOLEAN
  BY DEF ControlInv, TypeInv
<1>3. CASE dialog.of = "close"
  <2>1. UNCHANGED <<shown, edited>>
    BY <1>3 DEF Cancel
  <2>2. ControlsFollow => ControlsFollow'
    BY <1>1, <1>3, <2>1 DEF ControlsFollow, InFlight, Fields
  <2> QED BY <1>1, <1>2, <2>1, <2>2, QuestionFollows DEF NoDialog
<1>4. CASE dialog.of # "close"
  <2>1. dialog.of \in {"mode", "ca", "exec"}
    BY <1>4 DEF ControlInv, SerialInv, ShapeInv, Cancel
  <2>2. PICK field \in {"mode", "ca", "exec"} : field = dialog.of
    BY <2>1
  <2>3. shown' = [shown EXCEPT ![field] = runtime[field]] /\ edited' = edited
    BY <1>2, <1>4, <2>2 DEF Cancel, Reset
  <2>4. /\ shown' \in Shown
        /\ \A f \in Fields : shown'[f] = IF f = field THEN runtime[f] ELSE shown[f]
    <3>1. PICK c \in Shown : c = shown
      BY <1>2
    <3>2. PICK r \in Config : r = runtime
      BY <1>2
    <3>3. field \in Fields
      BY DEF Fields
    <3>4. /\ [c EXCEPT ![field] = r[field]] \in Shown
          /\ \A f \in Fields :
               [c EXCEPT ![field] = r[field]][f] = IF f = field THEN r[f] ELSE c[f]
      BY <3>3, ControlSet
    <3> QED BY <2>3, <3>1, <3>2, <3>4
  <2>5. ControlsFollow => ControlsFollow'
    BY <1>1, <2>2, <2>3, <2>4 DEF ControlsFollow, InFlight
  <2> QED BY <1>1, <1>2, <2>3, <2>4, <2>5, QuestionFollows DEF NoDialog
<1> QED BY <1>3, <1>4

LEMMA ConfirmFollows ==
  ASSUME ControlInv, Confirm
  PROVE  (TypeInv /\ FollowInv)'
<1>1. /\ dialog' = NoDialog /\ Send(dialog.of, dialog.value)
      /\ UNCHANGED <<config, runtime, shown, edited, startup, stale>>
  BY DEF Confirm
<1>2. dialog.of \in {"mode", "ca", "exec"} /\ shown \in Shown
  BY DEF ControlInv, TypeInv, SerialInv, ShapeInv, Confirm
<1>3. ~updating
  BY <1>2 DEF ControlInv, SerialInv, CommandsAreSerial
<1>4. PICK field \in {"mode", "ca", "exec"} : field = dialog.of
  BY <1>2
<1>5. PICK value : value = dialog.value
  OBVIOUS
<1>6. Send(field, value)
  BY <1>1, <1>4, <1>5 DEF Send
<1>7. Fits(field, value)
  BY <1>2, <1>4, <1>5 DEF ControlInv, TypeInv, Fits
<1>8. field \in Fields
  BY DEF Fields
<1> QED BY <1>1, <1>2, <1>3, <1>4, <1>6, <1>7, <1>8, SentFollows

\* Closing a position leaves the controls alone.
LEMMA CloseFollows ==
  ASSUME ControlInv,
         \/ \E row \in ToSet(positions) : ClickClose(row)
         \/ handleClosePosition
  PROVE  (TypeInv /\ FollowInv)'
<1>1. /\ UNCHANGED <<config, runtime, shown, edited, updates, startup, stale>>
      /\ dialog.of \notin Fields /\ dialog'.of \notin Fields
  BY DEF ClickClose, handleClosePosition, storeVars, NoDialog, Fields
<1>2. ControlsFollow => ControlsFollow'
  BY <1>1 DEF ControlsFollow, InFlight
<1> QED BY <1>1, <1>2, QuestionFollows DEF ControlInv, TypeInv, Fields

-----------------------------------------------------------------------------
(* The end of an update.                                                   *)

LEMMA EndFollows ==
  ASSUME ControlInv, NEW s \in Slots, UpdateAnswered(s) \/ UpdateFailed(s)
  PROVE  (TypeInv /\ FollowInv)'
<1>1. s \in InFlight
  <2>1. CASE UpdateAnswered(s)
    BY <2>1 DEF UpdateAnswered, InFlight, NoUpdate
  <2> QED BY <2>1 DEF UpdateFailed
<1>2. InFlight = {s}
  BY <1>1 DEF ControlInv, SerialInv, CommandsAreSerial
<1>3. /\ updates' = [updates EXCEPT ![s] = NoUpdate]
      /\ UNCHANGED <<config, startup, dialog>>
      /\ stale' \in BOOLEAN /\ (stale => stale')
  BY DEF UpdateAnswered, UpdateFailed, ControlInv, TypeInv, Refused
<1>4. InFlight' = {}
  BY <1>1, <1>3, EndLeavesNone DEF ControlInv
<1>5. UpdateOK(updates[s]) /\ runtime \in Config /\ shown \in Shown
  BY <1>1 DEF ControlInv, TypeInv
<1>6. PICK field \in Fields : field = updates[s].field
  BY <1>5 DEF UpdateOK
<1>7. /\ runtime' \in Config
      /\ shown' = [shown EXCEPT ![field] = runtime'[field]]
      /\ edited' = (edited /\ field # "amount")
  BY <1>5, <1>6 DEF UpdateAnswered, UpdateFailed, Reset, Answer, UpdateOK
<1>8. /\ shown' \in Shown
      /\ \A f \in Fields : shown'[f] = IF f = field THEN runtime'[f] ELSE shown[f]
  <2>1. PICK r \in Config : r = runtime'
    BY <1>7
  <2>2. PICK c \in Shown : c = shown
    BY <1>5
  <2>3. shown' = [c EXCEPT ![field] = r[field]]
    BY <1>7, <2>1, <2>2
  <2>4. /\ [c EXCEPT ![field] = r[field]] \in Shown
        /\ \A f \in Fields :
             [c EXCEPT ![field] = r[field]][f] = IF f = field THEN r[f] ELSE c[f]
    BY ControlSet
  <2> QED BY <2>1, <2>2, <2>3, <2>4
<1>9. TypeInv'
  BY <1>3, <1>4, <1>7, <1>8 DEF ControlInv, TypeInv, Fits
<1>10. ASSUME ~stale', startup.runtime = "done"
       PROVE  /\ \A f \in Fields : runtime'[f] = config[f]
              /\ \A f \in Fields : f # field => runtime'[f] = runtime[f]
  <2>1. \A f \in Fields : f # field => runtime[f] = config[f]
    BY <1>2, <1>3, <1>6, <1>10 DEF ControlInv, FollowInv, StoreFollows
  <2>2. CASE UpdateAnswered(s)
    <3>1. runtime' = config
      BY <1>1, <1>3, <1>10, <2>2
         DEF UpdateAnswered, Answer, ControlInv, FollowInv, AnswersFollow
    <3> QED BY <2>1, <3>1
  <2>3. CASE UpdateFailed(s)
    <3>1. Refused(s) /\ runtime' = runtime
      BY <1>10, <2>3 DEF UpdateFailed
    <3>2. ~Carried(updates[s])
      BY <1>5, <3>1 DEF Refused, Carried
    <3>3. \A f \in Fields : runtime[f] = config[f]
      BY <1>2, <1>3, <1>10, <3>2 DEF ControlInv, FollowInv, StoreFollows, Carried
    <3> QED BY <3>1, <3>3
  <2> QED BY <2>2, <2>3
<1>11. FollowInv'
  <2> SUFFICES ASSUME ~stale'
               PROVE  /\ AnswersFollow'
                      /\ startup.runtime = "done" => StoreFollows'
                      /\ Started(startup) => ControlsFollow'
    BY <1>3 DEF FollowInv, Started
  <2>1. AnswersFollow'
    BY <1>4 DEF AnswersFollow
  <2>2. ASSUME startup.runtime = "done" PROVE StoreFollows'
    BY <1>3, <1>10, <2>2 DEF StoreFollows
  <2>3. ASSUME Started(startup) PROVE ControlsFollow'
    <3>1. \A f \in Fields : f # field => runtime'[f] = runtime[f]
      BY <1>10, <2>3 DEF Started
    <3>2. ControlsFollow
      BY <1>3, <2>3 DEF ControlInv, FollowInv
    <3>3. \A f \in Fields : f = "amount" /\ edited /\ f # field => edited'
      BY <1>7
    <3> QED BY <1>2, <1>3, <1>6, <1>8, <3>1, <3>2, <3>3 DEF ControlsFollow
  <2> QED BY <2>1, <2>2, <2>3
<1> QED BY <1>9, <1>11

-----------------------------------------------------------------------------
LEMMA ControlInit ==
  ASSUME Init
  PROVE  ControlInv
<1>1. SerialInv
  BY SerialInit
<1>2. InFlight = {}
  BY DEF Init, InFlight
<1>3. \E mode \in Modes, on \in BOOLEAN :
        config = [Default EXCEPT !.mode = mode, !.exec = on]
  BY DEF Init
<1>4. config \in Config
  <2>1. PICK mode \in Modes, on \in BOOLEAN :
          config = [Default EXCEPT !.mode = mode, !.exec = on]
    BY <1>3
  <2>2. config = [mode |-> mode, amount |-> 10, ca |-> FALSE, exec |-> on]
    BY <2>1 DEF Default
  <2> QED BY <2>2 DEF Config
<1>5. Default \in Config /\ Default \in Shown
  BY DEF Default, Config, Shown, Modes
<1>6. TypeInv
  BY <1>2, <1>4, <1>5 DEF Init, TypeInv, NoDialog
<1>7. startup.runtime = "sent"
  BY DEF Init
<1>8. FollowInv
  BY <1>2, <1>7 DEF FollowInv, AnswersFollow, Started
<1> QED BY <1>1, <1>6, <1>8 DEF ControlInv

LEMMA ControlStep ==
  ASSUME ControlInv, [Next]_vars
  PROVE  ControlInv'
<1>1. SerialInv'
  BY SerialStep DEF ControlInv
<1>2. CASE Backend
  BY <1>1, <1>2, BeginFollows, FinishFollows, OtherFollows, StartupReadFollows
     DEF Backend, ControlInv
<1>3. CASE User
  BY <1>1, <1>3, ModeFollows, SwitchFollows, EditFollows, SaveFollows, CancelFollows,
     ConfirmFollows, CloseFollows DEF User, ControlInv
<1>4. CASE loadTradeRuntime \/ MethodsAnswered \/ StartupFails
           \/ \E s \in Slots : UpdateAnswered(s) \/ UpdateFailed(s)
  BY <1>1, <1>4, LoadFollows, MethodsFollow, StartupFailFollows, EndFollows
     DEF ControlInv
<1>5. CASE \/ \E id \in closes : CloseEnded(id)
           \/ \E items \in Lists : PositionsChange(items)
           \/ \E time \in Instants : Tick(time)
           \/ UNCHANGED vars
  <2>1. UNCHANGED <<config, runtime, shown, edited, updates, startup, dialog, stale>>
    BY <1>5 DEF CloseEnded, PositionsChange, Tick, vars, storeVars
  <2>2. ControlsFollow => ControlsFollow'
    BY <2>1 DEF ControlsFollow, InFlight
  <2>3. /\ shown \in Shown /\ edited \in BOOLEAN
        /\ dialog'.of \in {"mode", "ca", "exec"} => Fits(dialog'.of, dialog'.value)
    BY <2>1 DEF ControlInv, TypeInv, Fits
  <2> QED BY <1>1, <2>1, <2>2, <2>3, QuestionFollows DEF ControlInv
<1> QED BY <1>2, <1>3, <1>4, <1>5 DEF Next, Page

LEMMA ControlAlways == Spec => []ControlInv
<1> QED BY ControlInit, ControlStep, PTL DEF Spec

\* The variables keep their shapes, for any amounts, lists and numbers of
\* updates; that an amount of 0 is never sent rests on the guard of
\* handleBuyAmountSave, that no field takes the value of another on the
\* question and the update keeping field and value together.
THEOREM ConsoleTypeCorrect == Spec => []TypeOK
<1>1. ControlInv /\ updating \in BOOLEAN => TypeOK
  <2> SUFFICES ASSUME ControlInv, updating \in BOOLEAN PROVE TypeOK
    OBVIOUS
  <2>2. \A s \in InFlight : Fits(updates[s].field, updates[s].value)
    BY DEF ControlInv, TypeInv, UpdateOK
  <2>3. \A s \in InFlight : /\ updates[s].phase \in {"sent", "begun", "done"}
                           /\ updates[s].mode \in Modes /\ updates[s].answer \in Config
    BY DEF ControlInv, TypeInv, UpdateOK
  <2> QED BY <2>2, <2>3 DEF ControlInv, TypeInv, SerialInv, ShapeInv, TypeOK, Shown
<1>2. Init => updating \in BOOLEAN
  BY DEF Init
<1>3. updating \in BOOLEAN /\ [Next]_vars => (updating \in BOOLEAN)'
  <2> SUFFICES ASSUME updating \in BOOLEAN, [Next]_vars PROVE updating' \in BOOLEAN
    OBVIOUS
  <2>1. CASE Backend
    BY <2>1 DEF Backend, Begin, Finish, OtherClient, StartupRead, storeVars
  <2>2. CASE User
    BY <2>2 DEF User, handleTradeModeChange, handleSwitch, EditAmount,
                handleBuyAmountSave, ClickClose, Cancel, Confirm, handleClosePosition,
                Send, storeVars
  <2>3. CASE Page
    BY <2>3 DEF Page, loadTradeRuntime, MethodsAnswered, StartupFails, UpdateAnswered,
                UpdateFailed, CloseEnded, PositionsChange, Tick, storeVars
  <2> QED BY <2>1, <2>2, <2>3 DEF Next, vars
<1> QED BY <1>1, <1>2, <1>3, ControlAlways, PTL DEF Spec

\* Whatever was clicked, refused, answered late or lost on the way: once nothing
\* is in flight and no question open, store and controls show what the backend
\* holds (updateRuntimeConfig, loadTradeRuntime, the handlers of the controls).
THEOREM ControlsAlwaysFollow == Spec => []ControlsFollowServer
<1>1. ControlInv => ControlsFollowServer
  <2> SUFFICES ASSUME ControlInv, Started(startup), InFlight = {},
                      dialog.of \in {"none", "close"}, ~stale
               PROVE  /\ runtime = config
                      /\ shown = [config EXCEPT !.amount =
                                    IF edited THEN shown.amount ELSE @]
    BY DEF ControlsFollowServer
  <2>1. /\ \A f \in Fields : runtime[f] = config[f]
        /\ \A f \in Fields : shown[f] = runtime[f] \/ (f = "amount" /\ edited)
    BY DEF ControlInv, FollowInv, StoreFollows, ControlsFollow, Started, Fields
  <2>2. runtime \in Config /\ config \in Config /\ shown \in Shown
    BY DEF ControlInv, TypeInv
  <2>3. runtime = config
    BY <2>1, <2>2, ConfigFields, SameFields
  <2> DEFINE d == [config EXCEPT !.amount = IF edited THEN shown.amount ELSE @]
  <2>4. d \in Shown /\ \A f \in Fields : shown[f] = d[f]
    BY <2>1, <2>2, <2>3 DEF Config, Shown, Fields
  <2>5. shown = d
    BY <2>2, <2>4, SameFields
  <2> QED BY <2>3, <2>5
<1> QED BY <1>1, ControlAlways, PTL

-----------------------------------------------------------------------------
(* The table.  Large numbers are left to the SMT solver alone, and the     *)
(* units of time keep their names wherever their values do not matter.     *)

LEMMA Division ==
  ASSUME NEW a \in Nat, NEW n \in Nat \ {0}
  PROVE  a \div n \in Nat /\ (a % n) \in 0..(n - 1) /\ a = n * (a \div n) + (a % n)
OBVIOUS

\* A rest is determined by its number.
LEMMA OneRest ==
  ASSUME NEW n \in Nat \ {0}, NEW x \in Int, NEW y \in Int,
         NEW r \in 0..(n - 1), NEW s \in 0..(n - 1), n * x + r = n * y + s
  PROVE  r = s
BY SMT

\* A number below so many units has fewer of them.
LEMMA Below ==
  ASSUME NEW n \in Nat \ {0}, NEW q \in Nat, NEW k \in Nat, NEW a \in Nat,
         NEW r \in 0..(n - 1), a = n * q + r, a < n * k
  PROVE  q < k
BY SMT

\* The rest of a division by a unit is a number of smaller units, below the
\* given one, and the rest of the division by the smaller unit.
Splits(a, big, n, k) ==
  \E q \in 0..(k - 1) : (a % big) \div n = q /\ (a % big) = n * q + (a % n)

\* Dividing by a unit and by a multiple of it.
LEMMA SubUnit ==
  ASSUME NEW a \in Nat, NEW n \in Nat \ {0}, NEW k \in Nat \ {0},
         NEW big \in Nat \ {0}, big = k * n
  PROVE  Splits(a, big, n, k)
<1> DEFINE Q == a \div big
           R == a % big
           x == R \div n
           r == R % n
           y == a \div n
           s == a % n
<1>1. Q \in Nat /\ R \in 0..(big - 1) /\ a = big * Q + R
  BY Division
<1>2. R \in Nat /\ R < n * k
  <2> HIDE DEF R
  <2> QED BY SMT, <1>1
<1>3. y \in Nat /\ s \in 0..(n - 1) /\ a = n * y + s
  BY Division
<1> HIDE DEF Q, R, y, s
<1>4. x \in Nat /\ r \in 0..(n - 1) /\ R = n * x + r
  BY <1>2, Division
<1> HIDE DEF x, r
<1>5. x < k
  BY SMT, <1>2, <1>4, Below
<1> DEFINE z == k * Q + x
<1>6. z \in Int /\ n * z = big * Q + n * x
  BY SMT, <1>1, <1>4
<1> HIDE DEF z
<1>7. n * z + r = n * y + s
  <2>1. n * z \in Int /\ n * y \in Int /\ n * x \in Int /\ big * Q \in Int
    BY SMT, <1>1, <1>3, <1>4, <1>6
  <2> QED BY SMT, <2>1, <1>1, <1>3, <1>4, <1>6
<1>8. r = s
  <2>1. y \in Int
    BY <1>3
  <2> QED BY <2>1, <1>3, <1>4, <1>6, <1>7, OneRest
<1>9. x \in 0..(k - 1)
  BY <1>4, <1>5
<1>10. R = n * x + s
  BY <1>4, <1>8
<1> QED BY <1>9, <1>10 DEF Splits, x, s, R

\* Times.
LEMMA UnitsAre ==
  /\ {Minute, Hour, Day, 24, 60} \subseteq Nat \ {0}
  /\ Hour = 60 * Minute /\ Day = 24 * Hour
BY SMT DEF Minute, Hour, Day

\* The parts of a number of seconds make it up.
LEMMA PartsAre ==
  ASSUME NEW seconds \in Nat
  PROVE  \E d \in Nat, h \in 0..23, m \in 0..59, s \in 0..59 :
           /\ Parts(seconds) = [d |-> d, h |-> h, m |-> m, s |-> s]
           /\ seconds = Day * d + (Hour * h + (Minute * m + s))
<1> DEFINE d == seconds \div Day
           s == seconds % Minute
           u == seconds % Day
           v == seconds % Hour
           K == 24
           L == 60
<1>1. Parts(seconds) = [d |-> d, h |-> u \div Hour, m |-> v \div Minute, s |-> s]
  BY DEF Parts
<1>2. Minute \in Nat \ {0} /\ Hour \in Nat \ {0} /\ Day \in Nat \ {0}
  BY UnitsAre
<1>3. K \in Nat \ {0} /\ L \in Nat \ {0} /\ Hour = L * Minute /\ Day = K * Hour
  BY UnitsAre
<1> HIDE DEF K, L
<1>4. d \in Nat /\ u \in 0..(Day - 1) /\ seconds = Day * d + u
  BY <1>2, Division
<1>5. s \in 0..(Minute - 1)
  BY <1>2, Division
<1>6. PICK h \in 0..(K - 1) : u \div Hour = h /\ u = Hour * h + v
  <2>1. Splits(seconds, Day, Hour, K)
    BY <1>2, <1>3, SubUnit
  <2> QED BY <2>1 DEF Splits
<1>7. PICK m \in 0..(L - 1) : v \div Minute = m /\ v = Minute * m + s
  <2>1. Splits(seconds, Hour, Minute, L)
    BY <1>2, <1>3, SubUnit
  <2> QED BY <2>1 DEF Splits
<1> HIDE DEF d, s, u, v
<1>8. h \in 0..23 /\ m \in 0..59 /\ s \in 0..59
  BY SMT, <1>5, <1>6, <1>7 DEF K, L, Minute
<1>9. seconds = Day * d + (Hour * h + (Minute * m + s))
  BY <1>4, <1>6, <1>7
<1> QED BY <1>1, <1>4, <1>6, <1>7, <1>8, <1>9

\* Leaving out the parts below one loses less than its unit.
LEMMA KeptParts ==
  ASSUME NEW d \in Nat, NEW h \in 0..23, NEW m \in 0..59, NEW s \in 0..59,
         NEW seconds \in Nat, seconds = Day * d + (Hour * h + (Minute * m + s))
  PROVE  /\ IsTextOf([d |-> d, h |-> h, m |-> m, s |-> s], seconds, 1)
         /\ IsTextOf([d |-> d, h |-> h, m |-> m, s |-> 0], seconds, Minute)
         /\ IsTextOf([d |-> d, h |-> 0, m |-> 0, s |-> 0], seconds, Day)
         /\ d = 0 => IsTextOf([d |-> 0, h |-> h, m |-> 0, s |-> 0], seconds, Hour)
         /\ d + h + m > 0 <=> ~(seconds < Minute)
<1>1. IsTextOf([d |-> d, h |-> h, m |-> m, s |-> s], seconds, 1)
  BY SMT DEF IsTextOf, SecondsOf, Day, Hour, Minute
<1>2. IsTextOf([d |-> d, h |-> h, m |-> m, s |-> 0], seconds, Minute)
  BY SMT DEF IsTextOf, SecondsOf, Day, Hour, Minute
<1>3. IsTextOf([d |-> d, h |-> 0, m |-> 0, s |-> 0], seconds, Day)
  BY SMT DEF IsTextOf, SecondsOf, Day, Hour, Minute
<1>4. d = 0 => IsTextOf([d |-> 0, h |-> h, m |-> 0, s |-> 0], seconds, Hour)
  BY SMT DEF IsTextOf, SecondsOf, Day, Hour, Minute
<1>5. d + h + m > 0 <=> ~(seconds < Minute)
  BY SMT DEF Day, Hour, Minute
<1> QED BY <1>1, <1>2, <1>3, <1>4, <1>5

LEMMA RowsAre ==
  ASSUME positions \in Lists \cup {<<>>}
  PROVE  /\ Len(positions) \in Nat /\ DOMAIN positions = 1..Len(positions)
         /\ positions \in [1..Len(positions) -> ToSet(positions)]
         /\ \A row \in ToSet(positions) : IsRow(row)
<1>1. CASE positions = <<>>
  BY <1>1 DEF ToSet
<1>2. CASE positions \in Lists
  <2>1. positions \in Seq(ToSet(positions)) /\ \A row \in ToSet(positions) : IsRow(row)
    BY <1>2, TradeConsoleAssumption
  <2> QED BY <2>1
<1> QED BY <1>1, <1>2

\* formatHoldingDuration, formatCompactRelativeTime and formatRelativeTime.
LEMMA HeldIs ==
  ASSUME NEW openedAt, NEW closedAt, now \in Nat, openedAt \in Nat, closedAt \in Nat
  PROVE  LET held == formatHoldingDuration(openedAt, closedAt, now)
             end  == IF closedAt = 0 THEN now ELSE closedAt
         IN IsTextOf(held, AtLeast(end - openedAt, 0), IF held.d > 0 THEN Minute ELSE 1)
<1> DEFINE end == IF closedAt = 0 THEN now ELSE closedAt
           length == AtLeast(end - openedAt, 0)
           p == Parts(length)
           held == formatHoldingDuration(openedAt, closedAt, now)
<1>1. length \in Nat
  BY DEF AtLeast
<1>2. held = IF p.d > 0 THEN [p EXCEPT !.s = 0] ELSE p
  BY DEF formatHoldingDuration
<1> HIDE DEF held, length
<1>3. PICK d \in Nat, h \in 0..23, m \in 0..59, s \in 0..59 :
        /\ p = [d |-> d, h |-> h, m |-> m, s |-> s]
        /\ length = Day * d + (Hour * h + (Minute * m + s))
  BY <1>1, PartsAre
<1> HIDE DEF p
<1>4. /\ IsTextOf([d |-> d, h |-> h, m |-> m, s |-> s], length, 1)
      /\ IsTextOf([d |-> d, h |-> h, m |-> m, s |-> 0], length, Minute)
  BY <1>1, <1>3, KeptParts
<1>5. held = [d |-> d, h |-> h, m |-> m, s |-> IF d > 0 THEN 0 ELSE s]
  BY <1>2, <1>3
<1>6. IsTextOf(held, length, IF held.d > 0 THEN Minute ELSE 1)
  BY <1>4, <1>5
<1> QED BY <1>6 DEF held, length

LEMMA AgesAre ==
  ASSUME NEW openedAt, now \in Nat, openedAt \in Nat \ {0}
  PROVE  LET compact == formatCompactRelativeTime(openedAt, now)
             short   == formatRelativeTime(openedAt, now)
             age     == AtLeast(now - openedAt, 0)
         IN /\ IsTextOf(compact, age, IF age < Minute THEN 1 ELSE Minute)
            /\ IsTextOf(short, age, IF short.d > 0 THEN Day ELSE IF short.h > 0 THEN Hour
                                    ELSE IF short.m > 0 THEN Minute ELSE 1)
<1> DEFINE age == AtLeast(now - openedAt, 0)
           p == Parts(age)
           compact == formatCompactRelativeTime(openedAt, now)
           short == formatRelativeTime(openedAt, now)
<1>1. age \in Nat
  BY DEF AtLeast
<1>2. compact = IF p.d + p.h + p.m > 0 THEN [p EXCEPT !.s = 0] ELSE p
  BY DEF formatCompactRelativeTime
<1>3. short = IF p.d > 0 THEN [NoParts EXCEPT !.d = p.d]
              ELSE IF p.h > 0 THEN [NoParts EXCEPT !.h = p.h]
              ELSE IF p.m > 0 THEN [NoParts EXCEPT !.m = p.m] ELSE p
  BY DEF formatRelativeTime
<1> HIDE DEF age, compact, short
<1>4. PICK d \in Nat, h \in 0..23, m \in 0..59, s \in 0..59 :
        /\ p = [d |-> d, h |-> h, m |-> m, s |-> s]
        /\ age = Day * d + (Hour * h + (Minute * m + s))
  BY <1>1, PartsAre
<1> HIDE DEF p
<1>5. /\ IsTextOf([d |-> d, h |-> h, m |-> m, s |-> s], age, 1)
      /\ IsTextOf([d |-> d, h |-> h, m |-> m, s |-> 0], age, Minute)
      /\ IsTextOf([d |-> d, h |-> 0, m |-> 0, s |-> 0], age, Day)
      /\ d = 0 => IsTextOf([d |-> 0, h |-> h, m |-> 0, s |-> 0], age, Hour)
      /\ d + h + m > 0 <=> ~(age < Minute)
  BY <1>1, <1>4, KeptParts
<1>6. compact = [d |-> d, h |-> h, m |-> m, s |-> IF d + h + m > 0 THEN 0 ELSE s]
  BY <1>2, <1>4
<1>7. IsTextOf(compact, age, IF age < Minute THEN 1 ELSE Minute)
  BY <1>5, <1>6
<1>8. IsTextOf(short, age, IF short.d > 0 THEN Day ELSE IF short.h > 0 THEN Hour
                           ELSE IF short.m > 0 THEN Minute ELSE 1)
  <2>1. CASE d > 0
    <3>1. short = [d |-> d, h |-> 0, m |-> 0, s |-> 0]
      BY <1>3, <1>4, <2>1 DEF NoParts
    <3> QED BY <1>5, <2>1, <3>1
  <2>2. CASE d = 0 /\ h > 0
    <3>1. short = [d |-> 0, h |-> h, m |-> 0, s |-> 0]
      BY <1>3, <1>4, <2>2 DEF NoParts
    <3> QED BY <1>5, <2>2, <3>1
  <2>3. CASE d = 0 /\ h = 0 /\ m > 0
    <3>1. short = [d |-> d, h |-> h, m |-> m, s |-> 0]
      BY <1>3, <1>4, <2>3 DEF NoParts
    <3> QED BY <1>5, <2>3, <3>1
  <2>4. CASE d = 0 /\ h = 0 /\ m = 0
    <3>1. short = [d |-> d, h |-> h, m |-> m, s |-> s]
      BY <1>3, <1>4, <2>4
    <3> QED BY <1>5, <2>4, <3>1
  <2> QED BY <2>1, <2>2, <2>3, <2>4
<1> QED BY <1>7, <1>8 DEF age, compact, short

LEMMA TimesAre ==
  ASSUME positions \in Lists \cup {<<>>}, now \in Nat
  PROVE  TimesReadBack
<1>1. ASSUME NEW row \in ToSet(positions)
      PROVE  row.openedAt \in Nat \ {0} /\ row.closedAt \in Nat
  BY RowsAre DEF IsRow
<1> QED BY <1>1, HeldIs, AgesAre DEF TimesReadBack
\* A rounded number is off by half a unit at most.
LEMMA Rounded ==
  ASSUME NEW a \in Nat, NEW u \in Nat \ {0}
  PROVE  /\ RoundDiv(a, u) \in Nat
         /\ 2 * (RoundDiv(a, u) * u - a) <= u /\ 2 * (a - RoundDiv(a, u) * u) <= u
<1> DEFINE x == 2 * a + u
           y == 2 * u
           q == x \div y
<1>1. x \in Nat /\ y \in Nat \ {0}
  BY SMT
<1> HIDE DEF x, y
<1>2. q \in Nat /\ y * q <= x /\ x < y * q + y
  BY SMT, <1>1
<1> HIDE DEF q
<1>3. RoundDiv(a, u) = q
  BY SMT DEF RoundDiv, q, x, y
<1>4. y * q = 2 * (q * u)
  BY SMT, <1>2 DEF y
<1> DEFINE z == q * u
<1>5. z \in Int
  BY SMT, <1>2
<1> HIDE DEF z
<1>6. 2 * z <= 2 * a + u /\ 2 * a + u < 2 * z + 2 * u
  BY SMT, <1>2, <1>4 DEF x, y, z
<1>7. 2 * (z - a) <= u /\ 2 * (a - z) <= u
  BY SMT, <1>5, <1>6
<1> QED BY SMT, <1>2, <1>3, <1>7 DEF z

\* formatMarketCap: half of the last of its two decimals.
LEMMA MarketCapIs ==
  ASSUME NEW cost \in Nat
  PROVE  LET cap == formatMarketCap(cost)
         IN 2 * Abs(cap.hundredths * cap.unit - cost) <= cap.unit
<1> DEFINE cap == formatMarketCap(cost)
           unit == IF cost >= 100 * 1000000 THEN 1000000 ELSE IF cost >= 100 * 1000 THEN 1000 ELSE 1
<1>1. Abs(cost) = cost
  BY SMT DEF Abs
<1>2. cap.hundredths = RoundDiv(cost, unit) /\ cap.unit = unit
  BY SMT, <1>1 DEF formatMarketCap
<1>3. unit \in Nat \ {0}
  BY SMT
<1> HIDE DEF unit, cap
<1> DEFINE r == RoundDiv(cost, unit)
           z == r * unit
<1>4. r \in Nat /\ 2 * (z - cost) <= unit /\ 2 * (cost - z) <= unit
  BY <1>3, Rounded
<1> HIDE DEF r
<1>5. z \in Int
  BY <1>3, <1>4
<1>6. cap.hundredths * cap.unit = z
  BY <1>2 DEF r
<1> HIDE DEF z
<1>7. 2 * Abs(z - cost) <= unit
  BY <1>3, <1>4, <1>5 DEF Abs
<1> QED BY <1>2, <1>6, <1>7 DEF cap

\* A number rounded to hundreds or thousands.
LEMMA RoundedToHundreds ==
  ASSUME NEW a \in Nat
  PROVE  /\ RoundDiv(a, 100) \in Nat /\ RoundDiv(a, 1000) \in Nat
         /\ RoundDiv(a, 100) * 100 - a \in -50..50
         /\ RoundDiv(a, 1000) * 1000 - a \in -500..500
<1> DEFINE c == 100
           m == 1000
           C == RoundDiv(a, c)
           M == RoundDiv(a, m)
<1>1. c \in Nat \ {0} /\ m \in Nat \ {0}
  BY SMT
<1> HIDE DEF c, m
<1>2. C \in Nat /\ 2 * (C * c - a) <= c /\ 2 * (a - C * c) <= c
  BY <1>1, Rounded
<1>3. M \in Nat /\ 2 * (M * m - a) <= m /\ 2 * (a - M * m) <= m
  BY <1>1, Rounded
<1> HIDE DEF C, M
<1>4. C * 100 - a \in -50..50 /\ M * 1000 - a \in -500..500
  BY SMT, <1>2, <1>3 DEF c, m
<1>5. C = RoundDiv(a, 100) /\ M = RoundDiv(a, 1000)
  BY SMT DEF C, M, c, m
<1> QED BY SMT, <1>2, <1>3, <1>4, <1>5

\* formatCompactTokenAmount, case by case.
LEMMA CompactAmountIs ==
  ASSUME NEW a \in Nat
  PROVE
    LET text == formatCompactTokenAmount(a)
        read == text.millions * 1000000 + text.thousands * 1000
                  + text.tenths * 100 + text.ones
    IN Abs(read - a)
         <= (IF text.millions > 0 /\ text.thousands > 0 THEN 999
             ELSE IF text.thousands > 0 THEN 500 ELSE IF text.tenths > 0 THEN 50
             ELSE IF text.millions > 0 THEN 50 ELSE 0)
<1> DEFINE text == formatCompactTokenAmount(a)
           read == text.millions * 1000000 + text.thousands * 1000
                     + text.tenths * 100 + text.ones
           off == IF text.millions > 0 /\ text.thousands > 0 THEN 999
                  ELSE IF text.thousands > 0 THEN 500 ELSE IF text.tenths > 0 THEN 50
                  ELSE IF text.millions > 0 THEN 50 ELSE 0
           million == 1000000
           thousand == 1000
           M == a \div million
           k == (a % million) \div thousand
           low == a % thousand
           R == RoundDiv(low, 100)
           T == RoundDiv(a, 1000)
           H == RoundDiv(a, 100)
           is(millions, thousands, tenths, ones) ==
             /\ text.millions = millions /\ text.thousands = thousands
             /\ text.tenths = tenths /\ text.ones = ones
<1>1. M \in Nat /\ k \in 0..999 /\ low \in 0..999 /\ a = M * 1000000 + k * 1000 + low
  <2> DEFINE u == a % million
  <2>1. million \in Nat \ {0} /\ thousand \in Nat \ {0} /\ million = thousand * thousand
    BY SMT
  <2> HIDE DEF million, thousand
  <2>2. M \in Nat /\ a = million * M + u
    BY <2>1, Division
  <2>3. low \in 0..(thousand - 1)
    BY <2>1, Division
  <2>4. PICK n \in 0..(thousand - 1) : k = n /\ u = thousand * n + low
    <3>1. Splits(a, million, thousand, thousand)
      BY <2>1, SubUnit
    <3> QED BY <3>1 DEF Splits
  <2> HIDE DEF M, u, low, k
  <2>5. million = 1000000 /\ thousand = 1000
    BY SMT DEF million, thousand
  <2> QED BY SMT, <2>2, <2>3, <2>4, <2>5
<1>2. /\ a >= 1000000 /\ k > 0 => is(M, k, 0, 0)
      /\ a >= 1000000 /\ k = 0 => is(M, 0, R, 0)
      /\ a < 1000000 /\ a >= 100000 => is(0, T, 0, 0)
      /\ a < 100000 /\ a >= 1000 => is(0, 0, H, 0)
      /\ a < 1000 => is(0, 0, 0, a)
  <2>1. Abs(a) = a
    BY SMT DEF Abs
  <2>2. a >= 1000000 /\ k > 0 => is(M, k, 0, 0)
    BY SMT, <2>1 DEF formatCompactTokenAmount
  <2>3. a >= 1000000 /\ k = 0 => is(M, 0, R, 0)
    BY SMT, <1>1, <2>1 DEF formatCompactTokenAmount
  <2>4. a < 1000000 /\ a >= 100000 => is(0, T, 0, 0)
    BY SMT, <2>1 DEF formatCompactTokenAmount
  <2>5. a < 100000 /\ a >= 1000 => is(0, 0, H, 0)
    BY SMT, <2>1 DEF formatCompactTokenAmount
  <2>6. a < 1000 => is(0, 0, 0, a)
    BY SMT, <2>1 DEF formatCompactTokenAmount
  <2> QED BY <2>2, <2>3, <2>4, <2>5, <2>6
<1> HIDE DEF M, k, low
<1>3. /\ R \in Nat /\ R * 100 - low \in -50..50
      /\ T \in Nat /\ T * 1000 - a \in -500..500
      /\ H \in Nat /\ H * 100 - a \in -50..50
  <2>1. low \in Nat
    BY SMT, <1>1
  <2> QED BY SMT, <2>1, RoundedToHundreds
<1> HIDE DEF text, R, T, H
<1>4. Abs(read - a) <= off
  <2>1. CASE a >= 1000000 /\ k > 0
    <3>1. is(M, k, 0, 0) /\ M > 0
      BY SMT, <1>1, <1>2, <2>1
    <3>2. read - a = -low /\ off = 999
      BY SMT, <1>1, <2>1, <3>1
    <3> HIDE DEF read, off
    <3> QED BY SMT, <1>1, <3>2 DEF Abs
  <2>2. CASE a >= 1000000 /\ k = 0
    BY SMT, <1>1, <1>2, <1>3, <2>2 DEF Abs
  <2>3. CASE a < 1000000 /\ a >= 100000
    BY SMT, <1>2, <1>3, <2>3 DEF Abs
  <2>4. CASE a < 100000 /\ a >= 1000
    BY SMT, <1>2, <1>3, <2>4 DEF Abs
  <2>5. CASE a < 1000
    BY SMT, <1>2, <2>5 DEF Abs
  <2> QED BY SMT, <1>1, <2>1, <2>2, <2>3, <2>4, <2>5
<1> QED BY SMT, <1>4 DEF text

LEMMA AmountsAre ==
  ASSUME positions \in Lists \cup {<<>>}
  PROVE  AmountsReadBack
<1>1. ASSUME NEW row \in ToSet(positions)
      PROVE  row.costAmount \in Nat /\ row.quantity \in Nat
  BY RowsAre DEF IsRow
<1> QED BY SMT, <1>1, MarketCapIs, CompactAmountIs DEF AmountsReadBack

\* The places of a sublist.
LEMMA PlacesAre ==
  ASSUME NEW m \in Nat, NEW places \in SUBSET (1..m)
  PROVE  /\ Cardinality(places) \in Nat
         /\ \E order \in [1..Cardinality(places) -> 1..m] :
              \A list : Sublist(list, places) = [n \in 1..Cardinality(places) |-> list[order[n]]]
<1> DEFINE R == {p \in places \X places : p[1] < p[2]}
           g == Arranged(places, R)
           N == Cardinality(places)
<1>1. IsFiniteSet(places)
  <2>1. IsFiniteSet(1..m)
    BY FS_Interval
  <2> QED BY <2>1, FS_Subset
<1>2. g \in Seq(places) /\ N \in Nat /\ DOMAIN g = 1..N
  <2>1. StrictOrder(places, R)
    BY DEF StrictOrder
  <2>2. g = Arranged(places, R)
    OBVIOUS
  <2> HIDE DEF g, R
  <2> QED BY <1>1, <2>1, <2>2, ArrangedIs
<1>3. \A list : Sublist(list, places) = [n \in 1..N |-> list[g[n]]]
  BY DEF Sublist
<1> HIDE DEF g, N
<1>4. g \in [1..N -> 1..m]
  <2>1. g \in [1..Len(g) -> places] /\ DOMAIN g = 1..Len(g)
    BY <1>2
  <2> QED BY <1>2, <2>1
<1> QED BY <1>2, <1>3, <1>4 DEF N

LEMMA BarIs ==
  ASSUME NEW row, IsRow(row)
  PROVE  (positionPnlBarStyle(row).color = "red") <=> (positionTotalPnl(row) < 0)
<1>1. /\ row.costAmount \in Nat \ {0} /\ positionTotalPnl(row) \in Int
  BY DEF IsRow, positionTotalPnl
<1> QED BY <1>1 DEF positionPnlBarStyle

LEMMA TotalsAre ==
  ASSUME positions \in Lists \cup {<<>>}
  PROVE  TotalsMatchRows
<1> DEFINE m == Len(positions)
           P == {i \in DOMAIN positions : positions[i].status = "open"}
           open == openTradePositions(positions)
           pnl == [i \in 1..m |-> positionTotalPnl(positions[i])]
           value == [i \in 1..m |-> positionDisplayMarketValue(positions[i])]
           masked(list) == [i \in 1..m |-> IF i \in P THEN list[i] ELSE 0]
           worth(row) == IF row.marketValue > 0 THEN row.marketValue
                         ELSE AtLeast(row.costAmount + positionTotalPnl(row), 0)
<1>1. m \in Nat /\ DOMAIN positions = 1..m /\ P \in SUBSET (1..m)
  BY RowsAre
<1>2. \A i \in 1..m : IsRow(positions[i])
  BY RowsAre
<1>3. \A i \in 1..m : /\ positionTotalPnl(positions[i]) \in Int
                      /\ positionDisplayMarketValue(positions[i]) \in Int
                      /\ positionDisplayMarketValue(positions[i]) = worth(positions[i])
  <2> TAKE i \in 1..m
  <2>1. /\ positions[i].costAmount \in Nat \ {0} /\ positions[i].marketValue \in Nat
        /\ positions[i].realizedPnl \in Int /\ positions[i].unrealizedPnl \in Int
    BY <1>2 DEF IsRow
  <2>2. positionTotalPnl(positions[i]) \in Int
    BY <2>1 DEF positionTotalPnl
  <2> QED BY <2>1, <2>2 DEF positionDisplayMarketValue, AtLeast
<1>4. pnl \in [1..m -> Int] /\ value \in [1..m -> Int]
  BY <1>3
<1>5. open = Sublist(positions, P)
  BY DEF openTradePositions
<1> HIDE DEF m, P
<1> DEFINE N == Cardinality(P)
<1>6. PICK order \in [1..N -> 1..m] :
        \A list : Sublist(list, P) = [n \in 1..N |-> list[order[n]]]
  BY <1>1, PlacesAre
<1>7. DOMAIN open = 1..N /\ \A n \in 1..N : open[n] = positions[order[n]] /\ order[n] \in 1..m
  <2>1. open = [n \in 1..N |-> positions[order[n]]]
    BY <1>5, <1>6
  <2> HIDE DEF open, N
  <2> QED BY <2>1
<1> HIDE DEF open, N
<1>8. Sublist(pnl, P) = [n \in DOMAIN open |-> positionTotalPnl(open[n])]
  <2>1. Sublist(pnl, P) = [n \in 1..N |-> pnl[order[n]]]
    BY <1>6
  <2>2. \A n \in 1..N : pnl[order[n]] = positionTotalPnl(open[n])
    BY <1>7
  <2> QED BY <1>7, <2>1, <2>2
<1>9. Sublist(value, P) = [n \in DOMAIN open |-> worth(open[n])]
  <2>1. Sublist(value, P) = [n \in 1..N |-> value[order[n]]]
    BY <1>6
  <2>2. \A n \in 1..N : value[order[n]] = worth(positions[order[n]])
    BY <1>3, <1>7
  <2>3. \A n \in 1..N : value[order[n]] = worth(open[n])
    BY <1>7, <2>2
  <2> HIDE DEF value, worth
  <2> QED BY <1>7, <2>1, <2>3
<1>10. /\ SumOf([n \in DOMAIN open |-> positionTotalPnl(open[n])]) = SumOf(masked(pnl))
       /\ SumOf([n \in DOMAIN open |-> worth(open[n])]) = SumOf(masked(value))
  <2> HIDE DEF pnl, value, worth
  <2>1. SumOf(Sublist(pnl, P)) = SumOf(masked(pnl))
    BY <1>1, <1>4, SublistSum
  <2>2. SumOf(Sublist(value, P)) = SumOf(masked(value))
    BY <1>1, <1>4, SublistSum
  <2> QED BY <1>8, <1>9, <2>1, <2>2
<1>11. /\ summarizeOpenPositions(positions).totalPnl = SumOf(masked(pnl))
       /\ summarizeOpenPositions(positions).marketValue = SumOf(masked(value))
  BY <1>10 DEF summarizeOpenPositions, open
<1>12. \A i \in 1..m : i \in P <=> positions[i].status = "open"
  BY <1>1 DEF P
<1>13. \A row \in ToSet(positions) :
         (positionPnlBarStyle(row).color = "red") <=> (positionTotalPnl(row) < 0)
  BY RowsAre, BarIs
<1>14. /\ masked(pnl) = [i \in DOMAIN positions |->
                           IF positions[i].status = "open" THEN pnl[i] ELSE 0]
       /\ masked(value) = [i \in DOMAIN positions |->
                             IF positions[i].status = "open" THEN value[i] ELSE 0]
  BY <1>1, <1>12
<1>15. /\ pnl = [i \in DOMAIN positions |-> positionTotalPnl(positions[i])]
       /\ value = [i \in DOMAIN positions |-> positionDisplayMarketValue(positions[i])]
  BY <1>1
<1> HIDE DEF pnl, value
<1> QED BY <1>11, <1>13, <1>14, <1>15 DEF TotalsMatchRows

-----------------------------------------------------------------------------
TableInv == positions \in Lists \cup {<<>>} /\ now \in Nat

\* The clock starts at the first instant.
LEMMA FirstInstant == Min(Instants) \in Nat
<1>1. Instants \subseteq Nat /\ Instants # {}
  BY TradeConsoleAssumption
<1>2. PICK t \in Instants : t \in Nat
  BY <1>1
<1> DEFINE T == {u \in Instants : u <= t}
           R == {p \in T \X T : p[1] < p[2]}
<1>3. IsFiniteSet(T)
  <2>1. IsFiniteSet(0..t)
    BY <1>2, FS_Interval
  <2>2. \A u \in T : u \in 0..t
    BY <1>1, <1>2
  <2>3. T \subseteq 0..t
    BY <2>2
  <2> HIDE DEF T
  <2> QED BY <2>1, <2>3, FS_Subset
<1>4. StrictOrder(T, R) /\ T # {}
  BY <1>1, <1>2 DEF StrictOrder
<1>5. \A x, y \in T : <<x, y>> \in R => x < y
  OBVIOUS
<1>6. T \subseteq Instants /\ \A u \in Instants : u <= t => u \in T
  OBVIOUS
<1> HIDE DEF R, T
<1>7. PICK x \in T : \A y \in T \ {x} : <<x, y>> \in R
  BY <1>3, <1>4, LeastIs
<1>8. \A y \in T : x <= y
  <2>1. \A y \in T : y \in Nat
    BY <1>1, <1>6
  <2>2. \A y \in T \ {x} : x < y
    BY <1>5, <1>7
  <2> QED BY <2>1, <2>2
<1>9. t \in T
  BY <1>1, <1>2, <1>6
<1>10. \A y \in Instants : x <= y
  <2> SUFFICES ASSUME NEW y \in Instants PROVE x <= y
    OBVIOUS
  <2>1. x \in Nat /\ y \in Nat
    BY <1>1, <1>6
  <2> QED BY <1>2, <1>6, <1>8, <1>9, <2>1
<1>11. x \in Instants
  BY <1>6
<1> QED BY <1>1, <1>10, <1>11 DEF Min

\* The table shows a list that was loaded, at a second of the clock.
LEMMA TableAlways == Spec => []TableInv
<1>1. Init => TableInv
  BY FirstInstant DEF Init, TableInv
<1>2. TableInv /\ [Next]_vars => TableInv'
  <2> SUFFICES ASSUME TableInv, [Next]_vars PROVE TableInv'
    OBVIOUS
  <2>0. Instants \subseteq Nat
    BY TradeConsoleAssumption
  <2>1. CASE \E items \in Lists : PositionsChange(items)
    BY <2>1 DEF PositionsChange, TableInv
  <2>2. CASE \E time \in Instants : Tick(time)
    BY <2>0, <2>2 DEF Tick, TableInv
  <2>3. CASE UNCHANGED vars \/ Backend
    BY <2>3 DEF Backend, Begin, Finish, OtherClient, StartupRead, vars, tableVars, TableInv
  <2>4. CASE User
    BY <2>4 DEF User, handleTradeModeChange, handleSwitch, EditAmount,
                handleBuyAmountSave, ClickClose, Cancel, Confirm, handleClosePosition,
                tableVars, TableInv
  <2>5. CASE \/ loadTradeRuntime \/ MethodsAnswered \/ StartupFails
             \/ \E s \in Slots : UpdateAnswered(s) \/ UpdateFailed(s)
             \/ \E id \in closes : CloseEnded(id)
    BY <2>5 DEF loadTradeRuntime, MethodsAnswered, StartupFails, UpdateAnswered,
                UpdateFailed, CloseEnded, tableVars, TableInv
  <2> QED BY <2>1, <2>2, <2>3, <2>4, <2>5 DEF Next, Page
<1> QED BY <1>1, <1>2, PTL DEF Spec

\* The ages, durations and amounts of the table can be read back to the digit
\* they are shown with, and the strip over it sums the rows that are open, for
\* any rows and at any second (formatHoldingDuration, formatRelativeTime,
\* formatMarketCap, formatCompactTokenAmount, summarizeOpenPositions).
THEOREM TablesAlwaysReadBack == Spec => []TablesReadBack
<1>1. TableInv => TablesReadBack
  BY TimesAre, AmountsAre, TotalsAre DEF TableInv, TablesReadBack
<1> QED BY <1>1, TableAlways, PTL
==============================================================================

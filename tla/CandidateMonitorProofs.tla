------------------------ MODULE CandidateMonitorProofs ------------------------
(***************************************************************************)
(* Theorems about CandidateMonitor for any number of bars, attempts and    *)
(* faults.                                                                 *)
(***************************************************************************)
EXTENDS CandidateMonitor, TLAPS

-----------------------------------------------------------------------------
(* Types.                                                                  *)

\* The ids of a state belong together: a sell names the buy and the attempt of
\* its state, and the buy is of a bar that has been decided.
WellFormed(state) ==
  /\ state \in State
  /\ state.status = "watching" => state.buySignalId = None /\ state.sellSignalId = None
  /\ state.status = "bought" => state.buySignalId \in Buys
  /\ state.buySignalId # None => state.buySignalId.bar <= state.lastDecisionBar
  /\ state.sellSignalId # None =>
       /\ state.sellSignalId.buy = state.buySignalId
       /\ state.sellSignalId.attempt = state.sellAttempt
       /\ state.sellAttempt <= MaxAttempts

Emitting == {"emit", "emit_save", "publish"}
Leaving == {"stop_save", "stop_remove"}

\* What an actor has in hand fits the place where it is.
InHand(a, label, state) ==
  /\ label \in {"idle", "blacklisted"} \/ WellFormed(state)
  /\ label \in {"load", "decide"} => a \in Loops /\ state.status = a
  /\ label \in {"sync_save", "exit"} =>
       a = "bought" /\ state.status = "bought" /\ state.sellSignalId = None
  /\ label \in Emitting =>
       /\ a \in Loops /\ state.status = "bought"
       /\ a = "watching" <=> state.sellSignalId = None
  /\ label = "save" =>
       \/ a = "watching" /\ state.status = "watching"
       \/ a = "bought" /\ state.status \in Loops
       \/ a = "symbol"
  /\ label \in Leaving => state.status \in {"stopped", "sold"}

Copies == \A a \in Actors : InHand(a, pc[a], copy[a])

\* Nothing was decided on a bar that has not formed, and a loop that decides has
\* loaded a bar no older than the last one decided.
Deciding == {"decide", "sync_save", "exit"}

Timely ==
  /\ stored.lastDecisionBar <= bar
  /\ \A a \in Actors : pc[a] \notin {"idle", "blacklisted"} => copy[a].lastDecisionBar <= bar
  /\ \A l \in Loops :
       /\ loadedBar[l] <= bar
       /\ pc[l] \in Deciding =>
            loadedBar[l] \in Bars /\ copy[l].lastDecisionBar <= loadedBar[l]

Typed == TypeOK /\ WellFormed(stored) /\ Copies /\ Timely

LEMMA StateFields ==
  ASSUME NEW state \in State
  PROVE  /\ state.status \in Statuses /\ state.buySignalId \in Buys \cup {None}
         /\ state.sellSignalId \in Sells \cup {None} /\ state.sellAttempt \in Attempts
         /\ state.lastDecisionBar \in 0..MaxBars /\ state.lastExitBar \in 0..MaxBars
         /\ state.symbol \in BOOLEAN
BY DEF State

\* What the helpers make of a state.
LEMMA Rebought ==
  ASSUME NEW state, WellFormed(state)
  PROVE  /\ WellFormed(Rebuy(state)) /\ Rebuy(state).status = "watching"
         /\ Rebuy(state).lastDecisionBar = state.lastDecisionBar
         /\ Rebuy(state).lastExitBar = state.lastExitBar
<1> DEFINE r == Rebuy(state)
<1>1. /\ r.status = "watching" /\ r.buySignalId = None /\ r.sellSignalId = None
      /\ r.sellAttempt = 0 /\ r.lastDecisionBar = state.lastDecisionBar
      /\ r.lastExitBar = state.lastExitBar
  BY DEF WellFormed, Rebuy, State
<1>2. r \in State
  <2>1. state \in State /\ "watching" \in Statuses /\ 0 \in Attempts
    BY ConstantsAssumption DEF WellFormed, Statuses, Attempts
  <2>2. QED
    BY <2>1 DEF Rebuy, State
<1> HIDE DEF r
<1>3. QED
  BY <1>1, <1>2 DEF WellFormed, r

LEMMA Rearms ==
  ASSUME NEW state, WellFormed(state), NEW b \in 0..MaxBars
  PROVE  /\ WellFormed(Rearmed(state, b)) /\ Rearmed(state, b).status = "watching"
         /\ Rearmed(state, b).lastDecisionBar = b
         /\ Rearmed(state, b).lastExitBar = b
<1> DEFINE r == Rebuy(state)
           q == Rearmed(state, b)
<1>1. WellFormed(r) /\ r.status = "watching"
  BY Rebought
<1>2. q = [r EXCEPT !.lastDecisionBar = b, !.lastExitBar = b]
  BY DEF Rearmed
<1> HIDE DEF r, q
<1>3. /\ q \in State /\ q.status = r.status /\ q.buySignalId = r.buySignalId
      /\ q.sellSignalId = r.sellSignalId /\ q.lastDecisionBar = b /\ q.lastExitBar = b
  BY <1>1, <1>2 DEF WellFormed, State
<1>4. QED
  BY <1>1, <1>3 DEF WellFormed, q

LEMMA Retries ==
  ASSUME NEW state, WellFormed(state), state.status = "bought", state.sellSignalId # None
  PROVE  /\ WellFormed(Retried(state)) /\ Retried(state).status = "bought"
         /\ Retried(state).buySignalId = state.buySignalId
         /\ Retried(state).sellSignalId = None
         /\ Retried(state).sellAttempt = state.sellAttempt + 1
         /\ Retried(state).lastDecisionBar = state.lastDecisionBar
         /\ Retried(state).lastExitBar = state.lastExitBar
<1> DEFINE r == Retried(state)
<1>1. state \in State /\ state.sellAttempt + 1 \in Attempts
  BY ConstantsAssumption DEF WellFormed, Attempts, State
<1>2. /\ r \in State /\ r.status = state.status /\ r.buySignalId = state.buySignalId
      /\ r.sellSignalId = None /\ r.sellAttempt = state.sellAttempt + 1
      /\ r.lastDecisionBar = state.lastDecisionBar /\ r.lastExitBar = state.lastExitBar
  BY <1>1 DEF Retried, State
<1> HIDE DEF r
<1>3. QED
  BY <1>2 DEF WellFormed, r

LEMMA Stops ==
  ASSUME NEW state, WellFormed(state), NEW status \in {"stopped", "sold"}
  PROVE  /\ WellFormed(Stopped(state, status)) /\ Stopped(state, status).status = status
BY DEF WellFormed, Stopped, State, Statuses

\* SaveState changes nothing of a state but its symbol.
LEMMA Merges ==
  ASSUME NEW state, WellFormed(state), stored \in State
  PROVE  /\ WellFormed(Merged(state)) /\ Merged(state).status = state.status
         /\ Merged(state).buySignalId = state.buySignalId
         /\ Merged(state).sellSignalId = state.sellSignalId
         /\ Merged(state).sellAttempt = state.sellAttempt
         /\ Merged(state).lastDecisionBar = state.lastDecisionBar
         /\ Merged(state).lastExitBar = state.lastExitBar
         /\ stored.symbol => Merged(state).symbol
BY DEF WellFormed, Merged, State

LEMMA PendingKind ==
  ASSUME NEW state, WellFormed(state), state.status = "bought"
  PROVE  /\ Pending(state) \in Signals
         /\ state.sellSignalId = None =>
              Pending(state) = state.buySignalId /\ Pending(state) \in Buys
         /\ state.sellSignalId # None =>
              Pending(state) = state.sellSignalId /\ Pending(state) \in Sells
BY DEF WellFormed, Pending, State, Signals

LEMMA SidesApart ==
  /\ \A s \in Buys : s.side = "buy" /\ s.bar \in Bars /\ s \notin Sells /\ s # None
  /\ \A s \in Sells : /\ s.side = "sell" /\ s.bar \in Bars /\ s.buy \in Buys
                      /\ s.attempt \in Attempts /\ s \notin Buys /\ s # None
BY NoneAssumption DEF Signals, Buys, Sells

-----------------------------------------------------------------------------
(* Every step keeps the types.                                             *)

LEMMA LoopsAct == Loops \subseteq Actors /\ "watching" \in Loops /\ "bought" \in Loops
BY DEF Loops, Actors

LEMMA IdleHand == \A a, state : InHand(a, "idle", state)
BY DEF InHand, Emitting, Leaving

LEMMA TypedInit == Init => Typed
<1> SUFFICES ASSUME Init PROVE Typed
  OBVIOUS
<1>1. WellFormed(NewCandidate)
  BY ConstantsAssumption DEF WellFormed, NewCandidate, State, Statuses, Attempts
<1>2. Copies
  BY IdleHand DEF Init, Copies
<1>7. Timely
  BY LoopsAct DEF Init, Timely, NewCandidate, Deciding
<1>3. DOMAIN rows = {} /\ Range(rows) = {}
  BY DEF Init, Range
<1>4. NewCandidate \in State /\ 1 \in Bars /\ 0 \in 0..MaxBars /\ 0 \in 0..MaxFaults
  BY <1>1, ConstantsAssumption DEF WellFormed, Bars
<1>5. <<>> \in Seq(Signals)
  OBVIOUS
<1>6. TypeOK
  BY <1>3, <1>4, <1>5 DEF Init, TypeOK, PcStates
<1>. QED
  BY <1>1, <1>2, <1>6, <1>7 DEF Init, Typed

\* The actor at a step goes on, or returns: the others keep what they have.
LEMMA ContinueTyped ==
  ASSUME Typed, NEW a \in Actors, NEW state, NEW label \in PcStates,
         state \in State, InHand(a, label, state), Continue(a, state, label)
  PROVE  /\ candidateMu' \in Actors \cup {None}
         /\ pc' \in [Actors -> PcStates] /\ copy' \in [Actors -> State \cup {None}]
         /\ Copies'
         /\ pc'[a] = label /\ copy'[a] = state
         /\ \A b \in Actors : b # a => pc'[b] = pc[b] /\ copy'[b] = copy[b]
BY DEF Typed, TypeOK, Copies, Continue, Copy, Go

LEMMA ReturnTyped ==
  ASSUME Typed, NEW a \in Actors, Return(a)
  PROVE  /\ candidateMu' \in Actors \cup {None}
         /\ pc' \in [Actors -> PcStates] /\ copy' \in [Actors -> State \cup {None}]
         /\ Copies'
         /\ pc'[a] = "idle" /\ copy'[a] = None
         /\ \A b \in Actors : b # a => pc'[b] = pc[b] /\ copy'[b] = copy[b]
<1>1. InHand(a, "idle", None) /\ "idle" \in PcStates
  BY IdleHand DEF PcStates
<1>. QED
  BY <1>1 DEF Typed, TypeOK, Copies, Return, Copy, Go

LEMMA SaveTyped ==
  ASSUME Typed, NEW a \in Actors, NEW from, NEW to,
         \/ from = "save" /\ to = "idle"
         \/ from = "sync_save" /\ to = "exit"
         \/ from = "stop_save" /\ to = "stop_remove"
         \/ from = "emit_save" /\ to = "publish",
         Save(a, from, to)
  PROVE  Typed'
<1>1. pc[a] = from /\ from # "idle" /\ from # "blacklisted"
  BY DEF Save
<1>2. InHand(a, from, copy[a]) /\ WellFormed(copy[a]) /\ copy[a] \in State
  BY <1>1 DEF Typed, Copies, InHand, WellFormed
<1>3. stored' \in State /\ WellFormed(stored')
  BY <1>2, Merges DEF Save, Typed, TypeOK, WellFormed
<1>4. to # "idle" => InHand(a, to, copy[a]) /\ to \in PcStates
  BY <1>2 DEF InHand, PcStates, Emitting, Leaving
<1>5. /\ candidateMu' \in Actors \cup {None}
      /\ pc' \in [Actors -> PcStates] /\ copy' \in [Actors -> State \cup {None}]
      /\ Copies' /\ (pc'[a] = "idle" \/ (pc'[a] = to /\ copy'[a] = copy[a]))
      /\ \A b \in Actors : b # a => pc'[b] = pc[b] /\ copy'[b] = copy[b]
  <2>1. CASE Return(a)
    BY <2>1, ReturnTyped
  <2>2. CASE to # "idle" /\ Continue(a, copy[a], to)
    BY <2>2, <1>2, <1>4, ContinueTyped
  <2>. QED
    BY <2>1, <2>2 DEF Save
<1>6. Timely'
  <2>1. UNCHANGED <<loadedBar, bar>>
    BY DEF Save
  <2>2. copy[a].lastDecisionBar <= bar /\ stored'.lastDecisionBar <= bar
    BY <1>1, <1>2, Merges DEF Save, Typed, TypeOK, Timely
  <2>3. to = "idle" \/ pc'[a] = "idle" \/ copy'[a] = copy[a]
    BY <1>5
  <2>4. pc'[a] \in Deciding /\ a \in Loops => pc[a] \in Deciding
    BY <1>1, <1>5 DEF Deciding
  <2>. QED
    BY <1>1, <1>5, <2>1, <2>2, <2>3, <2>4, LoopsAct DEF Timely, Typed, Deciding
<1>7. emitted' \subseteq Signals /\ faults' \in 0..MaxFaults
  BY ConstantsAssumption DEF Save, Typed, TypeOK, Fault
<1>8. UNCHANGED <<active, blacklisted, loadedBar, bar, overdue, trade, history>>
  BY DEF Save
<1>. QED
  BY <1>3, <1>5, <1>6, <1>7, <1>8 DEF Typed, TypeOK, trade, history

\* A step of one actor that leaves all but its copy and its place alone, the
\* emission keys and the bars loaded apart.
LEMMA ActorTyped ==
  ASSUME Typed, NEW a \in Actors, NEW state, NEW label \in PcStates,
         InHand(a, label, state),
         \/ state \in State /\ Continue(a, state, label)
         \/ label = "idle" /\ Return(a),
         stored' = stored, emitted' \subseteq Signals,
         active' \in BOOLEAN, blacklisted' \in BOOLEAN, faults' \in 0..MaxFaults,
         \/ loadedBar' = loadedBar
         \/ a \in Loops /\ loadedBar' = [loadedBar EXCEPT ![a] = bar],
         label = "idle" \/ state.lastDecisionBar <= bar,
         label \in Deciding =>
           /\ a \in Loops /\ loadedBar'[a] \in Bars
           /\ state.lastDecisionBar <= loadedBar'[a],
         UNCHANGED <<bar, overdue, trade, history>>
  PROVE  Typed'
<1>1. /\ candidateMu' \in Actors \cup {None}
      /\ pc' \in [Actors -> PcStates] /\ copy' \in [Actors -> State \cup {None}]
      /\ Copies' /\ pc'[a] = label /\ (label = "idle" \/ copy'[a] = state)
      /\ \A b \in Actors : b # a => pc'[b] = pc[b] /\ copy'[b] = copy[b]
  BY ContinueTyped, ReturnTyped
<1>2. Timely'
  <2>1. bar \in 0..MaxBars /\ bar <= bar
    BY ConstantsAssumption DEF Typed, TypeOK, Bars
  <2>2. loadedBar \in [Loops -> 0..MaxBars] /\ \A l \in Loops : loadedBar[l] <= bar
    BY DEF Typed, TypeOK, Timely
  <2>3. \A l \in Loops : loadedBar'[l] <= bar /\ (l # a => loadedBar'[l] = loadedBar[l])
    BY <2>1, <2>2
  <2>. QED
    BY <1>1, <2>3, LoopsAct DEF Typed, Timely, Deciding
<1>3. loadedBar' \in [Loops -> 0..MaxBars]
  <2>1. loadedBar \in [Loops -> 0..MaxBars] /\ bar \in 0..MaxBars
    BY ConstantsAssumption DEF Typed, TypeOK, Bars
  <2>. QED
    BY <2>1
<1>. QED
  BY <1>1, <1>2, <1>3 DEF Typed, TypeOK, trade, history

LEMMA RemoveTyped ==
  ASSUME Typed, NEW a \in Actors, RemoveActive(a)
  PROVE  Typed'
<1>1. Return(a) /\ active' \in BOOLEAN
  BY DEF RemoveActive, Typed, TypeOK
<1>0. faults' \in 0..MaxFaults
  BY ConstantsAssumption DEF RemoveActive, Fault, Typed, TypeOK
<1>2. UNCHANGED <<stored, emitted, blacklisted, loadedBar, bar, overdue, trade, history>>
  BY DEF RemoveActive
<1>3. "idle" \in PcStates /\ "idle" \notin Deciding
  BY DEF PcStates, Deciding
<1>. QED
  BY <1>0, <1>1, <1>2, <1>3, IdleHand, ActorTyped DEF Typed, TypeOK, Timely, Deciding

LEMMA StopBlacklistedTyped ==
  ASSUME Typed, NEW a \in Actors, StopBlacklisted(a)
  PROVE  Typed'
<1>1. UNCHANGED <<candidate, emitted, blacklisted, loadedBar, bar, overdue, trade,
                  faults, history>>
  BY DEF StopBlacklisted
<1>2. CASE active
  <2> DEFINE state == Stopped(stored, "stopped")
  <2>1. WellFormed(state) /\ state.status = "stopped" /\ state \in State
    BY Stops DEF Typed, WellFormed
  <2>2. InHand(a, "stop_save", state) /\ "stop_save" \in PcStates
    BY <2>1 DEF InHand, PcStates, Emitting, Leaving
  <2>3. /\ pc' = [pc EXCEPT ![a] = "stop_save"] /\ copy' = [copy EXCEPT ![a] = state]
        /\ candidateMu' = a
    BY <1>2 DEF StopBlacklisted, Go, Copy
  <2>4. Copies' /\ pc' \in [Actors -> PcStates] /\ copy' \in [Actors -> State \cup {None}]
    BY <2>1, <2>2, <2>3 DEF Typed, TypeOK, Copies
  <2>5. state.lastDecisionBar <= bar
    BY DEF state, Stopped, Typed, TypeOK, Timely, State
  <2> HIDE DEF state
  <2>6. Timely'
    BY <1>1, <2>3, <2>5, LoopsAct DEF Typed, TypeOK, Timely, Deciding, candidate
  <2>. QED
    BY <1>1, <2>3, <2>4, <2>6 DEF Typed, TypeOK, trade, history, candidate
<1>3. CASE ~active
  <2>1. Return(a)
    BY <1>3 DEF StopBlacklisted
  <2>2. "idle" \in PcStates /\ "idle" \notin Deciding
    BY DEF PcStates, Deciding
  <2>. QED
    BY <1>1, <2>1, <2>2, IdleHand, ActorTyped DEF Typed, TypeOK, Timely, candidate
<1>. QED
  BY <1>2, <1>3

LEMMA PollTyped ==
  ASSUME Typed, NEW l \in Loops, Poll(l)
  PROVE  Typed'
<1>1. Continue(l, stored, "load") /\ stored.status = l
  BY DEF Poll
<1>2. UNCHANGED <<candidate, emitted, blacklisted, loadedBar, bar, overdue, trade,
                  faults, history>>
  BY DEF Poll
<1>3. InHand(l, "load", stored) /\ "load" \in PcStates \ Deciding
  BY <1>1 DEF Typed, InHand, PcStates, Emitting, Leaving, Deciding
<1>. QED
  BY <1>1, <1>2, <1>3, LoopsAct, ActorTyped DEF Typed, TypeOK, Timely, candidate

LEMMA LoadTyped ==
  ASSUME Typed, NEW l \in Loops, LoadKlines(l)
  PROVE  Typed'
<1>1. /\ pc[l] = "load"
      /\ UNCHANGED <<candidate, emitted, blacklisted, bar, overdue, trade, history>>
  BY DEF LoadKlines
<1>2. /\ l \in Actors /\ InHand(l, "load", copy[l]) /\ copy[l] \in State
      /\ copy[l].lastDecisionBar <= bar
  BY <1>1, LoopsAct DEF Typed, Copies, InHand, WellFormed, Timely
<1>3. /\ InHand(l, "blacklisted", copy[l]) /\ InHand(l, "decide", copy[l])
      /\ {"blacklisted", "decide", "idle"} \subseteq PcStates
      /\ "blacklisted" \notin Deciding /\ "idle" \notin Deciding
  BY <1>2 DEF InHand, PcStates, Emitting, Leaving, Deciding
<1>4. CASE blacklisted
  <2>1. Continue(l, copy[l], "blacklisted") /\ UNCHANGED <<loadedBar, faults>>
    BY <1>4 DEF LoadKlines
  <2>. QED
    BY <1>1, <1>2, <1>3, <2>1, ActorTyped DEF Typed, TypeOK, Timely, candidate
<1>5. CASE ~blacklisted
  <2>1. CASE /\ Continue(l, copy[l], "decide")
             /\ loadedBar' = [loadedBar EXCEPT ![l] = bar]
             /\ UNCHANGED faults
    <3>1. loadedBar'[l] \in Bars /\ copy[l].lastDecisionBar <= loadedBar'[l]
      BY <1>2, <2>1 DEF Typed, TypeOK
    <3>. QED
      BY <1>1, <1>2, <1>3, <2>1, <3>1, ActorTyped DEF Typed, TypeOK, Timely, candidate
  <2>2. CASE Fault("feed") /\ Return(l) /\ UNCHANGED loadedBar
    <3>1. faults' \in 0..MaxFaults
      BY <2>2, ConstantsAssumption DEF Typed, TypeOK, Fault
    <3>. QED
      BY <1>1, <1>2, <1>3, <2>2, <3>1, IdleHand, ActorTyped DEF Typed, TypeOK, Timely, candidate
  <2>. QED
    BY <1>5, <2>1, <2>2 DEF LoadKlines
<1>. QED
  BY <1>4, <1>5

\* A decision: the loop goes on with a copy that fits.
LEMMA DecisionTyped ==
  ASSUME Typed, NEW l \in Loops, NEW state, NEW label \in PcStates,
         InHand(l, label, state), WellFormed(state), Continue(l, state, label),
         state.lastDecisionBar <= bar,
         label \in Deciding =>
           loadedBar[l] \in Bars /\ state.lastDecisionBar <= loadedBar[l],
         emitted' \subseteq Signals, DecisionFrame
  PROVE  Typed'
<1>1. state \in State /\ l \in Actors
  BY LoopsAct DEF WellFormed
<1>2. UNCHANGED <<candidate, blacklisted, loadedBar, bar, overdue, trade, faults, history>>
  BY DEF DecisionFrame
<1>. QED
  BY <1>1, <1>2, ActorTyped DEF Typed, TypeOK, Timely, candidate

-----------------------------------------------------------------------------
(* What a decision comes to, whatever the rows that led to it.             *)

Held == copy["bought"]

\* The bought loop goes on with its copy as it is, ...
Keeps(state, label) ==
  /\ state = Held
  /\ \/ label = "save"
     \/ label \in {"sync_save", "exit"} /\ Held.sellSignalId = None /\ pc["bought"] = "decide"
  /\ UNCHANGED emitted

\* ... gives its sell up and tries it again, ...
GivesUpSell(state, label) ==
  /\ Held.sellSignalId # None
  /\ state = Retried(Held)
  /\ label = "save"
  /\ emitted' = emitted \ {Held.sellSignalId}

\* ... gives its buy up or finds the position gone, ...
GivesUpBuy(state, label) ==
  /\ Held.sellSignalId = None
  /\ \/ state = Rearmed(Held, loadedBar["bought"]) /\ label = "save"
     \/ /\ \E status \in {"stopped", "sold"} : state = Stopped(Held, status)
        /\ label = "stop_save"
  /\ emitted' \in {emitted, emitted \ {Held.buySignalId}}

\* ... ends with the position sold or never bought, ...
Ends(state, label) ==
  /\ \/ state = Rebuy(Held) /\ label = "save"
     \/ /\ state = Stopped([Held EXCEPT !.sellSignalId = None, !.sellAttempt = 0], "sold")
        /\ label = "stop_save"
  /\ \/ Held.sellSignalId = None /\ Held.buySignalId \in DOMAIN rows
     \/ Held.sellSignalId # None /\ Held.sellSignalId \in DOMAIN rows
  /\ UNCHANGED emitted

\* ... or sells.
NewSell == SellOf(Held)

SellsIt(state, label) ==
  /\ pc["bought"] = "exit"
  /\ Held.sellAttempt <= MaxAttempts
  /\ ExitShows(Held.buySignalId, loadedBar["bought"])
  /\ state = [Held EXCEPT !.sellSignalId = NewSell, !.lastDecisionBar = loadedBar["bought"],
                          !.lastExitBar = loadedBar["bought"]]
  /\ label = "emit"
  /\ UNCHANGED emitted

Outcome(state, label) ==
  \/ Keeps(state, label) \/ GivesUpSell(state, label) \/ GivesUpBuy(state, label)
  \/ Ends(state, label) \/ SellsIt(state, label)

LEMMA BoughtDecides ==
  ASSUME Typed, BoughtDecision, ~SaveSynced
  PROVE  /\ pc["bought"] \in {"decide", "exit"} /\ DecisionFrame
         /\ \E state, label : Continue("bought", state, label) /\ Outcome(state, label)
<1>1. CASE SellMissing
  BY <1>1 DEF SellMissing, Outcome, Keeps, GivesUpSell, Held
<1>2. CASE SellRefused
  <2>1. PICK state, label : Continue("bought", state, label) /\ state = Retried(Held)
                              /\ label = "save"
    BY <1>2 DEF SellRefused, Held
  <2>2. Held.sellSignalId # None
    BY <1>2, NoneAssumption DEF SellRefused, Held, Typed, TypeOK
  <2>. QED
    BY <1>2, <2>1, <2>2 DEF SellRefused, Outcome, GivesUpSell, Held
<1>3. CASE SellExecuted
  <2>1. Held.sellSignalId # None /\ Held.sellSignalId \in DOMAIN rows
    BY <1>3, NoneAssumption DEF SellExecuted, Held, Typed, TypeOK
  <2>. QED
    BY <1>3, <2>1 DEF SellExecuted, Outcome, Keeps, Ends, Held
<1>4. CASE SignalAccepted
  BY <1>4 DEF SignalAccepted, Outcome, Keeps, Held
<1>5. CASE BuyMissing
  BY <1>5 DEF BuyMissing, RearmInactive, Outcome, Keeps, GivesUpBuy, Held
<1>6. CASE BuyRefused
  BY <1>6 DEF BuyRefused, Outcome, Ends, Held
<1>7. CASE BuyExecuted
  BY <1>7 DEF BuyExecuted, RearmInactive, Outcome, Keeps, GivesUpBuy, Held
<1>8. CASE Hold
  BY <1>8 DEF Hold, Outcome, Keeps, Held
<1>9. CASE TriggerExit
  BY <1>9 DEF TriggerExit, Outcome, SellsIt, NewSell, Held
<1>. QED
  BY <1>1, <1>2, <1>3, <1>4, <1>5, <1>6, <1>7, <1>8, <1>9 DEF BoughtDecision

\* What the bought loop decides on is a bought state, with a bar loaded.
LEMMA HeldIsBought ==
  ASSUME Typed, pc["bought"] \in {"decide", "exit"}
  PROVE  /\ WellFormed(Held) /\ Held.status = "bought" /\ Held.buySignalId \in Buys
         /\ pc["bought"] = "exit" => Held.sellSignalId = None
         /\ loadedBar["bought"] \in Bars /\ loadedBar["bought"] <= bar
         /\ Held.lastDecisionBar <= loadedBar["bought"]
<1>1. InHand("bought", pc["bought"], Held)
  BY LoopsAct DEF Typed, Copies, Held
<1>2. /\ loadedBar["bought"] \in Bars /\ loadedBar["bought"] <= bar
      /\ Held.lastDecisionBar <= loadedBar["bought"]
  <2>1. "bought" \in Loops /\ pc["bought"] \in Deciding
    BY LoopsAct DEF Deciding
  <2>. QED
    BY <2>1 DEF Typed, Timely, Held
<1>. QED
  BY <1>1, <1>2 DEF InHand, WellFormed

LEMMA NewSellFits ==
  ASSUME Typed, pc["bought"] = "exit", NEW state, NEW label, SellsIt(state, label)
  PROVE  /\ WellFormed(state) /\ NewSell \in Sells /\ state.status = "bought"
         /\ state.sellSignalId = NewSell /\ state.buySignalId = Held.buySignalId
         /\ state.sellAttempt = Held.sellAttempt
         /\ state.lastDecisionBar = loadedBar["bought"]
         /\ state.lastExitBar = loadedBar["bought"]
<1> DEFINE b == loadedBar["bought"]
<1>1. /\ WellFormed(Held) /\ Held.status = "bought" /\ Held.buySignalId \in Buys /\ b \in Bars
      /\ Held \in State /\ Held.sellAttempt \in Attempts /\ Held.sellAttempt <= MaxAttempts
      /\ Held.lastDecisionBar <= b /\ Held.buySignalId.bar <= Held.lastDecisionBar
  BY HeldIsBought, SidesApart DEF WellFormed, State, SellsIt
<1>2. NewSell \in Sells /\ NewSell.buy = Held.buySignalId
      /\ NewSell.attempt = Held.sellAttempt
  <2>1. exitPoint[Held.buySignalId] \in Bars
    BY <1>1, ConstantsAssumption DEF SellsIt, ExitShows, Bars
  <2>. QED
    BY <1>1, <2>1 DEF NewSell, SellOf, Sells
<1>3. b \in 0..MaxBars
  BY <1>1, ConstantsAssumption DEF Bars
<1>4. state = [Held EXCEPT !.sellSignalId = NewSell, !.lastDecisionBar = b, !.lastExitBar = b]
  BY DEF SellsIt
<1> HIDE DEF b
<1>5. /\ state \in State /\ state.status = Held.status /\ state.buySignalId = Held.buySignalId
      /\ state.sellAttempt = Held.sellAttempt /\ state.sellSignalId = NewSell
      /\ state.lastDecisionBar = b /\ state.lastExitBar = b
  BY <1>1, <1>2, <1>3, <1>4 DEF State
\* The bar that was loaded is not before the bar of the buy.
<1>6. Held.buySignalId.bar <= b
  BY <1>1, SidesApart, ConstantsAssumption DEF State, Bars, b
<1>. QED
  BY <1>1, <1>2, <1>5, <1>6 DEF WellFormed, b

LEMMA OutcomeFits ==
  ASSUME Typed, pc["bought"] \in {"decide", "exit"}, NEW state, NEW label,
         Outcome(state, label)
  PROVE  /\ label \in PcStates \ {"idle", "blacklisted"} /\ WellFormed(state)
         /\ InHand("bought", label, state)
         /\ state.lastDecisionBar <= bar
         /\ label \in Deciding => state = Held
         /\ emitted' \subseteq emitted
<1>1. /\ WellFormed(Held) /\ Held.status = "bought" /\ Held.buySignalId \in Buys
      /\ pc["bought"] = "exit" => Held.sellSignalId = None
      /\ loadedBar["bought"] \in Bars /\ loadedBar["bought"] <= bar
      /\ Held.lastDecisionBar <= loadedBar["bought"]
  BY HeldIsBought
<1>2. Held.lastDecisionBar <= bar /\ loadedBar["bought"] \in 0..MaxBars
  BY <1>1, ConstantsAssumption DEF Typed, TypeOK, Bars, WellFormed, State
<1>3. CASE Keeps(state, label)
  BY <1>1, <1>2, <1>3, LoopsAct DEF Keeps, InHand, PcStates, Emitting, Leaving, Loops
<1>4. CASE GivesUpSell(state, label)
  BY <1>1, <1>2, <1>4, Retries, LoopsAct
     DEF GivesUpSell, InHand, PcStates, Emitting, Leaving, Deciding, Loops
<1>5. CASE GivesUpBuy(state, label)
  <2>1. CASE state = Rearmed(Held, loadedBar["bought"]) /\ label = "save"
    BY <1>1, <1>2, <1>5, <2>1, Rearms, LoopsAct
       DEF GivesUpBuy, InHand, PcStates, Emitting, Leaving, Deciding, Loops
  <2>2. ASSUME NEW status \in {"stopped", "sold"}, state = Stopped(Held, status),
               label = "stop_save"
        PROVE  /\ label \in PcStates \ {"idle", "blacklisted"} /\ WellFormed(state)
               /\ InHand("bought", label, state) /\ label \notin Deciding
               /\ state.lastDecisionBar <= bar
    <3>1. WellFormed(state) /\ state.status = status
      BY <1>1, <2>2, Stops
    <3>2. state.lastDecisionBar = Held.lastDecisionBar
      BY <1>1, <2>2 DEF Stopped, WellFormed, State
    <3>. QED
      BY <1>2, <2>2, <3>1, <3>2 DEF InHand, PcStates, Emitting, Leaving, Deciding
  <2>. QED
    BY <1>5, <2>1, <2>2 DEF GivesUpBuy
<1>6. CASE Ends(state, label)
  <2>1. CASE state = Rebuy(Held) /\ label = "save"
    BY <1>1, <1>2, <1>6, <2>1, Rebought, LoopsAct
       DEF Ends, InHand, PcStates, Emitting, Leaving, Deciding, Loops
  <2>2. CASE /\ state = Stopped([Held EXCEPT !.sellSignalId = None, !.sellAttempt = 0], "sold")
             /\ label = "stop_save"
    <3> DEFINE sold == [Held EXCEPT !.sellSignalId = None, !.sellAttempt = 0]
    <3>1. Held \in State /\ 0 \in Attempts
      BY <1>1, ConstantsAssumption DEF WellFormed, Attempts
    <3>2. /\ sold \in State /\ sold.status = Held.status /\ sold.sellSignalId = None
          /\ sold.buySignalId = Held.buySignalId
          /\ sold.lastDecisionBar = Held.lastDecisionBar
      BY <3>1 DEF State
    <3> HIDE DEF sold
    <3>3. WellFormed(sold)
      BY <1>1, <3>2 DEF WellFormed
    <3>4. WellFormed(state) /\ state.status = "sold"
      BY <2>2, <3>3, Stops DEF sold
    <3>5. state.lastDecisionBar = Held.lastDecisionBar
      BY <2>2, <3>2 DEF Stopped, State, sold
    <3>. QED
      BY <1>2, <1>6, <2>2, <3>4, <3>5 DEF Ends, InHand, PcStates, Emitting, Leaving, Deciding
  <2>. QED
    BY <1>6, <2>1, <2>2 DEF Ends
<1>7. CASE SellsIt(state, label)
  <2>1. pc["bought"] = "exit" /\ label = "emit" /\ UNCHANGED emitted
    BY <1>7 DEF SellsIt
  <2>2. /\ WellFormed(state) /\ NewSell \in Sells /\ state.status = "bought"
        /\ state.sellSignalId = NewSell
        /\ state.lastDecisionBar = loadedBar["bought"]
    BY <1>7, <2>1, NewSellFits
  <2>. QED
    BY <1>1, <2>1, <2>2, SidesApart, LoopsAct
       DEF InHand, PcStates, Emitting, Leaving, Deciding
<1>. QED
  BY <1>3, <1>4, <1>5, <1>6, <1>7 DEF Outcome

LEMMA BoughtTyped ==
  ASSUME Typed, BoughtDecision
  PROVE  Typed'
<1>1. CASE SaveSynced
  BY <1>1, SaveTyped, LoopsAct DEF SaveSynced
<1>2. CASE ~SaveSynced
  <2>1. pc["bought"] \in {"decide", "exit"} /\ DecisionFrame
    BY <1>2, BoughtDecides
  <2>2. PICK state, label : Continue("bought", state, label) /\ Outcome(state, label)
    BY <1>2, BoughtDecides
  <2>3. /\ label \in PcStates /\ WellFormed(state) /\ InHand("bought", label, state)
        /\ state.lastDecisionBar <= bar /\ (label \in Deciding => state = Held)
        /\ emitted' \subseteq Signals
    BY <2>1, <2>2, OutcomeFits DEF Typed, TypeOK
  <2>4. label \in Deciding =>
          loadedBar["bought"] \in Bars /\ state.lastDecisionBar <= loadedBar["bought"]
    BY <2>1, <2>3, HeldIsBought
  <2>. QED
    BY <2>1, <2>2, <2>3, <2>4, LoopsAct, DecisionTyped
<1>. QED
  BY <1>1, <1>2

LEMMA WatchingTyped ==
  ASSUME Typed, WatchingDecision
  PROVE  Typed'
<1> DEFINE held == copy["watching"]
           b == loadedBar["watching"]
<1>1. pc["watching"] = "decide" /\ DecisionFrame /\ UNCHANGED emitted
  BY DEF WatchingDecision, WatchingTooLow, WatchingStays, WatchingBreaksOut
<1>2. InHand("watching", "decide", held)
  BY <1>1, LoopsAct DEF Typed, Copies
<1>3. /\ WellFormed(held) /\ held.status = "watching" /\ b \in Bars
      /\ b <= bar /\ held.lastDecisionBar <= b
  BY <1>1, <1>2, LoopsAct DEF InHand, Typed, Timely, Deciding
<1>4. b \in 0..MaxBars /\ held \in State /\ held.lastDecisionBar <= bar
  BY <1>3, ConstantsAssumption DEF Bars, WellFormed, Typed, TypeOK, State
<1> HIDE DEF b, held
<1>5. CASE WatchingTooLow
  <2> DEFINE state == Stopped(held, "stopped")
  <2>1. WellFormed(state) /\ state.status = "stopped"
    BY <1>3, Stops
  <2>2. state.lastDecisionBar = held.lastDecisionBar
    BY <1>4 DEF Stopped, State
  <2>3. Continue("watching", state, "stop_save")
    BY <1>5 DEF WatchingTooLow, held
  <2> HIDE DEF state
  <2>4. /\ InHand("watching", "stop_save", state) /\ "stop_save" \in PcStates \ Deciding
    BY <2>1 DEF InHand, PcStates, Emitting, Leaving, Deciding
  <2>. QED
    BY <1>1, <1>4, <2>1, <2>2, <2>3, <2>4, LoopsAct, DecisionTyped DEF Typed, TypeOK
<1>6. CASE WatchingStays
  <2>1. PICK state \in {held, [held EXCEPT !.lastDecisionBar = b]} :
          Continue("watching", state, "save")
    BY <1>6 DEF WatchingStays, held, b
  <2>2. /\ state \in State /\ state.status = held.status
        /\ state.buySignalId = held.buySignalId /\ state.sellSignalId = held.sellSignalId
        /\ state.lastDecisionBar \in {held.lastDecisionBar, b}
    BY <1>4, <2>1 DEF State
  <2>3. WellFormed(state) /\ state.lastDecisionBar <= bar
    BY <1>3, <1>4, <2>2 DEF WellFormed
  <2>4. /\ InHand("watching", "save", state) /\ "save" \in PcStates \ Deciding
    BY <1>3, <2>2, <2>3 DEF InHand, PcStates, Emitting, Leaving, Deciding
  <2>. QED
    BY <1>1, <2>1, <2>3, <2>4, LoopsAct, DecisionTyped DEF Typed, TypeOK
<1>7. CASE WatchingBreaksOut
  <2> DEFINE buy == [side |-> "buy", bar |-> b]
             state == [held EXCEPT !.status = "bought", !.lastDecisionBar = b,
                                   !.buySignalId = buy]
  <2>1. buy \in Buys /\ buy.bar = b
    BY <1>3 DEF Buys
  <2>2. Continue("watching", state, "emit")
    BY <1>7 DEF WatchingBreaksOut, held, b
  <2> HIDE DEF buy
  <2>3. /\ state \in State /\ state.status = "bought" /\ state.buySignalId = buy
        /\ state.sellSignalId = held.sellSignalId /\ state.lastDecisionBar = b
    BY <1>4, <2>1 DEF State, Statuses
  <2> HIDE DEF state
  <2>4. WellFormed(state)
    BY <1>3, <2>1, <2>3 DEF WellFormed, Typed, TypeOK, Bars
  <2>5. InHand("watching", "emit", state) /\ "emit" \in PcStates \ Deciding
    BY <1>3, <2>3, <2>4, LoopsAct DEF InHand, PcStates, Emitting, Leaving, Deciding, WellFormed
  <2>. QED
    BY <1>1, <1>3, <2>2, <2>3, <2>4, <2>5, LoopsAct, DecisionTyped DEF Typed, TypeOK
<1>. QED
  BY <1>5, <1>6, <1>7 DEF WatchingDecision

\* What a loop has in hand while it emits.
LEMMA EmittingHand ==
  ASSUME Typed, NEW l \in Loops, pc[l] \in Emitting
  PROVE  /\ WellFormed(copy[l]) /\ copy[l].status = "bought" /\ copy[l].buySignalId \in Buys
         /\ Pending(copy[l]) \in Signals
         /\ l = "watching" => /\ copy[l].sellSignalId = None
                              /\ Pending(copy[l]) = copy[l].buySignalId
         /\ l = "bought" => /\ copy[l].sellSignalId \in Sells
                            /\ Pending(copy[l]) = copy[l].sellSignalId
         /\ copy[l].lastDecisionBar <= bar
<1>1. l \in Actors /\ InHand(l, pc[l], copy[l]) /\ pc[l] \notin {"idle", "blacklisted"}
  BY LoopsAct DEF Typed, Copies, Emitting
<1>2. /\ WellFormed(copy[l]) /\ copy[l].status = "bought"
      /\ l = "watching" <=> copy[l].sellSignalId = None
  BY <1>1 DEF InHand
<1>3. copy[l].lastDecisionBar <= bar
  BY <1>1 DEF Typed, Timely
<1>4. l = "bought" => copy[l].sellSignalId # None /\ copy[l].sellSignalId \in Sells
  BY <1>2 DEF WellFormed, State
<1>. QED
  BY <1>2, <1>3, <1>4, PendingKind DEF WellFormed

LEMMA EmissionTyped ==
  ASSUME Typed, NEW l \in Loops, AcquireEmission(l) \/ Publish(l) \/ PublishFails(l)
  PROVE  Typed'
<1>1. pc[l] \in Emitting /\ l \in Actors
  BY LoopsAct DEF AcquireEmission, Publish, PublishFails, Emitting
<1>2. /\ WellFormed(copy[l]) /\ copy[l].status = "bought" /\ copy[l].buySignalId \in Buys
      /\ Pending(copy[l]) \in Signals /\ copy[l].lastDecisionBar <= bar
      /\ l = "bought" => copy[l].sellSignalId \in Sells
  BY <1>1, EmittingHand
<1>3. InHand(l, pc[l], copy[l]) /\ copy[l] \in State
  BY <1>1, <1>2 DEF Typed, Copies, WellFormed
<1>4. {"idle", "emit_save", "save"} \subseteq PcStates \ Deciding
  BY DEF PcStates, Deciding
<1>5. CASE AcquireEmission(l)
  <2>1. InHand(l, "emit_save", copy[l])
    BY <1>1, <1>3 DEF InHand, Emitting, Leaving
  <2>2. /\ \/ Return(l) /\ UNCHANGED emitted
           \/ emitted' = emitted \cup {Pending(copy[l])} /\ Continue(l, copy[l], "emit_save")
        /\ UNCHANGED <<candidate, blacklisted, loadedBar, bar, overdue, trade, faults, history>>
    BY <1>5 DEF AcquireEmission, DecisionFrame
  <2>. QED
    BY <1>1, <1>2, <1>3, <1>4, <2>1, <2>2, IdleHand, ActorTyped
       DEF Typed, TypeOK, candidate
<1>6. CASE Publish(l)
  <2> DEFINE signal == Pending(copy[l])
  <2>1. /\ Return(l)
        /\ UNCHANGED <<candidate, emitted, blacklisted, loadedBar, bar, overdue, consuming,
                       tasks, rows, openRows, closedRows, runtime, exitPoint>>
    BY <1>6 DEF Publish
  <2>2. channel' \in Seq(Signals)
    <3>1. channel \in Seq(Signals) /\ signal \in Signals
      BY <1>2 DEF Typed, TypeOK
    <3>2. channel' = Append(channel, signal) \/ channel' = channel
      BY <1>6 DEF Publish
    <3> HIDE DEF signal
    <3>. QED
      BY <3>1, <3>2
  <2>3. faults' \in 0..MaxFaults
    BY <1>6, ConstantsAssumption DEF Publish, Fault, Typed, TypeOK
  <2>4. /\ sentBuys' = sentBuys \cup ({signal} \cap Buys)
        /\ sentSells' = sentSells \cup ({signal} \cap Sells)
        /\ straySells' = straySells \cup {s \in {signal} : signal.side = "sell" /\ runtime = None}
    BY <1>6 DEF Publish
  <2>5. signal.side = "sell" => signal \in Sells
    BY <1>2, SidesApart DEF Signals
  <2>9. exitBars' \subseteq Bars
    <3>1. exitBars' = exitBars \cup {bar : s \in {signal} \cap Sells}
      BY <1>6 DEF Publish
    <3>. QED
      BY <3>1 DEF Typed, TypeOK
  <2>6. sentBuys' \subseteq Buys /\ sentSells' \subseteq Sells /\ straySells' \subseteq sentSells'
    BY <2>4, <2>5 DEF Typed, TypeOK
  <2>7. /\ candidateMu' \in Actors \cup {None}
        /\ pc' \in [Actors -> PcStates] /\ copy' \in [Actors -> State \cup {None}]
        /\ Copies' /\ pc'[l] = "idle"
        /\ \A b \in Actors : b # l => pc'[b] = pc[b] /\ copy'[b] = copy[b]
    BY <1>1, <2>1, ReturnTyped
  <2>8. Timely'
    BY <1>1, <1>4, <2>1, <2>7, LoopsAct DEF Typed, Timely, candidate
  <2>. QED
    BY <2>1, <2>2, <2>3, <2>6, <2>7, <2>8, <2>9 DEF Typed, TypeOK, candidate
<1>7. CASE PublishFails(l)
  <2> DEFINE state == IF l = "watching" THEN Rebuy(copy[l]) ELSE Retried(copy[l])
  <2>1. /\ Continue(l, state, "save") /\ emitted' \subseteq emitted /\ Fault("publish")
        /\ UNCHANGED <<candidate, blacklisted, loadedBar, bar, overdue, trade, history>>
    BY <1>7 DEF PublishFails
  <2>2. /\ WellFormed(state) /\ state.status = (IF l = "watching" THEN "watching" ELSE "bought")
        /\ state.lastDecisionBar = copy[l].lastDecisionBar
    BY <1>2, Rebought, Retries, SidesApart DEF Loops
  <2> HIDE DEF state
  <2>3. InHand(l, "save", state) /\ state \in State
    BY <2>2 DEF InHand, Emitting, Leaving, Loops, WellFormed
  <2>4. faults' \in 0..MaxFaults
    BY <2>1, ConstantsAssumption DEF Fault, Typed, TypeOK
  <2>. QED
    BY <1>1, <1>2, <1>4, <2>1, <2>2, <2>3, <2>4, ActorTyped DEF Typed, TypeOK, candidate
<1>. QED
  BY <1>5, <1>6, <1>7

LEMMA RequestTyped ==
  ASSUME Typed, Request
  PROVE  Typed'
<1>1. /\ WellFormed(stored) /\ stored \in State /\ stored.lastDecisionBar <= bar
      /\ {"save", "stop_save"} \subseteq PcStates \ Deciding
  BY DEF Typed, WellFormed, Timely, PcStates, Deciding
<1> DEFINE stopped == Stopped(stored, "stopped")
<1>2. /\ WellFormed(stopped) /\ stopped.status = "stopped" /\ stopped \in State
  BY <1>1, Stops DEF WellFormed
<1>3. stopped.lastDecisionBar <= bar
  BY <1>1 DEF Stopped, State
<1> HIDE DEF stopped
<1>4. \A a : InHand(a, "stop_save", stopped)
  BY <1>2 DEF InHand, Emitting, Leaving
<1>5. CASE DeleteCandidate
  <2>1. "delete" \in Actors /\ Continue("delete", stopped, "stop_save")
    BY <1>5 DEF DeleteCandidate, Actors, stopped
  <2>2. UNCHANGED <<candidate, emitted, blacklisted, loadedBar, bar, overdue, trade,
                    faults, history>>
    BY <1>5 DEF DeleteCandidate, RequestFrame
  <2>. QED
    BY <1>1, <1>2, <1>3, <1>4, <2>1, <2>2, ActorTyped DEF Typed, TypeOK, candidate
<1>6. ASSUME NEW a \in Actors, NEW state, NEW label \in {"save", "stop_save"},
             WellFormed(state), state.lastDecisionBar <= bar, InHand(a, label, state),
             a \notin Loops,
             Copy(a, state), Go(a, label), candidateMu' = a,
             UNCHANGED <<candidate, emitted, blacklisted, loadedBar, bar, overdue, trade,
                         faults, history>>
      PROVE  Typed'
  <2>1. /\ pc' = [pc EXCEPT ![a] = label] /\ copy' = [copy EXCEPT ![a] = state]
        /\ label \in PcStates \ Deciding /\ state \in State
    BY <1>1, <1>6 DEF Go, Copy, WellFormed
  <2>2. /\ pc' \in [Actors -> PcStates] /\ copy' \in [Actors -> State \cup {None}]
        /\ Copies' /\ candidateMu' \in Actors \cup {None}
    BY <1>6, <2>1 DEF Typed, TypeOK, Copies
  <2>3. Timely'
    BY <1>6, <2>1, LoopsAct DEF Typed, TypeOK, Timely, candidate
  <2>. QED
    BY <1>6, <2>2, <2>3 DEF Typed, TypeOK, candidate, trade, history
<1>7. CASE TrimCandidate
  <2>1. /\ "trim" \in Actors \ Loops /\ Copy("trim", stopped) /\ Go("trim", "stop_save")
        /\ candidateMu' = "trim"
    BY <1>7 DEF TrimCandidate, Actors, Loops, stopped
  <2>2. UNCHANGED <<candidate, emitted, blacklisted, loadedBar, bar, overdue, trade,
                    faults, history>>
    BY <1>7 DEF TrimCandidate, RequestFrame
  <2>. QED
    BY <1>2, <1>3, <1>4, <1>6, <2>1, <2>2
<1>8. CASE UpdateSymbol
  <2> DEFINE state == [stored EXCEPT !.symbol = TRUE]
  <2>1. /\ "symbol" \in Actors \ Loops /\ Copy("symbol", state) /\ Go("symbol", "save")
        /\ candidateMu' = "symbol"
    BY <1>8 DEF UpdateSymbol, Actors, Loops
  <2>2. UNCHANGED <<candidate, emitted, blacklisted, loadedBar, bar, overdue, trade,
                    faults, history>>
    BY <1>8 DEF UpdateSymbol, RequestFrame
  <2>3. /\ state \in State /\ state.status = stored.status
        /\ state.buySignalId = stored.buySignalId /\ state.sellSignalId = stored.sellSignalId
        /\ state.sellAttempt = stored.sellAttempt
        /\ state.lastDecisionBar = stored.lastDecisionBar
        /\ state.lastExitBar = stored.lastExitBar
    BY <1>1 DEF State
  <2> HIDE DEF state
  <2>4. WellFormed(state)
    BY <1>1, <2>3 DEF WellFormed
  <2>5. InHand("symbol", "save", state)
    BY <2>4 DEF InHand, Emitting, Leaving
  <2>. QED
    BY <1>1, <1>6, <2>1, <2>2, <2>3, <2>4, <2>5
<1>9. CASE BlacklistCandidate
  <2>1. /\ "blacklist" \in Actors /\ "blacklist" \notin Loops
        /\ pc' = [pc EXCEPT !["blacklist"] = "blacklisted"] /\ UNCHANGED <<copy, candidateMu>>
        /\ blacklisted' = TRUE
    BY <1>9 DEF BlacklistCandidate, Actors, Loops, Go
  <2>2. UNCHANGED <<candidate, emitted, loadedBar, bar, overdue, trade, faults, history>>
    BY <1>9 DEF BlacklistCandidate, RequestFrame
  <2>3. \A state : InHand("blacklist", "blacklisted", state)
    BY DEF InHand, Emitting, Leaving
  <2>4. Copies' /\ pc' \in [Actors -> PcStates]
    BY <2>1, <2>3 DEF Typed, TypeOK, Copies, PcStates
  <2>5. Timely'
    BY <2>1, <2>2, LoopsAct DEF Typed, TypeOK, Timely, candidate
  <2>. QED
    BY <2>1, <2>2, <2>4, <2>5 DEF Typed, TypeOK, candidate, trade, history
<1>. QED
  BY <1>5, <1>7, <1>8, <1>9 DEF Request

-----------------------------------------------------------------------------
(* The trade side and time.                                                *)

LEMMA TaskKinds ==
  ASSUME NEW task \in Task
  PROVE  /\ task.op \in {"insert", "finish", "open", "close"}
         /\ task.op \in {"insert", "finish"} => task.signal \in Signals
         /\ task.op = "finish" => task.status \in {"executed"} \cup Refused
         /\ task.op \in {"open", "close"} => task.buy \in Buys
BY DEF Task

\* Steps that leave the candidate, the actors and time alone.
LEMMA TradeTyped ==
  ASSUME Typed, TradeFrame, channel' \in Seq(Signals), consuming' \in Signals \cup {None},
         tasks' \subseteq Task, DOMAIN rows' \subseteq Signals,
         \A s \in DOMAIN rows' : rows'[s] \in {"accepted", "executed"} \cup Refused,
         openRows' \subseteq Buys, closedRows' \subseteq Buys,
         runtime' \in Buys \cup {None}, faults' \in 0..MaxFaults
  PROVE  Typed'
<1>1. Range(rows') \subseteq {"accepted", "executed"} \cup Refused
  BY DEF Range
<1>2. UNCHANGED <<candidate, emitted, blacklisted, actors, bar, overdue, history>>
  BY DEF TradeFrame
<1>3. UNCHANGED <<stored, active, pc, copy, loadedBar, candidateMu, sentBuys, sentSells,
                  straySells, exitBars, exitPoint>>
  BY <1>2 DEF candidate, actors, history
<1>4. WellFormed(stored') /\ Copies' /\ Timely'
  BY <1>2, <1>3 DEF Typed, Copies, Timely
<1>. QED
  BY <1>1, <1>2, <1>3, <1>4 DEF Typed, TypeOK

LEMMA ConsumerTyped ==
  ASSUME Typed, Consume \/ ExecuteBuy \/ ExecuteSell \/ SkipSignal
  PROVE  Typed'
<1> USE DEF Answer
<1>1. /\ TradeFrame /\ UNCHANGED <<rows, openRows, closedRows>>
  BY DEF Consume, ExecuteBuy, ExecuteSell, SkipSignal
<1>2. \A s \in DOMAIN rows' : rows'[s] \in {"accepted", "executed"} \cup Refused
  BY <1>1 DEF Typed, TypeOK, Range
<1>3. faults' \in 0..MaxFaults
  BY ConstantsAssumption DEF Consume, ExecuteBuy, ExecuteSell, SkipSignal, Fault, Typed, TypeOK
<1>4. /\ channel \in Seq(Signals) /\ consuming \in Signals \cup {None} /\ tasks \subseteq Task
      /\ runtime \in Buys \cup {None}
  BY DEF Typed, TypeOK
<1>5. CASE Consume
  <2>1. channel # <<>> /\ channel' = Tail(channel) /\ consuming' = Head(channel)
    BY <1>5 DEF Consume
  <2>2. channel' \in Seq(Signals) /\ Head(channel) \in Signals
    BY <1>4, <2>1
  <2>3. [op |-> "insert", signal |-> Head(channel)] \in Task
    BY <2>2 DEF Task
  <2>4. tasks' \subseteq Task /\ runtime' = runtime
    BY <1>4, <1>5, <2>3 DEF Consume
  <2>. QED
    BY <1>1, <1>2, <1>3, <1>4, <2>1, <2>2, <2>4, TradeTyped DEF Typed, TypeOK
<1>6. CASE ExecuteBuy \/ ExecuteSell \/ SkipSignal
  <2>1. consuming \in Signals /\ consuming' = None /\ channel' = channel
    BY <1>4, <1>6 DEF ExecuteBuy, ExecuteSell, SkipSignal
  <2>2. consuming.side = "buy" => consuming \in Buys
    BY <2>1, SidesApart DEF Signals
  <2>3. runtime' \in Buys \cup {None}
    BY <1>4, <1>6, <2>2 DEF ExecuteBuy, ExecuteSell, SkipSignal
  <2>4. \A status \in {"executed"} \cup Refused : Finish(consuming, status) \in Task
    BY <2>1 DEF Finish, Task
  <2>5. {[op |-> "open", buy |-> b] : b \in Buys} \subseteq Task
        /\ {[op |-> "close", buy |-> b] : b \in Buys} \subseteq Task
    BY DEF Task
  <2>6. tasks' \subseteq Task
    BY <1>4, <1>6, <2>2, <2>4, <2>5 DEF ExecuteBuy, ExecuteSell, SkipSignal, Refused
  <2>. QED
    BY <1>1, <1>2, <1>3, <1>4, <2>1, <2>3, <2>6, TradeTyped DEF Typed, TypeOK
<1>. QED
  BY <1>5, <1>6

LEMMA CloseTyped ==
  ASSUME Typed, ClosePosition
  PROVE  Typed'
<1>1. /\ TradeFrame /\ UNCHANGED <<channel, consuming, rows, openRows, closedRows, faults>>
      /\ runtime' = None /\ runtime \in openRows
      /\ tasks' = tasks \cup {[op |-> "close", buy |-> runtime]}
  BY DEF ClosePosition
<1>2. runtime \in Buys
  BY <1>1 DEF Typed, TypeOK
<1>3. tasks' \subseteq Task
  BY <1>1, <1>2 DEF Typed, TypeOK, Task
<1>4. \A s \in DOMAIN rows' : rows'[s] \in {"accepted", "executed"} \cup Refused
  BY <1>1 DEF Typed, TypeOK, Range
<1>. QED
  BY <1>1, <1>3, <1>4, TradeTyped DEF Typed, TypeOK

LEMMA WriteTyped ==
  ASSUME Typed, NEW task \in tasks, WriteRow(task)
  PROVE  Typed'
<1>1. /\ TradeFrame /\ UNCHANGED <<channel, consuming, runtime, faults>>
      /\ tasks' = tasks \ {task}
  BY DEF WriteRow
<1>2. /\ task \in Task /\ openRows \subseteq Buys /\ closedRows \subseteq Buys
      /\ DOMAIN rows \subseteq Signals
      /\ \A s \in DOMAIN rows : rows[s] \in {"accepted", "executed"} \cup Refused
  BY DEF Typed, TypeOK, Range
<1>3. /\ DOMAIN rows' \subseteq Signals /\ openRows' \subseteq Buys /\ closedRows' \subseteq Buys
      /\ \A s \in DOMAIN rows' : rows'[s] \in {"accepted", "executed"} \cup Refused
  <2>1. CASE task.op = "insert"
    <3>1. /\ rows' = [s \in DOMAIN rows \cup {task.signal} |->
                        IF s = task.signal THEN "accepted" ELSE rows[s]]
          /\ UNCHANGED <<openRows, closedRows>>
      BY <2>1 DEF WriteRow
    <3>. QED
      BY <1>2, <2>1, <3>1, TaskKinds
  <2>2. CASE task.op = "finish"
    <3>1. /\ task.signal \in DOMAIN rows
          /\ rows' = [rows EXCEPT ![task.signal] = task.status]
          /\ UNCHANGED <<openRows, closedRows>>
      BY <2>2 DEF WriteRow
    <3>. QED
      BY <1>2, <2>2, <3>1, TaskKinds
  <2>3. CASE task.op = "open"
    BY <1>2, <2>3, TaskKinds DEF WriteRow
  <2>4. CASE task.op = "close"
    BY <1>2, <2>4, TaskKinds DEF WriteRow
  <2>. QED
    BY <1>2, <2>1, <2>2, <2>3, <2>4, TaskKinds
<1>. QED
  BY <1>1, <1>3, TradeTyped DEF Typed, TypeOK

LEMMA BarTyped ==
  ASSUME Typed, NewBar
  PROVE  Typed'
<1>1. /\ bar < MaxBars /\ bar' = bar + 1 /\ bar \in Bars
      /\ UNCHANGED <<candidate, emitted, blacklisted, actors, overdue, trade, faults, history>>
  BY DEF NewBar, Typed, TypeOK
<1>2. bar' \in Bars /\ \A n \in Int : n <= bar => n <= bar'
  BY <1>1, ConstantsAssumption DEF Bars
<1>3. /\ stored.lastDecisionBar \in Int
      /\ \A l \in Loops : loadedBar[l] \in Int
      /\ \A a \in Actors : pc[a] \notin {"idle", "blacklisted"} => copy[a].lastDecisionBar \in Int
  BY DEF Typed, TypeOK, Copies, InHand, WellFormed, State
<1>4. Timely'
  BY <1>1, <1>2, <1>3 DEF Typed, Timely, candidate, actors
<1>. QED
  BY <1>1, <1>2, <1>4 DEF Typed, TypeOK, Copies, candidate, actors, trade, history

LEMMA TimeoutTyped ==
  ASSUME Typed, NEW signal \in {Pending(stored)} \ {None}, AckTimeout(signal)
  PROVE  Typed'
<1>1. /\ overdue' = overdue \cup {signal}
      /\ UNCHANGED <<candidate, emitted, blacklisted, actors, bar, trade, history>>
  BY DEF AckTimeout
<1>2. signal \in Signals
  BY DEF Pending, Typed, TypeOK, State, Signals
<1>3. faults' \in 0..MaxFaults
  BY ConstantsAssumption DEF AckTimeout, Fault, Typed, TypeOK
<1>. QED
  BY <1>1, <1>2, <1>3 DEF Typed, TypeOK, Copies, Timely, candidate, actors, trade, history

LEMMA RestartTyped ==
  ASSUME Typed, Restart
  PROVE  Typed'
<1>1. /\ pc' = [a \in Actors |-> "idle"] /\ copy' = [a \in Actors |-> None]
      /\ candidateMu' = None /\ channel' = <<>> /\ consuming' = None /\ tasks' = {}
      /\ UNCHANGED <<candidate, emitted, blacklisted, loadedBar, bar, overdue, rows,
                      openRows, closedRows, history>>
  BY DEF Restart
<1>2. runtime' \in Buys \cup {None} /\ faults' \in 0..MaxFaults
  BY ConstantsAssumption DEF Restart, Fault, Typed, TypeOK
<1>3. Copies' /\ Timely'
  BY <1>1, IdleHand, LoopsAct DEF Typed, Copies, Timely, Deciding, candidate
<1>4. channel' \in Seq(Signals) /\ pc' \in [Actors -> PcStates]
  BY <1>1 DEF PcStates
<1>. QED
  BY <1>1, <1>2, <1>3, <1>4 DEF Typed, TypeOK, candidate, history

LEMMA TypedNext == Typed /\ [Next]_vars => Typed'
<1> SUFFICES ASSUME Typed, [Next]_vars PROVE Typed'
  OBVIOUS
<1>1. CASE \E l \in Loops : LoopStep(l)
  BY <1>1, PollTyped, LoadTyped, EmissionTyped, SaveTyped, LoopsAct DEF LoopStep, SaveEmitting
<1>2. CASE \E a \in Actors : WriterStep(a)
  BY <1>2, SaveTyped, RemoveTyped, StopBlacklistedTyped DEF WriterStep, SaveAndReturn, SaveStopped
<1>3. CASE WatchingDecision \/ BoughtDecision \/ Request
  BY <1>3, WatchingTyped, BoughtTyped, RequestTyped
<1>4. CASE TradeStep \/ ClosePosition
  BY <1>4, ConsumerTyped, WriteTyped, CloseTyped DEF TradeStep
<1>5. CASE NewBar \/ Restart \/ \E signal \in {Pending(stored)} \ {None} : AckTimeout(signal)
  BY <1>5, BarTyped, RestartTyped, TimeoutTyped
<1>6. CASE UNCHANGED vars
  BY <1>6 DEF Typed, TypeOK, Copies, Timely, vars, candidate, actors, trade, history
<1>. QED
  BY <1>1, <1>2, <1>3, <1>4, <1>5, <1>6 DEF Next

\* The type invariant: the ids, bars and attempts of the stored state and of
\* every copy stay in their ranges, whatever fails and whoever writes.
THEOREM TypeCorrect == Spec => []TypeOK
<1>1. Typed => TypeOK
  BY DEF Typed
<1>. QED
  BY TypedInit, TypedNext, <1>1, PTL DEF Spec

-----------------------------------------------------------------------------
(* Writes of the stored state.                                             *)

WriteSteps == {"save", "sync_save", "stop_save", "emit_save"}

\* The state in Redis is only written by SaveState, from a copy.
LEMMA StoredIsSaved ==
  ASSUME Typed, [Next]_vars
  PROVE  \/ stored' = stored
         \/ \E a \in Actors : /\ pc[a] \in WriteSteps /\ WellFormed(copy[a])
                              /\ stored' = Merged(copy[a])
<1>1. ASSUME NEW a \in Actors, NEW from \in WriteSteps, NEW to, Save(a, from, to)
      PROVE  \/ stored' = stored
             \/ pc[a] \in WriteSteps /\ WellFormed(copy[a]) /\ stored' = Merged(copy[a])
  <2>1. pc[a] = from /\ (stored' = stored \/ stored' = Merged(copy[a]))
    BY <1>1 DEF Save
  <2>2. WellFormed(copy[a])
    BY <2>1 DEF Typed, Copies, InHand, WriteSteps
  <2>. QED
    BY <2>1, <2>2
<1>2. CASE \E l \in Loops : SaveEmitting(l)
  BY <1>1, <1>2, LoopsAct DEF SaveEmitting, WriteSteps
<1>3. CASE \E a \in Actors : SaveAndReturn(a) \/ SaveStopped(a)
  BY <1>1, <1>3 DEF SaveAndReturn, SaveStopped, WriteSteps
<1>4. CASE SaveSynced
  BY <1>1, <1>4, LoopsAct DEF SaveSynced, WriteSteps
<1>5. CASE \/ \E l \in Loops : Poll(l) \/ LoadKlines(l) \/ AcquireEmission(l)
           \/ \E l \in Loops : Publish(l) \/ PublishFails(l)
           \/ WatchingDecision
           \/ \E a \in Actors : RemoveActive(a) \/ StopBlacklisted(a)
           \/ Request
  BY <1>5 DEF Poll, LoadKlines, AcquireEmission, Publish, PublishFails, DecisionFrame,
     WatchingDecision, WatchingTooLow, WatchingStays, WatchingBreaksOut, RemoveActive,
     StopBlacklisted, Request, DeleteCandidate, TrimCandidate, UpdateSymbol,
     BlacklistCandidate, RequestFrame, candidate
<1>6. CASE BoughtDecision /\ ~SaveSynced
  BY <1>6, BoughtDecides DEF DecisionFrame, candidate
<1>7. CASE TradeStep \/ ClosePosition
  BY <1>7 DEF TradeStep, ClosePosition, Consume, ExecuteBuy, ExecuteSell, SkipSignal, Answer,
     WriteRow, TradeFrame, candidate
<1>8. CASE \/ NewBar \/ Restart \/ UNCHANGED vars
           \/ \E signal \in {Pending(stored)} \ {None} : AckTimeout(signal)
  BY <1>8 DEF NewBar, Restart, AckTimeout, vars, candidate
<1>. QED
  BY <1>2, <1>3, <1>4, <1>5, <1>6, <1>7, <1>8 DEF Next, LoopStep, WriterStep

\* A symbol that was stored is never erased, although every writer writes back a
\* copy that may be older than the symbol.
THEOREM SymbolNeverErased == Spec => SymbolKept
<1>1. ASSUME Typed, [Next]_vars PROVE stored.symbol => stored'.symbol
  <2>1. stored \in State
    BY <1>1 DEF Typed, TypeOK
  <2>. QED
    BY <1>1, <2>1, StoredIsSaved, Merges
<1>2. Typed /\ [Next]_vars => [stored.symbol => stored'.symbol]_vars
  BY <1>1
<1>. QED
  BY TypedInit, TypedNext, <1>2, PTL DEF Spec, SymbolKept

=============================================================================

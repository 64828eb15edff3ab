------------------------- MODULE CandidateSignalProofs -------------------------
(***************************************************************************)
(* Theorems about the signals of CandidateMonitor: none is sent twice, an  *)
(* open position is under watch, and a candidate is not bought again on    *)
(* the bar of an exit.                                                     *)
(***************************************************************************)
EXTENDS CandidateMonitorProofs

-----------------------------------------------------------------------------
(* No signal is sent twice.                                                *)

\* The calls before and after the klines take no time, and nobody but the loops
\* writes a candidate that is still monitored.  With a request that does (the
\* one for a symbol), the property does not hold.
Prompt == "slow" \notin Faults /\ "symbol" \notin Requests

W == copy["watching"]

\* The loop has a state in hand that keeps the candidate monitored.
InPlay(l) == pc[l] \notin {"idle", "blacklisted"} /\ copy[l].status \in Loops

Monitored == stored.status \in Loops
HoldsBought == InPlay("bought") /\ Held.status = "bought"
InFlight == pc["watching"] \in {"emit_save", "publish"}
Breaking == pc["watching"] \in {"emit", "emit_save"}

\* What a loop decides on is the bar that is forming.
Fresh == \A l \in Loops : pc[l] \in Deciding => loadedBar[l] = bar

Requested == \A a \in Actors \ Loops : pc[a] # "save"

\* The two loops may work at once, because a publication that failed puts the
\* candidate back while the bought loop has polled it.  But then the bought loop
\* works on a buy that was never sent, and on an older one.
LinesApart ==
  /\ InPlay("watching") =>
       /\ stored.status = "bought" =>
            /\ stored.buySignalId \notin sentBuys
            /\ stored.buySignalId.bar <= W.lastDecisionBar
            /\ Breaking => stored.buySignalId.bar < W.buySignalId.bar
       /\ HoldsBought =>
            /\ Held.buySignalId \notin sentBuys
            /\ Held.buySignalId.bar <= W.lastDecisionBar
            /\ Breaking => Held.buySignalId.bar < W.buySignalId.bar
  /\ HoldsBought /\ Monitored =>
       /\ Held.buySignalId.bar <= stored.lastDecisionBar
       /\ Held.buySignalId \in sentBuys =>
            stored.status = "bought" /\ stored.buySignalId = Held.buySignalId
  /\ (HoldsBought /\ Monitored /\ pc["watching"] = "publish"
        /\ Held.buySignalId = W.buySignalId) =>
       stored.status = "bought" /\ stored.buySignalId = Held.buySignalId
  /\ (pc["bought"] \in {"load", "decide"} /\ stored.status = "bought"
        /\ stored.buySignalId = Held.buySignalId) =>
            /\ stored.sellSignalId = Held.sellSignalId
            /\ stored.sellAttempt = Held.sellAttempt

\* A buy that was sent and whose key is free is behind every state that counts.
BuysPassed ==
  /\ \A s \in sentBuys : s.bar <= bar
  /\ \A s \in sentBuys \ emitted :
       /\ Monitored => s.bar <= stored.lastDecisionBar
       /\ \A l \in Loops : InPlay(l) => s.bar <= copy[l].lastDecisionBar
  /\ pc["watching"] = "emit" => W.buySignalId \notin sentBuys \ emitted
  /\ InFlight => W.buySignalId \notin sentBuys
  /\ InFlight /\ W.buySignalId \notin emitted =>
       /\ Monitored => W.buySignalId.bar <= stored.lastDecisionBar
       /\ InPlay("bought") => W.buySignalId.bar <= Held.lastDecisionBar

\* So is a sell: its buy is over, or its attempt, or it is the one waited for.
Passed(state, s) ==
  /\ s.buy.bar <= state.lastDecisionBar
  /\ state.status = "bought" /\ state.buySignalId = s.buy =>
       s.attempt < state.sellAttempt \/ state.sellSignalId = s

SellsPassed ==
  /\ \A s \in sentSells : s.buy.bar <= bar
  /\ \A s \in sentSells \ emitted :
       /\ Monitored => Passed(stored, s)
       /\ InPlay("bought") => Passed(Held, s)
       /\ InPlay("watching") => s.buy.bar <= W.lastDecisionBar
       /\ Breaking => s.buy.bar < W.buySignalId.bar
  /\ pc["bought"] = "emit" => Held.sellSignalId \notin sentSells \ emitted
  /\ pc["bought"] \in {"emit_save", "publish"} =>
       Held.sellSignalId \in emitted \ sentSells

SentOnceInv == Typed /\ Fresh /\ Requested /\ LinesApart /\ BuysPassed /\ SellsPassed

\* The numbers that the parts of the invariant compare.
LEMMA StoredNumbers ==
  ASSUME Typed
  PROVE  /\ bar \in Int /\ stored.lastDecisionBar \in Int /\ stored.lastDecisionBar <= bar
         /\ stored.sellAttempt \in Int
         /\ stored.status = "bought" =>
              /\ stored.buySignalId \in Buys /\ stored.buySignalId.bar \in Int
              /\ stored.buySignalId.bar <= stored.lastDecisionBar
<1>1. WellFormed(stored) /\ stored.lastDecisionBar <= bar /\ bar \in Int
  BY DEF Typed, Timely, TypeOK, Bars
<1>2. stored.lastDecisionBar \in Int /\ stored.sellAttempt \in Int
  BY <1>1 DEF WellFormed, State, Attempts
<1>. QED
  BY <1>1, <1>2, SidesApart DEF WellFormed, Bars

LEMMA HandNumbers ==
  ASSUME Typed, NEW l \in Loops, InPlay(l)
  PROVE  /\ WellFormed(copy[l]) /\ copy[l] \in State /\ InHand(l, pc[l], copy[l])
         /\ copy[l].lastDecisionBar \in Int /\ copy[l].lastDecisionBar <= bar
         /\ copy[l].sellAttempt \in Int
         /\ copy[l].status = "bought" =>
              /\ copy[l].buySignalId \in Buys /\ copy[l].buySignalId.bar \in Int
              /\ copy[l].buySignalId.bar <= copy[l].lastDecisionBar
         /\ copy[l].sellSignalId # None =>
              /\ copy[l].sellSignalId.buy = copy[l].buySignalId
              /\ copy[l].sellSignalId.attempt = copy[l].sellAttempt
<1>1. /\ l \in Actors /\ InHand(l, pc[l], copy[l]) /\ WellFormed(copy[l])
      /\ copy[l].lastDecisionBar <= bar
  BY LoopsAct DEF InPlay, Typed, Copies, Timely, InHand
<1>2. copy[l].lastDecisionBar \in Int /\ copy[l].sellAttempt \in Int
  BY <1>1 DEF WellFormed, State, Attempts
<1>. QED
  BY <1>1, <1>2, SidesApart DEF WellFormed, Bars

LEMMA SentNumbers ==
  ASSUME Typed
  PROVE  /\ \A s \in sentBuys : s \in Buys /\ s.bar \in Int
         /\ \A s \in sentSells : /\ s \in Sells /\ s.buy \in Buys /\ s.buy.bar \in Int
                                 /\ s.attempt \in Int
BY SidesApart DEF Typed, TypeOK, Bars, Attempts

LEMMA SentOnceInit == Init /\ Prompt => SentOnceInv
<1> SUFFICES ASSUME Init, Prompt PROVE SentOnceInv
  OBVIOUS
<1>1. Typed
  BY TypedInit
<1>2. ~InPlay("watching") /\ ~InPlay("bought") /\ \A a \in Actors : pc[a] = "idle"
  BY LoopsAct DEF Init, InPlay
<1>3. pc["watching"] = "idle" /\ pc["bought"] = "idle"
  BY <1>2, LoopsAct
<1>4. Fresh /\ Requested /\ LinesApart
  BY <1>2, <1>3, LoopsAct
     DEF Fresh, Requested, LinesApart, HoldsBought, Deciding
<1>5. BuysPassed /\ SellsPassed
  BY <1>2, <1>3 DEF Init, BuysPassed, SellsPassed, InFlight, Breaking
<1>. QED
  BY <1>1, <1>4, <1>5 DEF SentOnceInv

\* What an actor that goes on leaves to the others.
LEMMA Others ==
  ASSUME Typed, NEW a \in Actors, NEW state, NEW label,
         Continue(a, state, label) \/ (Copy(a, state) /\ Go(a, label))
  PROVE  /\ pc'[a] = label /\ copy'[a] = state
         /\ \A b \in Actors \ {a} : pc'[b] = pc[b] /\ copy'[b] = copy[b]
BY DEF Typed, TypeOK, Continue, Copy, Go

\* How a loop moves when it does not decide: not at all, ...
Stays(l) == pc'[l] = pc[l] /\ copy'[l] = copy[l]

\* ... on towards its decision or its save, with the copy it has, ...
GoesOn(l) ==
  /\ copy'[l] = copy[l]
  /\ \/ pc[l] = "load" /\ pc'[l] = "decide"
     \/ pc[l] \in Deciding /\ pc'[l] \in {"sync_save", "exit", "save"}

\* ... or out of play.
Leaves(l) == ~InPlay(l)' /\ pc'[l] \notin {"load"} \cup Deciding \cup Emitting

\* A step after which no state in play is new, and no key of a signal that was
\* sent, or is about to be, is free that was not.
LEMMA Withdraws ==
  ASSUME SentOnceInv, Typed', Fresh', Requested',
         \A l \in Loops : Stays(l) \/ GoesOn(l) \/ Leaves(l),
         stored' = stored \/ ~Monitored', bar <= bar',
         sentBuys' = sentBuys, sentSells' = sentSells,
         \A s \in sentBuys \cup sentSells : s \in emitted => s \in emitted',
         Stays("watching") /\ InFlight /\ W.buySignalId \in emitted =>
           W.buySignalId \in emitted',
         Stays("bought") /\ pc["bought"] \in {"emit_save", "publish"}
           /\ Held.sellSignalId \in emitted => Held.sellSignalId \in emitted'
  PROVE  SentOnceInv'
<1>0. bar \in Int /\ bar' \in Int /\ bar <= bar'
  BY DEF SentOnceInv, Typed, TypeOK, Bars
<1>1. /\ LinesApart /\ BuysPassed /\ SellsPassed /\ Typed
  BY DEF SentOnceInv
<1>2. \A l \in Loops : InPlay(l)' => InPlay(l) /\ copy'[l] = copy[l]
  BY DEF Stays, GoesOn, Leaves, InPlay, Deciding
<1>3. /\ Breaking' => Breaking /\ Stays("watching")
      /\ InFlight' => InFlight /\ Stays("watching")
      /\ pc'["watching"] = "publish" => pc["watching"] = "publish"
      /\ pc'["watching"] = "emit" => pc["watching"] = "emit" /\ Stays("watching")
      /\ pc'["bought"] = "emit" => pc["bought"] = "emit" /\ Stays("bought")
      /\ pc'["bought"] \in {"emit_save", "publish"} =>
           pc["bought"] \in {"emit_save", "publish"} /\ Stays("bought")
      /\ pc'["bought"] \in {"load", "decide"} =>
           pc["bought"] \in {"load", "decide"} /\ copy'["bought"] = copy["bought"]
  BY LoopsAct DEF Stays, GoesOn, Leaves, Breaking, InFlight, Deciding, Emitting
<1>4. Monitored' => stored' = stored
  OBVIOUS
<1>5. stored'.status = "bought" => stored' = stored
  BY DEF Monitored, Loops
<1>6. /\ InPlay("watching")' => InPlay("watching") /\ W' = W
      /\ InPlay("bought")' => InPlay("bought") /\ Held' = Held
      /\ HoldsBought' => HoldsBought
  BY <1>2, LoopsAct DEF W, Held, HoldsBought
<1>7. Monitored' => Monitored
  BY <1>4 DEF Monitored
<1>8. LinesApart'
  <2>1. HoldsBought' => HoldsBought /\ Held' = Held
    BY <1>6 DEF HoldsBought
  <2>2. pc'["watching"] = "publish" => W' = W
    BY <1>3 DEF InFlight, Stays, W
  <2>3. pc'["bought"] \in {"load", "decide"} => Held' = Held
    BY <1>3 DEF Held
  <2>. QED
    BY <1>1, <1>3, <1>4, <1>5, <1>6, <1>7, <2>1, <2>2, <2>3 DEF LinesApart
<1>9. BuysPassed'
  <2>1. \A s \in sentBuys : s.bar <= bar'
    BY <1>0, <1>1, SentNumbers DEF BuysPassed
  <2>2. \A s \in sentBuys' \ emitted' : s \in sentBuys \ emitted
    OBVIOUS
  <2>3. InFlight' /\ W'.buySignalId \notin emitted' =>
          W' = W /\ InFlight /\ W.buySignalId \notin emitted
    BY <1>3 DEF Stays, W
  <2>4. InFlight' \/ pc'["watching"] = "emit" => W' = W
    BY <1>3 DEF Stays, W
  <2>. QED
    BY <1>1, <1>2, <1>3, <1>4, <1>6, <1>7, <2>1, <2>2, <2>3, <2>4 DEF BuysPassed
<1>10. SellsPassed'
  <2>1. \A s \in sentSells : s.buy.bar <= bar'
    BY <1>0, <1>1, SentNumbers DEF SellsPassed
  <2>2. \A s \in sentSells' \ emitted' : s \in sentSells \ emitted
    OBVIOUS
  <2>3. /\ pc'["bought"] \in {"emit", "emit_save", "publish"} => Held' = Held
        /\ Breaking' => W' = W
    BY <1>3 DEF Stays, W, Held
  <2>4. pc'["bought"] \in {"emit_save", "publish"} =>
          Held'.sellSignalId \in emitted' \ sentSells'
    BY <1>1, <1>3, <2>3 DEF SellsPassed
  <2>5. pc'["bought"] = "emit" => Held'.sellSignalId \notin sentSells' \ emitted'
    BY <1>1, <1>3, <2>3 DEF SellsPassed
  <2>6. ASSUME NEW s \in sentSells' \ emitted'
        PROVE  /\ Monitored' => Passed(stored', s)
               /\ InPlay("bought")' => Passed(Held', s)
               /\ InPlay("watching")' => s.buy.bar <= W'.lastDecisionBar
               /\ Breaking' => s.buy.bar < W'.buySignalId.bar
    BY <1>1, <1>3, <1>4, <1>6, <1>7, <2>2, <2>3 DEF SellsPassed
  <2>. QED
    BY <2>1, <2>4, <2>5, <2>6 DEF SellsPassed, Passed
<1>. QED
  BY <1>8, <1>9, <1>10 DEF SentOnceInv

\* A poll takes the stored state.
LEMMA PollSent ==
  ASSUME SentOnceInv, Typed', NEW l \in Loops, Poll(l)
  PROVE  SentOnceInv'
<1>1. /\ LinesApart /\ BuysPassed /\ SellsPassed /\ Typed /\ Fresh /\ Requested
  BY DEF SentOnceInv
<1>2. /\ pc'[l] = "load" /\ copy'[l] = stored /\ stored.status = l /\ pc[l] = "idle"
      /\ \A b \in Actors \ {l} : pc'[b] = pc[b] /\ copy'[b] = copy[b]
  BY <1>1, Others, LoopsAct DEF Poll
<1>3. UNCHANGED <<stored, emitted, loadedBar, bar, sentBuys, sentSells>>
  BY DEF Poll, candidate, history
<1>4. Fresh' /\ Requested'
  BY <1>1, <1>2, <1>3, LoopsAct DEF Fresh, Requested, Deciding, Loops
<1>5. CASE l = "watching"
  <2>1. /\ stored.status = "watching" /\ Monitored /\ ~Breaking' /\ ~InFlight'
        /\ pc'["bought"] = pc["bought"] /\ Held' = Held /\ W' = stored
        /\ pc'["watching"] = "load" /\ (InPlay("bought")' <=> InPlay("bought"))
        /\ (HoldsBought' <=> HoldsBought) /\ Monitored'
    BY <1>2, <1>3, <1>5, LoopsAct
       DEF Breaking, InFlight, Held, W, Monitored, InPlay, HoldsBought, Loops
  <2>2. LinesApart'
    BY <1>1, <1>3, <2>1 DEF LinesApart
  <2>3. BuysPassed'
    <3>1. \A k \in Loops : InPlay(k)' => (InPlay(k) /\ copy'[k] = copy[k]) \/ copy'[k] = stored
      BY <1>2, LoopsAct DEF InPlay
    <3>. QED
      BY <1>1, <1>3, <2>1, <3>1 DEF BuysPassed
  <2>4. SellsPassed'
    <3>1. \A s \in sentSells \ emitted : Passed(stored, s) /\ s.buy.bar <= stored.lastDecisionBar
      BY <1>1, <2>1 DEF SellsPassed, Passed
    <3>. QED
      BY <1>1, <1>3, <2>1, <3>1 DEF SellsPassed, Passed
  <2>. QED
    BY <1>4, <2>2, <2>3, <2>4 DEF SentOnceInv
<1>6. CASE l = "bought"
  <2>1. /\ stored.status = "bought" /\ Monitored
        /\ pc'["watching"] = pc["watching"] /\ W' = W /\ Held' = stored
        /\ pc'["bought"] = "load" /\ (InPlay("watching")' <=> InPlay("watching"))
        /\ HoldsBought' /\ Monitored' /\ (Breaking' <=> Breaking) /\ (InFlight' <=> InFlight)
    BY <1>2, <1>3, <1>6, LoopsAct
       DEF Breaking, InFlight, Held, W, Monitored, InPlay, HoldsBought, Loops
  <2>2. LinesApart'
    BY <1>1, <1>3, <2>1, StoredNumbers DEF LinesApart
  <2>3. BuysPassed'
    <3>1. \A k \in Loops : InPlay(k)' => (InPlay(k) /\ copy'[k] = copy[k]) \/ copy'[k] = stored
      BY <1>2, LoopsAct DEF InPlay
    <3>. QED
      BY <1>1, <1>3, <2>1, <3>1 DEF BuysPassed
  <2>4. SellsPassed'
    BY <1>1, <1>3, <2>1 DEF SellsPassed, Passed
  <2>. QED
    BY <1>4, <2>2, <2>3, <2>4 DEF SentOnceInv
<1>. QED
  BY <1>5, <1>6 DEF Loops

\* The watching loop has decided: its copy is of a later bar or of the same one,
\* and a breakout is on the bar that is forming.
LEMMA WatchingSent ==
  ASSUME SentOnceInv, Typed', WatchingDecision
  PROVE  SentOnceInv'
<1>1. /\ LinesApart /\ BuysPassed /\ SellsPassed /\ Typed /\ Fresh /\ Requested
  BY DEF SentOnceInv
<1>2. PICK state, label :
        /\ pc["watching"] = "decide" /\ Continue("watching", state, label) /\ UNCHANGED emitted
        /\ DecisionFrame
        /\ \/ label = "stop_save" /\ state = Stopped(W, "stopped")
           \/ label = "save" /\ state = W
           \/ /\ label = "save" /\ loadedBar["watching"] > W.lastDecisionBar
              /\ state = [W EXCEPT !.lastDecisionBar = loadedBar["watching"]]
           \/ /\ label = "emit" /\ loadedBar["watching"] > W.lastDecisionBar
              /\ state = [W EXCEPT !.status = "bought",
                             !.lastDecisionBar = loadedBar["watching"],
                             !.buySignalId = [side |-> "buy", bar |-> loadedBar["watching"]]]
  BY DEF WatchingDecision, WatchingTooLow, WatchingStays, WatchingBreaksOut, W
<1>3. /\ pc'["watching"] = label /\ copy'["watching"] = state
      /\ \A b \in Actors \ {"watching"} : pc'[b] = pc[b] /\ copy'[b] = copy[b]
  BY <1>1, <1>2, Others, LoopsAct
<1>4. UNCHANGED <<stored, emitted, loadedBar, bar, sentBuys, sentSells>>
  BY <1>2 DEF DecisionFrame, candidate, history
<1>5. Fresh' /\ Requested'
  BY <1>1, <1>2, <1>3, <1>4, LoopsAct DEF Fresh, Requested, Deciding, Loops
<1>6. W \in State /\ InPlay("watching") /\ W.status = "watching"
  <2>1. InHand("watching", "decide", W)
    BY <1>1, <1>2, LoopsAct DEF Typed, Copies, W
  <2>. QED
    BY <1>2, <2>1 DEF InHand, WellFormed, InPlay, W, Loops
<1>7. CASE label = "stop_save" \/ state = W
  <2>1. Leaves("watching") \/ GoesOn("watching")
    <3>1. CASE label = "stop_save"
      <4>1. copy'["watching"].status = "stopped"
        BY <1>2, <1>3, <1>6, <3>1 DEF Stopped, State
      <4>. QED
        BY <1>3, <3>1, <4>1 DEF Leaves, InPlay, Deciding, Emitting, Loops
    <3>2. CASE label # "stop_save"
      BY <1>2, <1>3, <1>6, <1>7, <3>2 DEF GoesOn, Deciding, W, State
    <3>. QED
      BY <3>1, <3>2
  <2>2. Stays("bought") /\ ~Stays("watching")
    BY <1>2, <1>3, LoopsAct DEF Stays
  <2>. QED
    BY <1>1, <1>4, <1>5, <2>1, <2>2, Withdraws, StoredNumbers DEF Loops
<1>8. CASE label # "stop_save" /\ state # W
  <2> DEFINE b == loadedBar["watching"]
  <2>1. /\ b = bar /\ b \in Int /\ b > W.lastDecisionBar
    BY <1>1, <1>2, <1>8, LoopsAct DEF Fresh, Deciding, Typed, TypeOK, Bars
  <2>2. /\ state.lastDecisionBar = b /\ state.status \in Loops
        /\ label = "emit" => state.buySignalId.bar = b
    <3>1. CASE state = [W EXCEPT !.lastDecisionBar = b]
      BY <1>2, <1>6, <3>1 DEF State, Loops
    <3>2. CASE /\ label = "emit"
               /\ state = [W EXCEPT !.status = "bought", !.lastDecisionBar = b,
                                    !.buySignalId = [side |-> "buy", bar |-> b]]
      BY <1>6, <3>2 DEF State, Loops
    <3>. QED
      BY <1>2, <1>8, <3>1, <3>2
  <2>3. /\ W' = state /\ Held' = Held /\ pc'["bought"] = pc["bought"]
        /\ InPlay("watching")' /\ (InPlay("bought")' <=> InPlay("bought"))
        /\ (HoldsBought' <=> HoldsBought) /\ (Monitored' <=> Monitored)
        /\ (Breaking' <=> label = "emit") /\ ~InFlight' /\ pc'["watching"] # "publish"
    BY <1>2, <1>3, <1>4, <2>2, LoopsAct
       DEF W, Held, InPlay, HoldsBought, Monitored, Breaking, InFlight
  <2> HIDE DEF b
  <2>4. W.lastDecisionBar \in Int
    BY <1>1, <1>6, HandNumbers, LoopsAct DEF W
  <2>5. LinesApart'
    <3>1. /\ stored.status = "bought" => /\ stored.buySignalId \notin sentBuys
                                         /\ stored.buySignalId.bar < b
          /\ HoldsBought => Held.buySignalId \notin sentBuys /\ Held.buySignalId.bar < b
      BY <1>1, <1>6, <2>1, <2>4, StoredNumbers, HandNumbers, LoopsAct
         DEF LinesApart, HoldsBought, Held
    <3>. QED
      BY <1>1, <1>4, <2>1, <2>2, <2>3, <2>4, <3>1, StoredNumbers, HandNumbers, LoopsAct
         DEF LinesApart, HoldsBought, Held
  <2>6. BuysPassed'
    <3>1. \A s \in sentBuys \ emitted : s.bar < b /\ s \in Buys /\ s.bar \in Int
      BY <1>1, <1>6, <2>1, <2>4, SentNumbers, LoopsAct DEF BuysPassed, W
    <3>2. \A k \in Loops : InPlay(k)' => \/ InPlay(k) /\ copy'[k] = copy[k]
                                         \/ copy'[k].lastDecisionBar = b
      BY <1>3, <2>2, LoopsAct DEF InPlay
    <3>3. pc'["watching"] = "emit" => state.buySignalId \notin sentBuys \ emitted
      BY <1>3, <2>1, <2>2, <3>1
    <3>. QED
      BY <1>1, <1>4, <2>1, <2>3, <3>1, <3>2, <3>3 DEF BuysPassed
  <2>7. SellsPassed'
    <3>1. \A s \in sentSells \ emitted : s.buy.bar < b /\ s.buy.bar \in Int
      BY <1>1, <1>6, <2>1, <2>4, SentNumbers, LoopsAct DEF SellsPassed, W
    <3>. QED
      BY <1>1, <1>3, <1>4, <2>1, <2>2, <2>3, <3>1 DEF SellsPassed, Passed
  <2>. QED
    BY <1>5, <2>5, <2>6, <2>7 DEF SentOnceInv
<1>. QED
  BY <1>7, <1>8

\* What the bought loop makes of its copy stays bought by the same buy, or becomes
\* watching, on the same bar or on the one that is forming; the keys it frees are
\* those of its own signals.
LEMMA HeldMoves ==
  ASSUME SentOnceInv, Typed', NEW state, NEW label \in {"save", "emit", "stop_save"},
         pc["bought"] \in {"decide", "exit", "publish"}, HoldsBought,
         pc'["bought"] = label, copy'["bought"] = state,
         \A a \in Actors \ {"bought"} : pc'[a] = pc[a] /\ copy'[a] = copy[a],
         UNCHANGED <<stored, loadedBar, bar, sentBuys, sentSells>>,
         state.lastDecisionBar = Held.lastDecisionBar \/ state.lastDecisionBar = bar,
         state.status = "bought" => state.buySignalId = Held.buySignalId,
         \E s \in {Held.buySignalId, Held.sellSignalId} : emitted' \in {emitted, emitted \ {s}},
         Held.buySignalId \in emitted \ emitted' =>
           state.status # "bought" /\ (state.status = "watching" => state.lastDecisionBar = bar),
         \A s \in sentSells \ emitted' :
           /\ Monitored => Passed(stored, s)
           /\ Passed(state, s)
           /\ InPlay("watching") => s.buy.bar <= W.lastDecisionBar
           /\ Breaking => s.buy.bar < W.buySignalId.bar,
         label = "emit" => state.sellSignalId \notin sentSells \ emitted'
  PROVE  SentOnceInv'
<1>1. /\ LinesApart /\ BuysPassed /\ SellsPassed /\ Typed /\ Fresh /\ Requested
  BY DEF SentOnceInv
<1>2. Fresh' /\ Requested'
  BY <1>1, LoopsAct DEF Fresh, Requested, Deciding, Loops
<1>3. /\ W' = W /\ Held' = state /\ pc'["watching"] = pc["watching"]
      /\ (InPlay("watching")' <=> InPlay("watching")) /\ (InPlay("bought")' <=> state.status \in Loops)
      /\ (HoldsBought' => state.status = "bought") /\ (Monitored' <=> Monitored)
      /\ (Breaking' <=> Breaking) /\ (InFlight' <=> InFlight)
  BY LoopsAct DEF W, Held, InPlay, HoldsBought, Monitored, Breaking, InFlight
<1>4. /\ Held \in State /\ Held.buySignalId \in Buys /\ Held.buySignalId.bar \in Int
      /\ Held.buySignalId.bar <= Held.lastDecisionBar /\ Held.lastDecisionBar \in Int
      /\ Held.lastDecisionBar <= bar /\ bar \in Int
  BY <1>1, HandNumbers, StoredNumbers, LoopsAct DEF HoldsBought, Held
<1>5. LinesApart'
  BY <1>1, <1>3, <1>4 DEF LinesApart
<1>6. \A s \in Buys : s \in emitted \ emitted' => s = Held.buySignalId
  BY <1>4, SidesApart, StateFields
<1>7. BuysPassed'
  <2>1. ASSUME NEW s \in sentBuys \ emitted'
        PROVE  /\ Monitored => s.bar <= stored.lastDecisionBar
               /\ InPlay("watching") => s.bar <= W.lastDecisionBar
               /\ state.status \in Loops => s.bar <= state.lastDecisionBar
               /\ InPlay("watching") => s \in sentBuys \ emitted
    <3>1. s \in Buys /\ s.bar \in Int /\ s.bar <= bar
      BY <1>1, SentNumbers DEF BuysPassed
    <3>2. CASE s \notin emitted
      <4>1. s.bar <= Held.lastDecisionBar
        BY <1>1, <3>2, LoopsAct DEF BuysPassed, HoldsBought, Held
      <4>. QED
        BY <1>1, <1>4, <3>1, <3>2, <4>1, LoopsAct DEF BuysPassed, W
    <3>3. CASE s \in emitted
      <4>1. s = Held.buySignalId /\ (state.status \in Loops => state.lastDecisionBar = bar)
        BY <1>6, <3>1, <3>3 DEF Loops
      <4>. QED
        BY <1>1, <3>1, <4>1 DEF LinesApart
    <3>. QED
      BY <3>2, <3>3
  <2>2. \A l \in Loops : /\ l = "watching" => copy[l] = W
                         /\ l = "bought" => copy'[l] = state
    BY DEF W
  <2>3. pc["watching"] = "emit" => W.buySignalId \notin sentBuys \ emitted'
    <3>1. pc["watching"] = "emit" => InPlay("watching")
      <4>1. InHand("watching", pc["watching"], W)
        BY <1>1, LoopsAct DEF Typed, Copies, W
      <4>. QED
        BY <4>1 DEF InHand, InPlay, W, Emitting, Loops
    <3>. QED
      BY <1>1, <2>1, <3>1 DEF BuysPassed
  <2>4. InFlight /\ W.buySignalId \notin emitted' =>
          /\ Monitored => W.buySignalId.bar <= stored.lastDecisionBar
          /\ state.status \in Loops => W.buySignalId.bar <= state.lastDecisionBar
    <3> SUFFICES ASSUME InFlight, W.buySignalId \notin emitted'
                 PROVE  /\ Monitored => W.buySignalId.bar <= stored.lastDecisionBar
                        /\ state.status \in Loops =>
                             W.buySignalId.bar <= state.lastDecisionBar
      OBVIOUS
    <3>1. W.buySignalId \in Buys /\ W.buySignalId.bar \in Int /\ W.buySignalId.bar <= bar
      <4>1. InPlay("watching") /\ W.status = "bought"
        <5>1. InHand("watching", pc["watching"], W)
          BY <1>1, LoopsAct DEF Typed, Copies, W
        <5>. QED
          BY <5>1 DEF InHand, InPlay, W, Emitting, Loops, InFlight
      <4>. QED
        BY <1>1, <1>4, <4>1, HandNumbers, LoopsAct DEF W
    <3>2. CASE W.buySignalId \notin emitted
      BY <1>1, <1>4, <3>1, <3>2 DEF BuysPassed, HoldsBought
    <3>3. CASE W.buySignalId \in emitted
      BY <1>1, <1>6, <3>1, <3>3 DEF LinesApart, Loops
    <3>. QED
      BY <3>2, <3>3
  <2>5. \A l \in Loops : InPlay(l)' => \A s \in sentBuys \ emitted' :
                                         s.bar <= copy'[l].lastDecisionBar
    BY <1>3, <2>1, <2>2, LoopsAct DEF Loops, W
  <2>6. \A s \in sentBuys : s.bar <= bar
    BY <1>1 DEF BuysPassed
  <2>. QED
    BY <1>1, <1>3, <2>1, <2>3, <2>4, <2>5, <2>6 DEF BuysPassed
<1>8. SellsPassed'
  <2>1. \A s \in sentSells : s.buy.bar <= bar
    BY <1>1 DEF SellsPassed
  <2>. QED
    BY <1>3, <2>1 DEF SellsPassed, Passed
<1>. QED
  BY <1>2, <1>5, <1>7, <1>8 DEF SentOnceInv

\* The attempt after one that was given up is a new one.
LEMMA RetriedPasses ==
  ASSUME Typed, NEW state, WellFormed(state), state.status = "bought",
         state.sellSignalId # None, NEW s \in sentSells,
         Passed(state, s) \/ s = state.sellSignalId
  PROVE  Passed(Retried(state), s)
<1>1. /\ state \in State /\ state.buySignalId \in Buys /\ state.sellSignalId \in Sells
      /\ state.sellSignalId.buy = state.buySignalId
      /\ state.sellSignalId.attempt = state.sellAttempt
      /\ state.buySignalId.bar <= state.lastDecisionBar
  BY SidesApart, StateFields DEF WellFormed
<1>2. state.sellAttempt \in Int /\ s.attempt \in Int
  BY <1>1, SentNumbers DEF State, Attempts
<1>3. /\ Retried(state).status = "bought" /\ Retried(state).buySignalId = state.buySignalId
      /\ Retried(state).sellAttempt = state.sellAttempt + 1
      /\ Retried(state).lastDecisionBar = state.lastDecisionBar
  BY Retries
<1>4. s.buy.bar <= state.lastDecisionBar
  BY <1>1 DEF Passed
<1>5. s.buy = state.buySignalId => s.attempt <= state.sellAttempt
  BY <1>1, <1>2 DEF Passed
<1>. QED
  BY <1>2, <1>3, <1>4, <1>5 DEF Passed

\* A copy that was decided upon stays where its signals have passed.
LEMMA BoughtSent ==
  ASSUME SentOnceInv, Typed', BoughtDecision, ~SaveSynced
  PROVE  SentOnceInv'
<1>1. /\ LinesApart /\ BuysPassed /\ SellsPassed /\ Typed /\ Fresh /\ Requested
  BY DEF SentOnceInv
<1>2. pc["bought"] \in {"decide", "exit"} /\ DecisionFrame
  BY <1>1, BoughtDecides
<1>3. PICK state, label : Continue("bought", state, label) /\ Outcome(state, label)
  BY <1>1, BoughtDecides
<1>4. /\ pc'["bought"] = label /\ copy'["bought"] = state
      /\ \A a \in Actors \ {"bought"} : pc'[a] = pc[a] /\ copy'[a] = copy[a]
  BY <1>1, <1>3, Others, LoopsAct
<1>5. UNCHANGED <<stored, loadedBar, bar, sentBuys, sentSells>>
  BY <1>2 DEF DecisionFrame, candidate, history
<1>6. /\ WellFormed(Held) /\ Held.status = "bought" /\ Held.buySignalId \in Buys
      /\ (pc["bought"] = "exit" => Held.sellSignalId = None) /\ Held \in State
  BY <1>1, <1>2, HeldIsBought DEF WellFormed
<1>7. loadedBar["bought"] = bar /\ bar \in 0..MaxBars /\ bar \in Int
  BY <1>1, <1>2, LoopsAct DEF Fresh, Deciding, Typed, TypeOK, Bars
<1>8. HoldsBought /\ InPlay("bought")
  BY <1>2, <1>6 DEF HoldsBought, InPlay, Held, Loops
<1>9. \A s \in sentSells \ emitted :
           /\ Monitored => Passed(stored, s)
           /\ Passed(Held, s)
           /\ InPlay("watching") => s.buy.bar <= W.lastDecisionBar
           /\ Breaking => s.buy.bar < W.buySignalId.bar
  BY <1>1, <1>8 DEF SellsPassed
<1>10. CASE Keeps(state, label)
  <2>1. GoesOn("bought") /\ Stays("watching") /\ emitted' = emitted /\ ~Stays("bought")
    BY <1>2, <1>4, <1>10, LoopsAct DEF GoesOn, Stays, Keeps, Held, Deciding
  <2>2. Fresh' /\ Requested'
    BY <1>1, <1>2, <1>4, <1>5, <1>10, LoopsAct
       DEF Keeps, Fresh, Requested, Deciding, Loops
  <2>. QED
    BY <1>1, <1>5, <1>7, <2>1, <2>2, Withdraws DEF Loops
<1>11. CASE GivesUpSell(state, label)
  <2>1. /\ label = "save" /\ state = Retried(Held) /\ Held.sellSignalId # None
        /\ emitted' = emitted \ {Held.sellSignalId} /\ pc["bought"] = "decide"
    BY <1>2, <1>6, <1>11 DEF GivesUpSell
  <2>2. /\ state.status = "bought" /\ state.buySignalId = Held.buySignalId
        /\ state.lastDecisionBar = Held.lastDecisionBar
    BY <1>6, <2>1, Retries
  <2>3. Held.sellSignalId.buy = Held.buySignalId /\ Held.sellSignalId \in Sells
    BY <1>6, <2>1, StateFields DEF WellFormed
  <2>4. Held.buySignalId \notin emitted \ emitted'
    BY <1>6, <2>1, <2>3, SidesApart
  <2>5. ASSUME NEW s \in sentSells \ emitted'
        PROVE  /\ Monitored => Passed(stored, s)
               /\ Passed(state, s)
               /\ InPlay("watching") => s.buy.bar <= W.lastDecisionBar
               /\ Breaking => s.buy.bar < W.buySignalId.bar
    <3>1. CASE s \in emitted
      <4>1. s = Held.sellSignalId
        BY <2>1, <3>1
      <4>2. /\ Passed(state, s)
            /\ InPlay("watching") => s.buy.bar <= W.lastDecisionBar
            /\ Breaking => s.buy.bar < W.buySignalId.bar
        <5>1. Breaking => InPlay("watching")
          <6>1. InHand("watching", pc["watching"], W)
            BY <1>1, LoopsAct DEF Typed, Copies, W
          <6>. QED
            BY <6>1 DEF InHand, InPlay, W, Emitting, Loops, Breaking
        <5>. QED
          BY <1>1, <1>6, <1>8, <2>1, <2>3, <4>1, <5>1, RetriedPasses DEF LinesApart
      <4>3. Monitored => Passed(stored, s)
        BY <1>1, <1>8, <2>1, <2>3, <4>1 DEF LinesApart, Passed
      <4>. QED
        BY <4>2, <4>3
    <3>2. CASE s \notin emitted
      BY <1>1, <1>6, <1>9, <2>1, <3>2, RetriedPasses
    <3>. QED
      BY <3>1, <3>2
  <2>. QED
    BY <1>2, <1>4, <1>5, <1>8, <2>1, <2>2, <2>4, <2>5, HeldMoves
<1>12. CASE GivesUpBuy(state, label)
  <2>1. /\ state.status \in {"watching", "stopped", "sold"} /\ label \in {"save", "stop_save"}
        /\ state.status = "watching" => state.lastDecisionBar = bar
        /\ state.lastDecisionBar \in {Held.lastDecisionBar, bar}
    <3>1. CASE state = Rearmed(Held, loadedBar["bought"]) /\ label = "save"
      BY <1>6, <1>7, <3>1, Rearms
    <3>2. CASE \E status \in {"stopped", "sold"} :
                 state = Stopped(Held, status) /\ label = "stop_save"
      BY <1>6, <3>2 DEF Stopped, State
    <3>. QED
      BY <1>12, <3>1, <3>2 DEF GivesUpBuy
  <2>2. emitted' \in {emitted, emitted \ {Held.buySignalId}}
    BY <1>12 DEF GivesUpBuy
  <2>3. ASSUME NEW s \in sentSells \ emitted'
        PROVE  /\ Monitored => Passed(stored, s)
               /\ Passed(state, s)
               /\ InPlay("watching") => s.buy.bar <= W.lastDecisionBar
               /\ Breaking => s.buy.bar < W.buySignalId.bar
    <3>1. s \in sentSells \ emitted
      BY <1>1, <1>6, <2>2, SentNumbers, SidesApart
    <3>2. s.buy.bar <= state.lastDecisionBar
      BY <1>1, <1>9, <2>1, <3>1 DEF Passed, SellsPassed
    <3>. QED
      BY <1>9, <2>1, <3>1, <3>2 DEF Passed
  <2>. QED
    BY <1>2, <1>4, <1>5, <1>8, <2>1, <2>2, <2>3, HeldMoves
<1>13. CASE Ends(state, label)
  <2>1. /\ state.status \in {"watching", "sold"} /\ label \in {"save", "stop_save"}
        /\ state.lastDecisionBar = Held.lastDecisionBar
    <3>1. CASE state = Rebuy(Held) /\ label = "save"
      BY <1>6, <3>1, Rebought
    <3>2. CASE /\ state = Stopped([Held EXCEPT !.sellSignalId = None, !.sellAttempt = 0], "sold")
               /\ label = "stop_save"
      BY <1>6, <3>2 DEF Stopped, State
    <3>. QED
      BY <1>13, <3>1, <3>2 DEF Ends
  <2>2. emitted' = emitted
    BY <1>13 DEF Ends
  <2>3. \A s \in sentSells \ emitted : Passed(state, s)
    BY <1>9, <2>1 DEF Passed
  <2>. QED
    BY <1>2, <1>4, <1>5, <1>8, <1>9, <2>1, <2>2, <2>3, HeldMoves
<1>14. CASE SellsIt(state, label)
  <2>1. /\ pc["bought"] = "exit" /\ label = "emit" /\ emitted' = emitted
        /\ Held.sellSignalId = None
    BY <1>6, <1>14 DEF SellsIt
  <2>2. /\ state.status = "bought" /\ state.buySignalId = Held.buySignalId
        /\ state.sellSignalId = NewSell /\ state.sellAttempt = Held.sellAttempt
        /\ state.lastDecisionBar = bar
    BY <1>6, <1>7, <1>14 DEF SellsIt, State
  <2>3. \A s \in sentSells : s.buy.bar <= bar /\ s # None
    BY <1>1, SentNumbers, SidesApart DEF SellsPassed
  <2>4. \A s \in sentSells \ emitted : Passed(state, s)
    BY <1>6, <1>9, <2>1, <2>2, <2>3 DEF Passed
  <2>5. NewSell \notin sentSells \ emitted
    <3>1. /\ NewSell.buy = Held.buySignalId /\ NewSell.attempt = Held.sellAttempt
      BY DEF NewSell, SellOf
    <3>2. Held.sellAttempt \in Int
      BY <1>6 DEF State, Attempts
    <3>. QED
      BY <1>6, <1>9, <2>1, <2>3, <3>1, <3>2 DEF Passed
  <2>. QED
    BY <1>2, <1>4, <1>5, <1>8, <1>9, <2>1, <2>2, <2>4, <2>5, HeldMoves
<1>. QED
  BY <1>3, <1>10, <1>11, <1>12, <1>13, <1>14 DEF Outcome

\* A loop that sends has a bought state, the watching one without a sell.
LEMMA SendingHand ==
  ASSUME Typed, NEW l \in Loops, pc[l] \in Emitting
  PROVE  /\ InPlay(l) /\ WellFormed(copy[l]) /\ copy[l].status = "bought" /\ copy[l] \in State
         /\ l = "watching" => Pending(copy[l]) = W.buySignalId /\ W.buySignalId \in Buys
         /\ l = "bought" => /\ HoldsBought /\ Held.sellSignalId # None
                            /\ Pending(copy[l]) = Held.sellSignalId
                            /\ Held.sellSignalId \in Sells
                            /\ Held.lastExitBar \in Int
<1>1. InHand(l, pc[l], copy[l])
  BY LoopsAct DEF Typed, Copies
<1>2. WellFormed(copy[l]) /\ copy[l].status = "bought" /\ InPlay(l)
  BY <1>1 DEF InHand, InPlay, Emitting, Loops
<1>3. l = "watching" <=> copy[l].sellSignalId = None
  BY <1>1 DEF InHand
<1>4. l = "bought" => Held.lastExitBar \in Int
  BY <1>2 DEF WellFormed, Held, State
<1>. QED
  BY <1>2, <1>3, <1>4, PendingKind DEF WellFormed, W, Held, HoldsBought, Loops

LEMMA AcquireSent ==
  ASSUME SentOnceInv, Typed', NEW l \in Loops, AcquireEmission(l)
  PROVE  SentOnceInv'
<1>1. /\ LinesApart /\ BuysPassed /\ SellsPassed /\ Typed /\ Fresh /\ Requested
  BY DEF SentOnceInv
<1> DEFINE signal == Pending(copy[l])
<1>2. /\ pc[l] = "emit" /\ DecisionFrame
      /\ \/ Return(l) /\ UNCHANGED emitted
         \/ /\ emitted' = emitted \cup {signal} /\ signal \notin emitted
            /\ Continue(l, copy[l], "emit_save")
  BY DEF AcquireEmission
<1>3. UNCHANGED <<stored, loadedBar, bar, sentBuys, sentSells>>
  BY <1>2 DEF DecisionFrame, candidate, history
<1>4. CASE Return(l) /\ UNCHANGED emitted
  <2>1. /\ pc'[l] = "idle" /\ \A b \in Actors \ {l} : pc'[b] = pc[b] /\ copy'[b] = copy[b]
    BY <1>1, <1>4, Others, LoopsAct DEF Return
  <2>2. Fresh' /\ Requested' /\ Leaves(l) /\ \A k \in Loops \ {l} : Stays(k)
    BY <1>1, <1>3, <2>1, LoopsAct
       DEF Fresh, Requested, Leaves, Stays, InPlay, Deciding, Emitting, Loops
  <2>. QED
    BY <1>1, <1>2, <1>3, <1>4, <2>1, <2>2, Withdraws, StoredNumbers, LoopsAct DEF Loops, InFlight
<1>5. CASE /\ emitted' = emitted \cup {signal} /\ signal \notin emitted
           /\ Continue(l, copy[l], "emit_save")
  <2>1. /\ pc'[l] = "emit_save" /\ copy' = copy
        /\ \A b \in Actors \ {l} : pc'[b] = pc[b]
    BY <1>1, <1>5, Others, LoopsAct DEF Continue, Copy, Typed, TypeOK
  <2>2. Fresh' /\ Requested'
    BY <1>1, <1>2, <1>3, <2>1, LoopsAct DEF Fresh, Requested, Deciding, Loops
  <2>3. /\ W' = W /\ Held' = Held /\ \A k \in Loops : InPlay(k)' <=> InPlay(k)
        /\ (HoldsBought' <=> HoldsBought) /\ (Monitored' <=> Monitored)
        /\ (Breaking' <=> Breaking)
        /\ (pc'["watching"] = "publish" <=> pc["watching"] = "publish")
        /\ (pc'["bought"] \in {"load", "decide"} <=> pc["bought"] \in {"load", "decide"})
    BY <1>2, <1>3, <2>1, LoopsAct
       DEF W, Held, InPlay, HoldsBought, Monitored, Breaking, Loops
  <2>4. LinesApart'
    BY <1>1, <1>3, <2>3, LoopsAct DEF LinesApart
  <2>5. CASE l = "watching"
    <3>1. signal = W.buySignalId /\ signal \in Buys
      BY <1>1, <1>2, <2>5, SendingHand DEF Emitting
    <3>2. W.buySignalId \notin sentBuys
      BY <1>1, <1>2, <1>5, <2>5, <3>1 DEF BuysPassed
    <3>3. pc'["watching"] = "emit_save" /\ pc'["bought"] = pc["bought"]
      BY <2>1, <2>5, LoopsAct
    <3> HIDE DEF signal
    <3>4. BuysPassed'
      BY <1>1, <1>3, <1>5, <2>1, <2>3, <3>1, <3>2, <3>3 DEF BuysPassed
    <3>5. SellsPassed'
      BY <1>1, <1>3, <1>5, <2>1, <2>3, <3>3, LoopsAct DEF SellsPassed
    <3>. QED
      BY <2>2, <2>4, <3>4, <3>5 DEF SentOnceInv
  <2>6. CASE l = "bought"
    <3>1. signal = Held.sellSignalId
      BY <1>1, <1>2, <2>6, SendingHand DEF Emitting
    <3>2. Held.sellSignalId \notin sentSells
      BY <1>1, <1>2, <1>5, <2>6, <3>1 DEF SellsPassed
    <3>3. pc'["bought"] = "emit_save" /\ pc'["watching"] = pc["watching"]
      BY <2>1, <2>6, LoopsAct
    <3> HIDE DEF signal
    <3>4. BuysPassed'
      <4>1. InFlight' <=> InFlight
        BY <3>3 DEF InFlight
      <4>. QED
        BY <1>1, <1>3, <1>5, <2>1, <2>3, <3>3, <4>1, LoopsAct DEF BuysPassed
    <3>5. SellsPassed'
      BY <1>1, <1>3, <1>5, <2>1, <2>3, <3>1, <3>2, <3>3, LoopsAct DEF SellsPassed
    <3>. QED
      BY <2>2, <2>4, <3>4, <3>5 DEF SentOnceInv
  <2>. QED
    BY <2>5, <2>6 DEF Loops
<1>. QED
  BY <1>2, <1>4, <1>5

\* A signal that is published was not sent before, and its state is stored.
LEMMA PublishSent ==
  ASSUME SentOnceInv, Typed', NEW l \in Loops, Publish(l)
  PROVE  SentOnceInv' /\ Pending(copy[l]) \notin sentBuys \cup sentSells
<1>1. /\ LinesApart /\ BuysPassed /\ SellsPassed /\ Typed /\ Fresh /\ Requested
  BY DEF SentOnceInv
<1> DEFINE signal == Pending(copy[l])
<1>2. /\ pc[l] = "publish" /\ Return(l)
      /\ sentBuys' = sentBuys \cup ({signal} \cap Buys)
      /\ sentSells' = sentSells \cup ({signal} \cap Sells)
      /\ UNCHANGED <<stored, emitted, loadedBar, bar>>
  BY DEF Publish, candidate
<1>3. /\ pc'[l] = "idle" /\ \A b \in Actors \ {l} : pc'[b] = pc[b] /\ copy'[b] = copy[b]
  BY <1>1, <1>2, Others, LoopsAct DEF Return
<1>4. Fresh' /\ Requested' /\ ~InPlay(l)'
  BY <1>1, <1>2, <1>3, LoopsAct DEF Fresh, Requested, InPlay, Deciding, Loops
<1>5. Monitored' <=> Monitored
  BY <1>2 DEF Monitored
<1>6. CASE l = "watching"
  <2>1. /\ signal = W.buySignalId /\ signal \in Buys /\ InPlay("watching")
        /\ W.buySignalId.bar <= bar /\ signal \notin Sells
    <3>1. signal = W.buySignalId /\ signal \in Buys /\ InPlay("watching") /\ W.status = "bought"
      BY <1>1, <1>2, <1>6, SendingHand DEF Emitting, W
    <3>. QED
      BY <1>1, <3>1, SidesApart, HandNumbers, StoredNumbers, LoopsAct DEF W
  <2>2. /\ sentBuys' = sentBuys \cup {signal} /\ sentSells' = sentSells
        /\ signal \notin sentBuys /\ InFlight
    BY <1>1, <1>2, <1>6, <2>1 DEF BuysPassed, InFlight
  <2>3. /\ Held' = Held /\ pc'["bought"] = pc["bought"] /\ pc'["watching"] = "idle"
        /\ (InPlay("bought")' <=> InPlay("bought")) /\ (HoldsBought' <=> HoldsBought)
        /\ ~InPlay("watching")' /\ ~Breaking' /\ ~InFlight'
    BY <1>3, <1>4, <1>6, LoopsAct DEF Held, InPlay, HoldsBought, Breaking, InFlight
  <2> HIDE DEF signal
  <2>4. LinesApart'
    BY <1>1, <1>2, <1>5, <1>6, <2>1, <2>2, <2>3 DEF LinesApart
  <2>5. BuysPassed'
    <3>1. \A k \in Loops : InPlay(k)' => k = "bought" /\ InPlay("bought")
      BY <2>3, <1>4, <1>6 DEF Loops
    <3>2. \A s \in sentBuys' \ emitted' :
            /\ Monitored => s.bar <= stored.lastDecisionBar
            /\ InPlay("bought") => s.bar <= Held.lastDecisionBar
      BY <1>1, <1>2, <2>1, <2>2, LoopsAct DEF BuysPassed, Held
    <3>3. \A s \in sentBuys' : s.bar <= bar
      BY <1>1, <2>1, <2>2 DEF BuysPassed
    <3>. QED
      BY <1>1, <1>2, <1>5, <2>3, <3>1, <3>2, <3>3 DEF BuysPassed, Held
  <2>6. SellsPassed'
    BY <1>1, <1>2, <1>5, <2>2, <2>3 DEF SellsPassed
  <2>7. signal \notin sentSells
    BY <1>1, <2>1 DEF Typed, TypeOK
  <2>. QED
    BY <1>4, <2>2, <2>4, <2>5, <2>6, <2>7 DEF SentOnceInv, signal
<1>7. CASE l = "bought"
  <2>1. /\ signal = Held.sellSignalId /\ signal \in Sells /\ HoldsBought
        /\ signal.buy.bar <= bar /\ signal \notin Buys
    <3>1. signal = Held.sellSignalId /\ signal \in Sells /\ HoldsBought /\ InPlay("bought")
      BY <1>1, <1>2, <1>7, SendingHand DEF Emitting, HoldsBought
    <3>2. signal.buy = Held.buySignalId /\ Held.buySignalId.bar <= bar
      BY <1>1, <3>1, HandNumbers, StoredNumbers, SidesApart, LoopsAct DEF Held, HoldsBought
    <3>. QED
      BY <3>1, <3>2, SidesApart
  <2>2. /\ sentSells' = sentSells \cup {signal} /\ sentBuys' = sentBuys
        /\ signal \in emitted \ sentSells
    BY <1>1, <1>2, <1>7, <2>1 DEF SellsPassed
  <2>3. /\ W' = W /\ pc'["watching"] = pc["watching"] /\ pc'["bought"] = "idle"
        /\ (InPlay("watching")' <=> InPlay("watching")) /\ ~InPlay("bought")' /\ ~HoldsBought'
        /\ (Breaking' <=> Breaking) /\ (InFlight' <=> InFlight)
    BY <1>3, <1>4, <1>7, LoopsAct DEF W, InPlay, HoldsBought, Breaking, InFlight
  <2> HIDE DEF signal
  <2>4. LinesApart'
    BY <1>1, <1>2, <1>5, <2>2, <2>3 DEF LinesApart
  <2>5. BuysPassed'
    <3>1. \A k \in Loops : InPlay(k)' => k = "watching" /\ InPlay("watching")
      BY <2>3 DEF Loops
    <3>. QED
      BY <1>1, <1>2, <1>5, <2>2, <2>3, <3>1, LoopsAct DEF BuysPassed, W
  <2>6. SellsPassed'
    <3>1. sentSells' \ emitted' = sentSells \ emitted
      BY <1>2, <2>2
    <3>2. \A s \in sentSells' : s.buy.bar <= bar
      BY <1>1, <2>1, <2>2 DEF SellsPassed
    <3>. QED
      BY <1>1, <1>2, <1>5, <2>3, <3>1, <3>2 DEF SellsPassed
  <2>7. signal \notin sentBuys
    BY <1>1, <2>1 DEF Typed, TypeOK
  <2>. QED
    BY <1>4, <2>2, <2>4, <2>5, <2>6, <2>7 DEF SentOnceInv, signal
<1>. QED
  BY <1>6, <1>7 DEF Loops

\* A publication that fails leaves a signal that was not sent, with its key free.
LEMMA PublishFailsSent ==
  ASSUME SentOnceInv, Typed', NEW l \in Loops, PublishFails(l)
  PROVE  SentOnceInv'
<1>1. /\ LinesApart /\ BuysPassed /\ SellsPassed /\ Typed /\ Fresh /\ Requested
  BY DEF SentOnceInv
<1>2. /\ pc[l] = "publish" /\ emitted' = emitted \ {Pending(copy[l])}
      /\ UNCHANGED <<stored, loadedBar, bar, sentBuys, sentSells>>
  BY DEF PublishFails, candidate, history
<1>3. CASE l = "watching"
  <2>1. /\ pc'["watching"] = "save" /\ copy'["watching"] = Rebuy(W)
        /\ \A b \in Actors \ {"watching"} : pc'[b] = pc[b] /\ copy'[b] = copy[b]
    BY <1>1, <1>3, Others, LoopsAct DEF PublishFails, W
  <2>2. /\ WellFormed(W) /\ InPlay("watching") /\ W.buySignalId \in Buys
        /\ emitted' = emitted \ {W.buySignalId}
    BY <1>1, <1>2, <1>3, SendingHand DEF Emitting, W
  <2>3. W.buySignalId \notin sentBuys \cup sentSells
    BY <1>1, <1>2, <1>3, <2>2 DEF BuysPassed, InFlight, Typed, TypeOK, Sells, Buys
  <2>4. Rebuy(W).status = "watching" /\ Rebuy(W).lastDecisionBar = W.lastDecisionBar
    BY <2>2, Rebought
  <2>5. Fresh' /\ Requested'
    BY <1>1, <1>2, <2>1, LoopsAct DEF Fresh, Requested, Deciding, Loops
  <2>6. /\ Held' = Held /\ pc'["bought"] = pc["bought"] /\ W' = Rebuy(W)
        /\ InPlay("watching")' /\ (InPlay("bought")' <=> InPlay("bought"))
        /\ (HoldsBought' <=> HoldsBought) /\ (Monitored' <=> Monitored)
        /\ ~Breaking' /\ ~InFlight'
    BY <1>2, <2>1, <2>4, LoopsAct
       DEF Held, W, InPlay, HoldsBought, Monitored, Breaking, InFlight, Loops
  <2>7. LinesApart'
    BY <1>1, <1>2, <2>1, <2>2, <2>4, <2>6 DEF LinesApart
  <2>8. BuysPassed'
    <3>1. \A k \in Loops : InPlay(k)' =>
            InPlay(k) /\ copy'[k].lastDecisionBar = copy[k].lastDecisionBar
      BY <2>1, <2>2, <2>4, <2>6 DEF Loops, W, Held
    <3>2. sentBuys' \ emitted' = sentBuys \ emitted
      BY <1>2, <2>2, <2>3
    <3>. QED
      BY <1>1, <1>2, <2>1, <2>6, <3>1, <3>2 DEF BuysPassed
  <2>9. SellsPassed'
    <3>1. sentSells' \ emitted' = sentSells \ emitted
      BY <1>2, <2>2, <2>3
    <3>2. \A s \in Sells : s # W.buySignalId
      BY <2>2, SidesApart
    <3>3. pc["bought"] \in {"emit_save", "publish"} => Held.sellSignalId \in Sells
      BY <1>1, SendingHand, LoopsAct DEF Emitting
    <3>. QED
      BY <1>1, <1>2, <2>1, <2>2, <2>4, <2>6, <3>1, <3>2, <3>3, LoopsAct DEF SellsPassed
  <2>. QED
    BY <2>5, <2>7, <2>8, <2>9 DEF SentOnceInv
<1>4. CASE l = "bought"
  <2>1. /\ pc'["bought"] = "save" /\ copy'["bought"] = Retried(Held)
        /\ \A b \in Actors \ {"bought"} : pc'[b] = pc[b] /\ copy'[b] = copy[b]
    BY <1>1, <1>4, Others, LoopsAct DEF PublishFails, Held
  <2>2. /\ WellFormed(Held) /\ Held.status = "bought" /\ Held.sellSignalId # None
        /\ Held.sellSignalId \in Sells /\ emitted' = emitted \ {Held.sellSignalId}
        /\ HoldsBought /\ InPlay("bought") /\ Held.buySignalId \in Buys
    BY <1>1, <1>2, <1>4, SendingHand DEF Emitting, Held, HoldsBought, WellFormed
  <2>3. /\ Retried(Held).status = "bought" /\ Retried(Held).buySignalId = Held.buySignalId
        /\ Retried(Held).lastDecisionBar = Held.lastDecisionBar
    BY <2>2, Retries
  <2>4. Held.sellSignalId \notin sentSells
    BY <1>1, <1>2, <1>4 DEF SellsPassed
  <2>5. \A s \in sentSells \ emitted' :
           /\ Monitored => Passed(stored, s)
           /\ Passed(Retried(Held), s)
           /\ InPlay("watching") => s.buy.bar <= W.lastDecisionBar
           /\ Breaking => s.buy.bar < W.buySignalId.bar
    BY <1>1, <2>2, <2>4, RetriedPasses DEF SellsPassed
  <2>6. Held.buySignalId \notin emitted \ emitted'
    BY <2>2, SidesApart
  <2>. QED
    BY <1>2, <1>4, <2>1, <2>2, <2>3, <2>5, <2>6, HeldMoves
<1>. QED
  BY <1>3, <1>4 DEF Loops

\* The klines are loaded: the bar that is forming is the one decided upon.
LEMMA LoadSent ==
  ASSUME SentOnceInv, Typed', NEW l \in Loops, LoadKlines(l)
  PROVE  SentOnceInv'
<1>1. /\ LinesApart /\ BuysPassed /\ SellsPassed /\ Typed /\ Fresh /\ Requested
  BY DEF SentOnceInv
<1>2. /\ pc[l] = "load" /\ UNCHANGED <<stored, emitted, bar, sentBuys, sentSells>>
      /\ \A b \in Actors \ {l} : pc'[b] = pc[b] /\ copy'[b] = copy[b]
      /\ \/ pc'[l] = "decide" /\ copy'[l] = copy[l]
            /\ loadedBar' = [loadedBar EXCEPT ![l] = bar]
         \/ pc'[l] \in {"blacklisted", "idle"} /\ loadedBar' = loadedBar
  BY <1>1, Others, LoopsAct DEF LoadKlines, Return, candidate, history
<1>3. Fresh' /\ Requested'
  BY <1>1, <1>2, LoopsAct DEF Fresh, Requested, Deciding, Loops, Typed, TypeOK
<1>4. \A k \in Loops : Stays(k) \/ GoesOn(k) \/ Leaves(k)
  BY <1>2, LoopsAct DEF Stays, GoesOn, Leaves, InPlay, Deciding, Emitting
<1>. QED
  BY <1>1, <1>2, <1>3, <1>4, Withdraws, StoredNumbers

\* A write of the stored state by a loop that stays on.
LEMMA LoopSaves ==
  ASSUME SentOnceInv, Typed', NEW l \in Loops, InPlay(l), WellFormed(copy[l]),
         pc[l] \in {"save", "sync_save", "emit_save"},
         stored' = Merged(copy[l]),
         UNCHANGED <<emitted, loadedBar, bar, sentBuys, sentSells>>,
         \A b \in Actors \ {l} : pc'[b] = pc[b] /\ copy'[b] = copy[b],
         \/ pc[l] = "save" /\ pc'[l] = "idle"
         \/ pc[l] = "sync_save" /\ pc'[l] = "exit" /\ copy'[l] = copy[l]
         \/ pc[l] = "emit_save" /\ pc'[l] = "publish" /\ copy'[l] = copy[l]
  PROVE  SentOnceInv'
<1>1. /\ LinesApart /\ BuysPassed /\ SellsPassed /\ Typed /\ Fresh /\ Requested
  BY DEF SentOnceInv
<1>2. /\ stored'.status = copy[l].status /\ stored'.buySignalId = copy[l].buySignalId
      /\ stored'.sellSignalId = copy[l].sellSignalId
      /\ stored'.sellAttempt = copy[l].sellAttempt
      /\ stored'.lastDecisionBar = copy[l].lastDecisionBar
      /\ Monitored'
  BY <1>1, Merges DEF Typed, TypeOK, Monitored, InPlay
<1>3. Fresh' /\ Requested'
  BY <1>1, LoopsAct DEF Fresh, Requested, Deciding, Loops
<1>4. InHand(l, pc[l], copy[l])
  BY <1>1, HandNumbers
<1>5. \A s \in sentSells : s \notin emitted => Passed(stored', s) <=> Passed(copy[l], s)
  BY <1>2 DEF Passed
<1>6. CASE l = "watching"
  <2>1. /\ Held' = Held /\ pc'["bought"] = pc["bought"]
        /\ (InPlay("bought")' <=> InPlay("bought")) /\ (HoldsBought' <=> HoldsBought)
        /\ InPlay("watching") /\ ~Breaking'
        /\ (InPlay("watching")' => W' = W) /\ (InFlight' => W' = W)
    BY <1>6, LoopsAct DEF Held, W, InPlay, HoldsBought, Breaking, InFlight
  <2>2. /\ stored'.status = W.status /\ stored'.buySignalId = W.buySignalId
        /\ stored'.lastDecisionBar = W.lastDecisionBar
    BY <1>2, <1>6 DEF W
  <2>3. HoldsBought => /\ Held.buySignalId \notin sentBuys
                       /\ Held.buySignalId.bar <= W.lastDecisionBar
                       /\ Breaking => Held.buySignalId.bar < W.buySignalId.bar
    BY <1>1, <2>1 DEF LinesApart
  <2>4. CASE pc["watching"] = "save"
    <3>1. W.status = "watching" /\ pc'["watching"] = "idle" /\ ~InPlay("watching")' /\ ~InFlight'
      BY <1>4, <1>6, <2>4 DEF InHand, W, InPlay, InFlight
    <3>2. LinesApart'
      BY <2>1, <2>2, <2>3, <3>1 DEF LinesApart
    <3>3. BuysPassed'
      <4>1. \A k \in Loops : InPlay(k)' => k = "bought" /\ InPlay("bought")
        BY <2>1, <3>1 DEF Loops
      <4>. QED
        BY <1>1, <2>1, <2>2, <3>1, <4>1, LoopsAct DEF BuysPassed, W, Held
    <3>4. SellsPassed'
      <4>1. \A s \in sentSells \ emitted : Passed(stored', s)
        BY <1>1, <2>1, <2>2, <3>1 DEF Passed, SellsPassed
      <4>. QED
        BY <1>1, <2>1, <3>1, <4>1 DEF SellsPassed
    <3>. QED
      BY <1>3, <3>2, <3>3, <3>4 DEF SentOnceInv
  <2>5. CASE pc["watching"] = "emit_save"
    <3>1. /\ W.status = "bought" /\ W.buySignalId \in Buys /\ W.buySignalId \notin sentBuys
          /\ W.buySignalId.bar <= W.lastDecisionBar /\ InFlight /\ Breaking
          /\ pc'["watching"] = "publish" /\ W' = W /\ W.buySignalId.bar \in Int
          /\ InPlay("watching")'
      <4>1. W.status = "bought" /\ InFlight /\ Breaking
        BY <1>1, <2>5, SendingHand, LoopsAct DEF Emitting, InFlight, Breaking, W
      <4>2. pc'["watching"] = "publish" /\ W' = W
        BY <1>6, <2>5 DEF W
      <4>3. /\ W.buySignalId \in Buys /\ W.buySignalId.bar <= W.lastDecisionBar
            /\ W.buySignalId.bar \in Int
        BY <1>1, <2>1, <4>1, HandNumbers, LoopsAct DEF W
      <4>4. InPlay("watching")' /\ W.buySignalId \notin sentBuys
        BY <1>1, <4>1, <4>2 DEF InPlay, W, Loops, BuysPassed
      <4>. QED
        BY <4>1, <4>2, <4>3, <4>4
    <3>2. HoldsBought => Held.buySignalId # W.buySignalId
      <4>1. HoldsBought => Held.buySignalId.bar \in Int
        BY <1>1, HandNumbers, LoopsAct DEF HoldsBought, Held
      <4>. QED
        BY <2>3, <3>1, <4>1
    <3>3. pc["bought"] \in {"load", "decide"} => HoldsBought
      <4>1. InHand("bought", pc["bought"], Held)
        BY <1>1, LoopsAct DEF Typed, Copies, Held
      <4>. QED
        BY <4>1 DEF InHand, HoldsBought, InPlay, Held, Loops
    <3>4. LinesApart'
      BY <2>1, <2>2, <2>3, <3>1, <3>2, <3>3 DEF LinesApart
    <3>5. BuysPassed'
      <4>1. \A k \in Loops : InPlay(k)' => InPlay(k) /\ copy'[k] = copy[k]
        BY <2>1, <3>1 DEF Loops, W, Held
      <4>. QED
        BY <1>1, <2>1, <2>2, <3>1, <4>1, LoopsAct DEF BuysPassed, W, InFlight
    <3>6. SellsPassed'
      <4>1. \A s \in sentSells \ emitted : Passed(stored', s)
        <5>1. \A s \in sentSells \ emitted : s.buy.bar < W.buySignalId.bar /\ s.buy.bar \in Int
                                             /\ s.buy.bar <= W.lastDecisionBar
          BY <1>1, <2>1, <3>1, SentNumbers DEF SellsPassed
        <5>. QED
          BY <2>2, <3>1, <5>1 DEF Passed
      <4>. QED
        BY <1>1, <2>1, <3>1, <4>1 DEF SellsPassed
    <3>. QED
      BY <1>3, <3>4, <3>5, <3>6 DEF SentOnceInv
  <2>. QED
    <3>1. pc["watching"] # "sync_save"
      BY <1>4, <1>6 DEF InHand
    <3>. QED
      BY <1>6, <2>4, <2>5, <3>1
<1>7. CASE l = "bought"
  <2>1. /\ W' = W /\ pc'["watching"] = pc["watching"]
        /\ (InPlay("watching")' <=> InPlay("watching")) /\ InPlay("bought")
        /\ (Breaking' <=> Breaking) /\ (InFlight' <=> InFlight)
        /\ (InPlay("bought")' => Held' = Held /\ pc["bought"] # "save")
        /\ (HoldsBought' => HoldsBought)
        /\ (Held.status = "bought" => HoldsBought)
    BY <1>7, LoopsAct DEF Held, W, InPlay, HoldsBought, Breaking, InFlight
  <2>2. /\ stored'.status = Held.status /\ stored'.buySignalId = Held.buySignalId
        /\ stored'.lastDecisionBar = Held.lastDecisionBar
        /\ pc'["bought"] \notin {"load", "decide", "emit"}
        /\ pc'["bought"] \in {"emit_save", "publish"} => pc["bought"] = "emit_save" /\ Held' = Held
    BY <1>2, <1>7 DEF Held
  <2>3. HoldsBought => Held.buySignalId.bar <= Held.lastDecisionBar
    BY <1>1, HandNumbers, LoopsAct DEF HoldsBought, Held
  <2>4. LinesApart'
    <3>1. HoldsBought' => Held' = Held /\ Held.status = "bought"
      BY <2>1 DEF HoldsBought
    <3>. QED
      BY <1>1, <2>1, <2>2, <2>3, <3>1 DEF LinesApart
  <2>5. BuysPassed'
    <3>1. \A k \in Loops : InPlay(k)' => InPlay(k) /\ copy'[k] = copy[k]
      BY <2>1 DEF Loops, W, Held
    <3>. QED
      BY <1>1, <2>1, <2>2, <3>1, LoopsAct DEF BuysPassed, Held
  <2>6. SellsPassed'
    <3>1. \A s \in sentSells \ emitted : Passed(stored', s)
      BY <1>1, <1>5, <1>7, <2>1 DEF SellsPassed, Held
    <3>. QED
      BY <1>1, <2>1, <2>2, <3>1 DEF SellsPassed
  <2>. QED
    BY <1>3, <2>4, <2>5, <2>6 DEF SentOnceInv
<1>. QED
  BY <1>6, <1>7 DEF Loops

\* No actor works with a bar that could change under it.
LEMMA SaveSent ==
  ASSUME SentOnceInv, Prompt, Typed', NEW a \in Actors,
         \/ SaveAndReturn(a) \/ SaveStopped(a)
         \/ a \in Loops /\ SaveEmitting(a)
         \/ a = "bought" /\ SaveSynced
  PROVE  SentOnceInv'
<1>1. /\ LinesApart /\ BuysPassed /\ SellsPassed /\ Typed /\ Fresh /\ Requested
  BY DEF SentOnceInv
<1>2. PICK from, to :
        /\ Save(a, from, to)
        /\ \/ from = "save" /\ to = "idle"
           \/ from = "stop_save" /\ to = "stop_remove"
           \/ from = "emit_save" /\ to = "publish" /\ a \in Loops
           \/ from = "sync_save" /\ to = "exit" /\ a = "bought"
  BY DEF SaveAndReturn, SaveStopped, SaveEmitting, SaveSynced
<1>3. /\ pc[a] = from /\ UNCHANGED <<loadedBar, bar, sentBuys, sentSells>>
  BY <1>2 DEF Save, history
<1>4. InHand(a, from, copy[a])
  BY <1>1, <1>3 DEF Typed, Copies
<1>5. WellFormed(copy[a])
  BY <1>2, <1>4 DEF InHand
<1>6. a \notin Loops => from = "stop_save"
  BY <1>1, <1>2, <1>3, LoopsAct DEF Requested
<1>7. CASE /\ stored' = Merged(copy[a])
           /\ IF to = "idle" THEN Return(a) ELSE Continue(a, copy[a], to)
           /\ UNCHANGED <<emitted, faults>>
  <2>1. /\ pc'[a] = to /\ (to # "idle" => copy'[a] = copy[a])
        /\ \A b \in Actors \ {a} : pc'[b] = pc[b] /\ copy'[b] = copy[b]
    BY <1>1, <1>2, <1>7, Others DEF Return
  <2>2. CASE from = "stop_save"
    <3>1. /\ copy[a].status \in {"stopped", "sold"} /\ to = "stop_remove"
          /\ stored'.status = copy[a].status
      BY <1>1, <1>2, <1>4, <1>5, <1>7, <2>2, Merges DEF InHand, Leaving, Typed, TypeOK
    <3>2. ~Monitored' /\ (a \in Loops => Leaves(a))
      BY <2>1, <3>1 DEF Monitored, Leaves, InPlay, Deciding, Emitting, Loops
    <3>3. \A k \in Loops : Stays(k) \/ Leaves(k)
      BY <2>1, <3>2, LoopsAct DEF Stays
    <3>4. Fresh' /\ Requested'
      BY <1>1, <1>3, <2>1, <3>1, LoopsAct DEF Fresh, Requested, Deciding, Loops
    <3>. QED
      BY <1>1, <1>3, <1>7, <3>2, <3>3, <3>4, Withdraws, StoredNumbers
  <2>3. CASE from # "stop_save"
    <3>1. a \in Loops /\ copy[a].status \in Loops
      BY <1>2, <1>4, <1>6, <2>3 DEF InHand, Emitting, Loops
    <3>2. InPlay(a)
      BY <1>2, <1>3, <3>1 DEF InPlay
    <3>. QED
      BY <1>1, <1>2, <1>3, <1>5, <1>7, <2>1, <2>3, <3>1, <3>2, LoopSaves
  <2>. QED
    BY <2>2, <2>3
<1>8. CASE /\ Fault("redis")
           /\ Return(a)
           /\ emitted' \in IF from = "emit_save" THEN {emitted, emitted \ {Pending(copy[a])}}
                                                  ELSE {emitted}
           /\ UNCHANGED stored
  <2>1. /\ pc'[a] = "idle" /\ \A b \in Actors \ {a} : pc'[b] = pc[b] /\ copy'[b] = copy[b]
    BY <1>1, <1>8, Others DEF Return
  <2>2. Fresh' /\ Requested' /\ ~(a \in Loops /\ InPlay(a)')
    BY <1>1, <1>3, <2>1, LoopsAct DEF Fresh, Requested, Deciding, InPlay, Loops
  <2>3. \A k \in Loops : (k # a /\ Stays(k)) \/ Leaves(k)
    BY <2>1, <2>2, LoopsAct DEF Stays, Leaves, Deciding, Emitting
  <2>4. CASE emitted' = emitted
    BY <1>1, <1>3, <1>8, <2>2, <2>3, <2>4, Withdraws, StoredNumbers
  <2>5. CASE from = "emit_save" /\ emitted' = emitted \ {Pending(copy[a])}
    <3>1. a \in Loops /\ pc[a] \in Emitting
      BY <1>3, <1>6, <2>5 DEF Emitting
    <3>2. /\ a = "watching" => Pending(copy[a]) = W.buySignalId /\ W.buySignalId \in Buys
          /\ a = "bought" => /\ Pending(copy[a]) = Held.sellSignalId
                             /\ Held.sellSignalId \in Sells
      BY <1>1, <3>1, SendingHand
    <3>3. Pending(copy[a]) \notin sentBuys \cup sentSells
      BY <1>1, <1>3, <2>5, <3>1, <3>2, SidesApart
         DEF BuysPassed, SellsPassed, InFlight, Loops, Typed, TypeOK
    <3>4. Stays("watching") /\ InFlight /\ W.buySignalId \in emitted =>
            W.buySignalId \in emitted'
      <4>1. CASE a = "bought"
        <5>1. InFlight => W.buySignalId \in Buys
          BY <1>1, SendingHand, LoopsAct DEF InFlight, Emitting
        <5>. QED
          BY <2>5, <3>2, <4>1, <5>1, SidesApart
      <4>2. CASE a = "watching"
        BY <1>3, <2>1, <2>5, <4>2 DEF Stays
      <4>. QED
        BY <3>1, <4>1, <4>2 DEF Loops
    <3>5. Stays("bought") /\ pc["bought"] \in {"emit_save", "publish"}
            /\ Held.sellSignalId \in emitted => Held.sellSignalId \in emitted'
      <4>1. CASE a = "watching"
        <5>1. pc["bought"] \in {"emit_save", "publish"} => Held.sellSignalId \in Sells
          BY <1>1, SendingHand, LoopsAct DEF Emitting
        <5>. QED
          BY <2>5, <3>2, <4>1, <5>1, SidesApart
      <4>2. CASE a = "bought"
        BY <1>3, <2>1, <2>5, <4>2 DEF Stays
      <4>. QED
        BY <3>1, <4>1, <4>2 DEF Loops
    <3>6. \A s \in sentBuys \cup sentSells : s \in emitted => s \in emitted'
      BY <2>5, <3>3
    <3>. QED
      BY <1>1, <1>3, <1>8, <2>2, <2>3, <3>4, <3>5, <3>6, Withdraws, StoredNumbers
  <2>. QED
    BY <1>8, <2>4, <2>5
<1>. QED
  BY <1>2, <1>7, <1>8 DEF Save

\* The other steps change nothing that counts here, or take a state out of play.
LEMMA OthersSent ==
  ASSUME SentOnceInv, Prompt, Typed',
         \/ \E a \in Actors : RemoveActive(a) \/ StopBlacklisted(a)
         \/ Request \/ TradeStep \/ ClosePosition \/ NewBar \/ Restart \/ UNCHANGED vars
         \/ \E signal \in {Pending(stored)} \ {None} : AckTimeout(signal)
  PROVE  SentOnceInv'
<1>1. /\ LinesApart /\ BuysPassed /\ SellsPassed /\ Typed /\ Fresh /\ Requested
  BY DEF SentOnceInv
<1>2. CASE UNCHANGED <<stored, emitted, pc, copy, loadedBar, bar, sentBuys, sentSells>>
  <2>1. Fresh' /\ Requested' /\ \A k \in Loops : Stays(k)
    BY <1>1, <1>2 DEF Fresh, Requested, Stays
  <2>. QED
    BY <1>1, <1>2, <2>1, Withdraws, StoredNumbers
<1>3. CASE \/ TradeStep \/ ClosePosition \/ UNCHANGED vars
           \/ \E signal \in {Pending(stored)} \ {None} : AckTimeout(signal)
  <2>1. UNCHANGED <<stored, emitted, pc, copy, loadedBar, bar, sentBuys, sentSells>>
    BY <1>3 DEF TradeStep, ClosePosition, Consume, ExecuteBuy, ExecuteSell, SkipSignal, Answer,
       WriteRow, TradeFrame, AckTimeout, vars, candidate, actors, history
  <2>. QED
    BY <1>2, <2>1
<1>4. CASE NewBar
  <2>1. /\ UNCHANGED <<stored, emitted, pc, copy, loadedBar, sentBuys, sentSells>>
        /\ bar' = bar + 1 /\ \A k \in Loops : pc[k] \notin Deciding
    BY <1>4, LoopsAct DEF NewBar, TimePasses, Prompt, Deciding, candidate, actors, history
  <2>2. Fresh' /\ Requested' /\ \A k \in Loops : Stays(k)
    BY <1>1, <2>1 DEF Fresh, Requested, Stays, Deciding
  <2>. QED
    BY <1>1, <2>1, <2>2, Withdraws, StoredNumbers
<1>5. CASE Restart
  <2>1. /\ UNCHANGED <<stored, emitted, loadedBar, bar, sentBuys, sentSells>>
        /\ \A a \in Actors : pc'[a] = "idle"
    BY <1>5 DEF Restart, candidate, history
  <2>2. Fresh' /\ Requested' /\ \A k \in Loops : Leaves(k)
    BY <2>1, LoopsAct DEF Fresh, Requested, Leaves, InPlay, Deciding, Emitting
  <2>. QED
    BY <1>1, <2>1, <2>2, Withdraws, StoredNumbers
<1>6. ASSUME NEW a \in Actors, pc'[a] \in {"idle", "stop_save"},
             pc'[a] = "stop_save" => copy'[a].status = "stopped",
             \A b \in Actors \ {a} : pc'[b] = pc[b] /\ copy'[b] = copy[b],
             UNCHANGED <<stored, emitted, loadedBar, bar, sentBuys, sentSells>>
      PROVE  SentOnceInv'
  <2>1. /\ Fresh' /\ Requested' /\ (a \in Loops => Leaves(a))
        /\ \A k \in Loops \ {a} : Stays(k)
    BY <1>1, <1>6, LoopsAct
       DEF Fresh, Requested, Leaves, Stays, InPlay, Deciding, Emitting, Loops
  <2>2. \A k \in Loops : Stays(k) \/ Leaves(k)
    BY <2>1
  <2>3. /\ Stays("watching") /\ InFlight /\ W.buySignalId \in emitted =>
             W.buySignalId \in emitted'
        /\ Stays("bought") /\ pc["bought"] \in {"emit_save", "publish"}
             /\ Held.sellSignalId \in emitted => Held.sellSignalId \in emitted'
    BY <1>6
  <2>. QED
    BY <1>1, <1>6, <2>1, <2>2, <2>3, Withdraws, StoredNumbers
<1>7. \A status : Stopped(stored, status).status = status
  BY <1>1 DEF Stopped, Typed, TypeOK, State
<1>8. ASSUME NEW a \in Actors, RemoveActive(a) PROVE SentOnceInv'
  <2>1. UNCHANGED <<stored, emitted, loadedBar, bar, sentBuys, sentSells>>
    BY <1>8 DEF RemoveActive, history
  <2>2. pc'[a] = "idle" /\ \A b \in Actors \ {a} : pc'[b] = pc[b] /\ copy'[b] = copy[b]
    BY <1>1, <1>8, Others DEF RemoveActive, Return
  <2>. QED
    BY <1>6, <2>1, <2>2
<1>9. ASSUME NEW a \in Actors, StopBlacklisted(a) PROVE SentOnceInv'
  <2>1. UNCHANGED <<stored, emitted, loadedBar, bar, sentBuys, sentSells>>
    BY <1>9 DEF StopBlacklisted, candidate, history
  <2>2. /\ \/ pc'[a] = "idle"
           \/ pc'[a] = "stop_save" /\ copy'[a] = Stopped(stored, "stopped")
        /\ \A b \in Actors \ {a} : pc'[b] = pc[b] /\ copy'[b] = copy[b]
    <3>1. CASE active
      <4>1. Copy(a, Stopped(stored, "stopped")) /\ Go(a, "stop_save")
        BY <1>9, <3>1 DEF StopBlacklisted
      <4>. QED
        BY <1>1, <4>1, Others
    <3>2. CASE ~active
      <4>1. Copy(a, None) /\ Go(a, "idle")
        BY <1>9, <3>2 DEF StopBlacklisted, Return
      <4>2. pc'[a] = "idle" /\ \A b \in Actors \ {a} : pc'[b] = pc[b] /\ copy'[b] = copy[b]
        BY <1>1, <4>1, Others
      <4>. QED
        BY <4>2
    <3>. QED
      BY <3>1, <3>2
  <2>. QED
    BY <1>6, <1>7, <2>1, <2>2
<1>10. CASE DeleteCandidate
  <2>1. "delete" \in Actors /\ UNCHANGED <<stored, emitted, loadedBar, bar, sentBuys, sentSells>>
    BY <1>10 DEF DeleteCandidate, RequestFrame, candidate, history, Actors
  <2>2. /\ pc'["delete"] = "stop_save" /\ copy'["delete"] = Stopped(stored, "stopped")
        /\ \A b \in Actors \ {"delete"} : pc'[b] = pc[b] /\ copy'[b] = copy[b]
    BY <1>1, <1>10, <2>1, Others DEF DeleteCandidate
  <2>. QED
    BY <1>6, <1>7, <2>1, <2>2
<1>11. CASE TrimCandidate
  <2>1. "trim" \in Actors /\ UNCHANGED <<stored, emitted, loadedBar, bar, sentBuys, sentSells>>
    BY <1>11 DEF TrimCandidate, RequestFrame, candidate, history, Actors
  <2>2. /\ pc'["trim"] = "stop_save" /\ copy'["trim"] = Stopped(stored, "stopped")
        /\ \A b \in Actors \ {"trim"} : pc'[b] = pc[b] /\ copy'[b] = copy[b]
    BY <1>1, <1>11, <2>1, Others DEF TrimCandidate
  <2>. QED
    BY <1>6, <1>7, <2>1, <2>2
<1>12. CASE BlacklistCandidate
  <2>1. /\ "blacklist" \in Actors /\ "blacklist" \notin Loops
        /\ UNCHANGED <<stored, emitted, copy, loadedBar, bar, sentBuys, sentSells>>
        /\ pc' = [pc EXCEPT !["blacklist"] = "blacklisted"]
    BY <1>12 DEF BlacklistCandidate, RequestFrame, candidate, history, Actors, Go, Loops
  <2>2. \A k \in Loops : Stays(k)
    BY <1>1, <2>1, LoopsAct DEF Stays, Typed, TypeOK
  <2>3. Fresh' /\ Requested'
    BY <1>1, <2>1, <2>2, LoopsAct DEF Fresh, Requested, Stays, Typed, TypeOK
  <2>. QED
    BY <1>1, <2>1, <2>2, <2>3, Withdraws, StoredNumbers
<1>13. ~UpdateSymbol
  BY DEF UpdateSymbol, Prompt
<1>. QED
  BY <1>3, <1>4, <1>5, <1>8, <1>9, <1>10, <1>11, <1>12, <1>13 DEF Request

LEMMA SentOnceNext == Prompt /\ SentOnceInv /\ [Next]_vars => SentOnceInv'
<1> SUFFICES ASSUME Prompt, SentOnceInv, [Next]_vars PROVE SentOnceInv'
  OBVIOUS
<1>1. Typed'
  BY TypedNext DEF SentOnceInv
<1>2. ASSUME NEW l \in Loops, LoopStep(l) PROVE SentOnceInv'
  BY <1>1, <1>2, PollSent, LoadSent, AcquireSent, SaveSent, PublishSent, PublishFailsSent,
     LoopsAct DEF LoopStep
<1>3. CASE WatchingDecision
  BY <1>1, <1>3, WatchingSent
<1>4. CASE BoughtDecision
  BY <1>1, <1>4, BoughtSent, SaveSent, LoopsAct
<1>5. ASSUME NEW a \in Actors, WriterStep(a) PROVE SentOnceInv'
  BY <1>1, <1>5, SaveSent, OthersSent DEF WriterStep
<1>6. CASE \/ Request \/ TradeStep \/ ClosePosition \/ NewBar \/ Restart \/ UNCHANGED vars
           \/ \E signal \in {Pending(stored)} \ {None} : AckTimeout(signal)
  BY <1>1, <1>6, OthersSent
<1>. QED
  BY <1>2, <1>3, <1>4, <1>5, <1>6 DEF Next

\* The monitor sends no signal twice: whatever failures of Redis, of the feed, of
\* the publication or of the trade side, whatever message is lost or timeout
\* passes early, however often it restarts, and whoever deletes, trims, closes or
\* blacklists the candidate meanwhile.
THEOREM SignalsSentOnce == Prompt => (Spec => EachSignalSentOnce)
<1> SUFFICES ASSUME Prompt PROVE Spec => EachSignalSentOnce
  OBVIOUS
<1>1. Init => SentOnceInv
  BY SentOnceInit
<1>2. SentOnceInv /\ [Next]_vars => SentOnceInv'
  BY SentOnceNext
<1>3. SentOnceInv /\ [Next]_vars =>
        [\A l \in Loops : Publish(l) => Pending(copy[l]) \notin sentBuys \cup sentSells]_vars
  BY TypedNext, PublishSent DEF SentOnceInv
<1>. QED
  BY <1>1, <1>2, <1>3, PTL DEF Spec, EachSignalSentOnce

-----------------------------------------------------------------------------
(* An open position is under watch, and its exit is the last bar of its line. *)

Steady ==
  Faults \subseteq {"redis", "loss", "trade", "feed"} /\ Requests \subseteq {"close"}

\* A signal is about to be published, in the channel, or being processed.
Coming(s) ==
  \/ pc["watching"] = "publish" /\ W.buySignalId = s
  \/ consuming = s
  \/ \E i \in DOMAIN channel : channel[i] = s

Answered(s, status) ==
  Finish(s, status) \in tasks \/ (s \in DOMAIN rows /\ rows[s] = status)

Busy(l) == pc[l] \notin {"idle", "stop_remove"}

\* Who may be at work, by what is stored.
Lanes ==
  /\ ~blacklisted
  /\ \A l \in Loops : pc[l] # "blacklisted"
  /\ Monitored => active
  /\ \A l \in Loops : pc[l] = "stop_remove" => ~Monitored
  /\ Busy("watching") /\ pc["watching"] # "publish" => stored.status = "watching"
  /\ Busy("bought") => stored.status = "bought"
  /\ Busy("bought") /\ Held.status = "bought" => Held.buySignalId = stored.buySignalId
  /\ pc["watching"] = "publish" =>
       /\ stored.status = "bought" /\ stored.buySignalId = W.buySignalId
       /\ stored.sellSignalId = None
       /\ pc["bought"] \in {"idle", "load", "decide", "save"}
       /\ pc["bought"] # "idle" => Held.status = "bought" /\ Held.sellSignalId = None

\* What is on its way was sent, and a buy that is overdue is lost.
Waits ==
  /\ \A i \in DOMAIN channel : channel[i] \in sentBuys \cup sentSells
  /\ consuming # None => consuming \in sentBuys \cup sentSells
  /\ \A s \in Signals, status \in {"executed"} \cup Refused :
       Answered(s, status) => s \in sentBuys \cup sentSells
  /\ Monitored => overdue \cap Buys \subseteq sentBuys
  /\ runtime # None => runtime \in sentBuys
  /\ stored.status = "bought" /\ pc["watching"] # "publish" => stored.buySignalId \in sentBuys
  /\ \A s \in overdue \cap Buys : s \notin DOMAIN rows =>
       ~Coming(s) /\ [op |-> "insert", signal |-> s] \notin tasks

\* A buy comes once, and is answered after that.
ComesOnce ==
  /\ \A i, j \in DOMAIN channel : channel[i] = channel[j] /\ channel[i] \in Buys => i = j
  /\ \A i \in DOMAIN channel : channel[i] \in Buys => consuming # channel[i]
  /\ \A s \in Buys : Coming(s) =>
       /\ runtime # s
       /\ \A status \in {"executed"} \cup Refused : ~Answered(s, status)
  /\ \A s \in Buys, status \in Refused : Answered(s, status) => runtime # s
  /\ \A t \in sentSells : ~Coming(t.buy) /\ t.buy \in sentBuys
  /\ \A t \in sentSells : Answered(t, "executed") => runtime # t.buy
  /\ stored.status = "bought" /\ stored.sellSignalId # None => ~Coming(stored.buySignalId)
  /\ pc["bought"] \in {"sync_save", "exit", "emit", "emit_save", "publish"} =>
       ~Coming(Held.buySignalId)
  /\ Busy("bought") /\ Held.status = "bought" /\ Held.sellSignalId # None =>
       ~Coming(Held.buySignalId)

\* The position, and the buy on its way, are those of the stored state.
Owned ==
  /\ \A s \in Buys : Coming(s) \/ runtime = s =>
       stored.status = "bought" /\ stored.buySignalId = s
  /\ Busy("bought") /\ Held.status # "bought" => runtime = None /\ \A s \in Buys : ~Coming(s)

\* No sell was published at a later poll than the last exit.
ExitsPassed ==
  /\ \A t \in exitBars :
       /\ t <= bar
       /\ Monitored => t <= stored.lastExitBar
       /\ \A l \in Loops : InPlay(l) => t <= copy[l].lastExitBar
       /\ pc["watching"] \in Emitting => t < W.buySignalId.bar
  /\ pc["bought"] \in Emitting =>
       Held.lastExitBar = bar
  /\ pc["bought"] = "publish" => Held.lastExitBar <= stored.lastExitBar

ExitInv == SentOnceInv /\ Lanes /\ Waits /\ ComesOnce /\ Owned /\ ExitsPassed

LEMMA SteadyActors == Steady => Actors = Loops /\ Prompt
BY DEF Steady, Actors, Prompt

\* Nothing is on its way, and nobody works with a position that is not there.
LEMMA ExitInit == Steady /\ Init => ExitInv
<1> SUFFICES ASSUME Steady, Init PROVE ExitInv
  OBVIOUS
<1>1. SentOnceInv
  BY SentOnceInit, SteadyActors
<1>2. /\ \A l \in Loops : pc[l] = "idle" /\ ~InPlay(l) /\ ~Busy(l)
      /\ pc["watching"] = "idle" /\ pc["bought"] = "idle"
  BY LoopsAct DEF Init, InPlay, Busy
<1>3. stored.status = "watching" /\ tasks = {} /\ DOMAIN rows = {} /\ runtime = None
  BY DEF Init, NewCandidate
<1>4. \A s \in Signals : ~Coming(s)
  BY <1>2, NoneAssumption DEF Init, Coming
<1>5. Buys \subseteq Signals /\ \A s \in Buys : s # None /\ s \in Signals
  BY SidesApart DEF Signals
<1>6. \A s, status : ~Answered(s, status)
  BY <1>3 DEF Answered
<1>7. Lanes
  BY <1>2, <1>3, LoopsAct DEF Lanes, Init
<1>8. Waits
  BY <1>2, <1>3, <1>4, <1>6 DEF Waits, Init
<1>9. ComesOnce
  BY <1>2, <1>3, <1>4, <1>5, <1>6, LoopsAct DEF ComesOnce, Init, Busy
<1>10. Owned
  BY <1>2, <1>3, <1>4, <1>5, LoopsAct DEF Owned
<1>11. ExitsPassed
  BY <1>2, LoopsAct DEF ExitsPassed, Init, Emitting
<1>. QED
  BY <1>1, <1>7, <1>8, <1>9, <1>10, <1>11 DEF ExitInv

\* What the steps of the monitor leave to the trade side.
TradeStays ==
  UNCHANGED <<trade, overdue, sentBuys, sentSells, exitBars, bar, blacklisted>>

LEMMA TradeStaysVars ==
  ASSUME TradeStays
  PROVE  /\ channel' = channel /\ consuming' = consuming /\ tasks' = tasks /\ rows' = rows
         /\ runtime' = runtime /\ overdue' = overdue /\ bar' = bar /\ blacklisted' = blacklisted
         /\ sentBuys' = sentBuys /\ sentSells' = sentSells /\ exitBars' = exitBars
         /\ \A s, status : Answered(s, status)' <=> Answered(s, status)
BY DEF TradeStays, trade, Answered

\* The loop l goes on, to a place that is neither a publication nor the end of a
\* stop, with a copy that fits what is stored.
LEMMA MovesExit ==
  ASSUME ExitInv, SentOnceInv', TradeStays, NEW l \in Loops,
         UNCHANGED <<stored, active>>, \A k \in Loops \ {l} : Stays(k),
         pc[l] # "publish", pc'[l] \notin {"publish", "stop_remove", "blacklisted"},
         l = "watching" /\ Busy(l)' => stored.status = "watching",
         l = "bought" /\ Busy(l)' =>
           /\ stored.status = "bought"
           /\ Held'.status = "bought" => Held'.buySignalId = stored.buySignalId
           /\ Held'.status = "bought" /\ Held'.sellSignalId # None => ~Coming(Held'.buySignalId)
           /\ Held'.status # "bought" => runtime = None /\ \A s \in Buys : ~Coming(s)
           /\ pc["watching"] = "publish" =>
                /\ pc'["bought"] \in {"load", "decide", "save"}
                /\ Held'.status = "bought" /\ Held'.sellSignalId = None
           /\ pc'["bought"] \in {"sync_save", "exit", "emit", "emit_save"} =>
                ~Coming(Held'.buySignalId)
           /\ pc'["bought"] \in Emitting =>
                Held'.lastExitBar = bar,
         InPlay(l)' => \A t \in exitBars : t <= copy'[l].lastExitBar,
         l = "watching" /\ pc'[l] \in Emitting => \A t \in exitBars : t < W'.buySignalId.bar
  PROVE  ExitInv'
<1>1. Lanes /\ Waits /\ ComesOnce /\ Owned /\ ExitsPassed
  BY DEF ExitInv
<1>2. /\ pc'["watching"] = "publish" <=> pc["watching"] = "publish"
      /\ pc["watching"] = "publish" => W' = W
      /\ pc'["bought"] = "publish" => pc["bought"] = "publish" /\ Held' = Held
  BY LoopsAct DEF Stays, W, Held
<1>3. \A s : Coming(s)' <=> Coming(s)
  BY <1>2, TradeStaysVars DEF Coming
<1>4. /\ l # "watching" => W' = W /\ pc'["watching"] = pc["watching"]
                           /\ (Busy("watching")' <=> Busy("watching"))
                           /\ (InPlay("watching")' <=> InPlay("watching"))
      /\ l # "bought" => Held' = Held /\ pc'["bought"] = pc["bought"]
                         /\ (Busy("bought")' <=> Busy("bought"))
                         /\ (InPlay("bought")' <=> InPlay("bought"))
  BY LoopsAct DEF Stays, W, Held, Busy, InPlay
<1>5. Monitored' <=> Monitored
  BY DEF Monitored
<1>6. CASE l = "watching"
  <2>1. Lanes'
    <3>1. \A k \in Loops : /\ pc'[k] # "blacklisted"
                           /\ pc'[k] = "stop_remove" => ~Monitored
      BY <1>1 DEF Lanes, Stays
    <3>. QED
      BY <1>1, <1>2, <1>4, <1>5, <1>6, <3>1, TradeStaysVars DEF Lanes
  <2>2. Waits'
    BY <1>1, <1>2, <1>3, <1>5, TradeStaysVars DEF Waits
  <2>3. ComesOnce'
    BY <1>1, <1>3, <1>4, <1>6, TradeStaysVars DEF ComesOnce
  <2>4. Owned'
    BY <1>1, <1>3, <1>4, <1>6, TradeStaysVars DEF Owned
  <2>5. ExitsPassed'
    <3>1. \A k \in Loops : InPlay(k)' => \A t \in exitBars : t <= copy'[k].lastExitBar
      BY <1>1, <1>4, <1>6 DEF ExitsPassed, Loops, Held
    <3>. QED
      BY <1>1, <1>4, <1>5, <1>6, <3>1, TradeStaysVars DEF ExitsPassed
  <2>. QED
    BY <2>1, <2>2, <2>3, <2>4, <2>5 DEF ExitInv
<1>7. CASE l = "bought"
  <2>1. Lanes'
    <3>1. \A k \in Loops : /\ pc'[k] # "blacklisted"
                           /\ pc'[k] = "stop_remove" => ~Monitored
      BY <1>1 DEF Lanes, Stays
    <3>2. pc'["bought"] \in {"idle"} \/ Busy("bought")'
      BY <1>7 DEF Busy
    <3>. QED
      BY <1>1, <1>2, <1>4, <1>5, <1>7, <3>1, <3>2, TradeStaysVars DEF Lanes
  <2>2. Waits'
    BY <1>1, <1>2, <1>3, <1>5, TradeStaysVars DEF Waits
  <2>3. ComesOnce'
    <3>1. pc'["bought"] \in {"sync_save", "exit", "emit", "emit_save", "publish"} =>
            ~Coming(Held'.buySignalId)
      BY <1>1, <1>2, <1>7 DEF ComesOnce, Busy
    <3>2. Busy("bought")' /\ Held'.status = "bought" /\ Held'.sellSignalId # None =>
            ~Coming(Held'.buySignalId)
      BY <1>7
    <3>. QED
      BY <1>1, <1>3, <3>1, <3>2, TradeStaysVars DEF ComesOnce
  <2>4. Owned'
    BY <1>1, <1>3, <1>7, TradeStaysVars DEF Owned
  <2>5. ExitsPassed'
    <3>1. \A k \in Loops : InPlay(k)' => \A t \in exitBars : t <= copy'[k].lastExitBar
      BY <1>1, <1>4, <1>7 DEF ExitsPassed, Loops, W
    <3>2. pc'["bought"] \in Emitting => Busy("bought")'
      BY DEF Emitting, Busy
    <3>. QED
      BY <1>1, <1>2, <1>4, <1>5, <1>7, <3>1, <3>2, TradeStaysVars DEF ExitsPassed
  <2>. QED
    BY <2>1, <2>2, <2>3, <2>4, <2>5 DEF ExitInv
<1>. QED
  BY <1>6, <1>7 DEF Loops

\* A loop that works has the copy that its place says.
LEMMA BusyHand ==
  ASSUME ExitInv, NEW l \in Loops, Busy(l)
  PROVE  /\ InHand(l, pc[l], copy[l]) /\ WellFormed(copy[l]) /\ copy[l] \in State
         /\ pc[l] \in {"load", "decide", "save", "sync_save", "exit", "stop_save"} \cup Emitting
         /\ copy[l].status \in Loops => InPlay(l)
<1>1. Typed /\ Lanes
  BY DEF ExitInv, SentOnceInv
<1>2. InHand(l, pc[l], copy[l]) /\ pc[l] \in PcStates
  BY <1>1, LoopsAct DEF Typed, Copies, TypeOK
<1>3. pc[l] # "blacklisted" /\ pc[l] # "idle" /\ pc[l] # "stop_remove"
  BY <1>1 DEF Lanes, Busy
<1>. QED
  BY <1>2, <1>3 DEF InHand, WellFormed, PcStates, Emitting, InPlay

LEMMA PollExit ==
  ASSUME ExitInv, SentOnceInv', NEW l \in Loops, Poll(l)
  PROVE  ExitInv'
<1>1. /\ Typed /\ Lanes /\ Waits /\ ComesOnce /\ Owned /\ ExitsPassed
  BY DEF ExitInv, SentOnceInv
<1>2. /\ pc'[l] = "load" /\ copy'[l] = stored /\ stored.status = l /\ pc[l] = "idle"
      /\ \A b \in Actors \ {l} : pc'[b] = pc[b] /\ copy'[b] = copy[b]
  BY <1>1, Others, LoopsAct DEF Poll
<1>3. UNCHANGED <<stored, active>> /\ TradeStays /\ \A k \in Loops \ {l} : Stays(k)
  BY <1>2, LoopsAct DEF Poll, candidate, history, TradeStays, Stays
<1>4. \A t \in exitBars : t <= stored.lastExitBar
  BY <1>1, <1>2 DEF ExitsPassed, Monitored
<1>5. l = "watching" => W' = stored
  BY <1>2 DEF W
<1>6. l = "bought" => Held' = stored
  BY <1>2 DEF Held
<1>7. pc["watching"] = "publish" => stored.sellSignalId = None
  BY <1>1 DEF Lanes
<1>8. stored.status = "bought" /\ stored.sellSignalId # None => ~Coming(stored.buySignalId)
  BY <1>1 DEF ComesOnce
<1>. QED
  BY <1>2, <1>3, <1>4, <1>5, <1>6, <1>7, <1>8, MovesExit DEF Emitting

LEMMA LoadExit ==
  ASSUME ExitInv, SentOnceInv', NEW l \in Loops, LoadKlines(l)
  PROVE  ExitInv'
<1>1. /\ Typed /\ Lanes /\ Waits /\ ComesOnce /\ Owned /\ ExitsPassed
  BY DEF ExitInv, SentOnceInv
<1>2. /\ pc[l] = "load"
      /\ \/ pc'[l] = "decide" /\ copy'[l] = copy[l]
         \/ pc'[l] = "idle"
      /\ \A b \in Actors \ {l} : pc'[b] = pc[b] /\ copy'[b] = copy[b]
  BY <1>1, Others, LoopsAct DEF LoadKlines, Return, Lanes
<1>3. UNCHANGED <<stored, active>> /\ TradeStays /\ \A k \in Loops \ {l} : Stays(k)
  BY <1>2, LoopsAct DEF LoadKlines, candidate, history, TradeStays, Stays
<1>4. /\ Busy(l) /\ (Busy(l)' => pc'[l] = "decide")
      /\ (InPlay(l)' => InPlay(l) /\ copy'[l] = copy[l])
  BY <1>2 DEF Busy, InPlay
<1>5. CASE l = "watching"
  BY <1>1, <1>2, <1>3, <1>4, <1>5, MovesExit DEF Emitting, Lanes, ExitsPassed
<1>6. CASE l = "bought"
  <2>1. Busy("bought") /\ (Busy("bought")' => Held' = Held /\ pc'["bought"] = "decide")
    BY <1>2, <1>4, <1>6 DEF Held
  <2>2. InHand("bought", "load", Held)
    BY <1>2, <1>4, <1>6, BusyHand DEF Held
  <2>3. Held.status = "bought"
    BY <2>2 DEF InHand
  <2>4. /\ stored.status = "bought" /\ Held.buySignalId = stored.buySignalId
        /\ pc["watching"] = "publish" => Held.sellSignalId = None
    BY <1>1, <1>2, <1>6, <2>1, <2>3 DEF Lanes
  <2>5. Held.sellSignalId # None => ~Coming(Held.buySignalId)
    BY <1>1, <2>1, <2>3 DEF ComesOnce
  <2>6. InPlay(l)' => \A t \in exitBars : t <= copy'[l].lastExitBar
    BY <1>1, <1>4 DEF ExitsPassed
  <2>. QED
    BY <1>2, <1>3, <1>6, <2>1, <2>3, <2>4, <2>5, <2>6, MovesExit DEF Emitting
<1>. QED
  BY <1>5, <1>6 DEF Loops

\* A breakout is on a bar after the last exit.
LEMMA WatchingExit ==
  ASSUME ExitInv, SentOnceInv', WatchingDecision
  PROVE  ExitInv'
<1>1. /\ Typed /\ Lanes /\ Waits /\ ComesOnce /\ Owned /\ ExitsPassed
  BY DEF ExitInv, SentOnceInv
<1>2. PICK state, label :
        /\ pc["watching"] = "decide" /\ Continue("watching", state, label)
        /\ DecisionFrame
        /\ \/ label = "stop_save" /\ state = Stopped(W, "stopped")
           \/ label = "save" /\ state = W
           \/ /\ label = "save"
              /\ state = [W EXCEPT !.lastDecisionBar = loadedBar["watching"]]
           \/ /\ label = "emit" /\ loadedBar["watching"] > W.lastExitBar
              /\ state = [W EXCEPT !.status = "bought",
                             !.lastDecisionBar = loadedBar["watching"],
                             !.buySignalId = [side |-> "buy", bar |-> loadedBar["watching"]]]
  BY DEF WatchingDecision, WatchingTooLow, WatchingStays, WatchingBreaksOut, W
<1>3. /\ pc'["watching"] = label /\ copy'["watching"] = state
      /\ \A b \in Actors \ {"watching"} : pc'[b] = pc[b] /\ copy'[b] = copy[b]
  BY <1>1, <1>2, Others, LoopsAct
<1>4. /\ UNCHANGED <<stored, active>> /\ TradeStays
      /\ \A k \in Loops \ {"watching"} : Stays(k)
  BY <1>2, <1>3, LoopsAct DEF DecisionFrame, candidate, history, TradeStays, Stays
<1>5. Busy("watching") /\ stored.status = "watching" /\ W \in State /\ W.status = "watching"
  <2>1. Busy("watching") /\ InHand("watching", "decide", W) /\ W \in State
    BY <1>2, BusyHand, LoopsAct DEF Busy, W
  <2>. QED
    BY <1>1, <1>2, <2>1 DEF Lanes, InHand
<1>6. /\ state.lastExitBar = W.lastExitBar
      /\ label = "emit" => state.buySignalId.bar = loadedBar["watching"]
  <2>1. CASE state = [W EXCEPT !.status = "bought", !.lastDecisionBar = loadedBar["watching"],
                             !.buySignalId = [side |-> "buy", bar |-> loadedBar["watching"]]]
    BY <1>5, <2>1 DEF State
  <2>2. CASE label # "emit" /\ state \in {W, Stopped(W, "stopped"),
                                   [W EXCEPT !.lastDecisionBar = loadedBar["watching"]]}
    BY <1>5, <2>2 DEF State, Stopped
  <2>. QED
    BY <1>2, <2>1, <2>2
<1>7. \A t \in exitBars : t <= W.lastExitBar /\ t \in Int
  <2>1. InPlay("watching")
    BY <1>2, <1>5 DEF InPlay, W, Loops
  <2>. QED
    BY <1>1, <2>1, SidesApart, LoopsAct DEF ExitsPassed, W, Typed, TypeOK, Bars
<1>8. label = "emit" => \A t \in exitBars : t < state.buySignalId.bar
  <2>1. label = "emit" => loadedBar["watching"] > W.lastExitBar
    BY <1>2
  <2>2. W.lastExitBar \in Int /\ loadedBar["watching"] \in Int
    BY <1>1, <1>5, LoopsAct DEF State, Typed, TypeOK
  <2>. QED
    BY <1>6, <1>7, <2>1, <2>2
<1>9. W' = state
  BY <1>3 DEF W
<1>. QED
  BY <1>2, <1>3, <1>4, <1>5, <1>6, <1>7, <1>8, <1>9, MovesExit, LoopsAct DEF Emitting

LEMMA AcquireExit ==
  ASSUME ExitInv, SentOnceInv', NEW l \in Loops, AcquireEmission(l)
  PROVE  ExitInv'
<1>1. /\ Typed /\ Lanes /\ Waits /\ ComesOnce /\ Owned /\ ExitsPassed
  BY DEF ExitInv, SentOnceInv
<1>2. /\ pc[l] = "emit" /\ DecisionFrame
      /\ pc'[l] = "idle" \/ (pc'[l] = "emit_save" /\ copy'[l] = copy[l])
      /\ \A b \in Actors \ {l} : pc'[b] = pc[b] /\ copy'[b] = copy[b]
  BY <1>1, Others, LoopsAct DEF AcquireEmission, Return
<1>3. UNCHANGED <<stored, active>> /\ TradeStays /\ \A k \in Loops \ {l} : Stays(k)
  BY <1>2, LoopsAct DEF DecisionFrame, candidate, history, TradeStays, Stays
<1>4. /\ Busy(l) /\ pc[l] \in Emitting /\ (Busy(l)' => pc'[l] = "emit_save")
      /\ (InPlay(l)' => InPlay(l) /\ copy'[l] = copy[l])
  BY <1>2 DEF Busy, InPlay, Emitting
<1>5. CASE l = "watching"
  <2>1. pc'[l] \in Emitting => W' = W
    BY <1>2, <1>5 DEF Emitting, W
  <2>. QED
    BY <1>1, <1>2, <1>3, <1>4, <1>5, <2>1, MovesExit DEF Emitting, Lanes, ExitsPassed
<1>6. CASE l = "bought"
  <2>1. Busy("bought") /\ (Busy("bought")' => Held' = Held /\ pc'["bought"] = "emit_save")
    BY <1>2, <1>4, <1>6 DEF Held
  <2>2. Held.status = "bought"
    BY <1>1, <1>4, <1>6, SendingHand DEF Held
  <2>3. /\ stored.status = "bought" /\ Held.buySignalId = stored.buySignalId
        /\ pc["watching"] # "publish"
    BY <1>1, <1>2, <1>6, <2>1, <2>2 DEF Lanes
  <2>4. ~Coming(Held.buySignalId)
    BY <1>1, <1>2, <1>6 DEF ComesOnce
  <2>5. /\ InPlay(l)' => \A t \in exitBars : t <= copy'[l].lastExitBar
        /\ Held.lastExitBar = bar
    BY <1>1, <1>4, <1>6 DEF ExitsPassed
  <2>. QED
    BY <1>2, <1>3, <1>6, <2>1, <2>2, <2>3, <2>4, <2>5, MovesExit DEF Emitting
<1>. QED
  BY <1>5, <1>6 DEF Loops

\* Why the bought loop goes on to look for an exit, or ends: what it has read.
EntryRead ==
  /\ Held.sellSignalId = None
  /\ runtime # None \/ Answered(Held.buySignalId, "executed")

EndRead ==
  \/ Held.sellSignalId # None /\ Answered(Held.sellSignalId, "executed")
  \/ /\ Held.sellSignalId = None
     /\ \/ \E status \in Refused : Answered(Held.buySignalId, status)
        \/ /\ runtime = None
           /\ \/ Answered(Held.buySignalId, "executed")
              \/ /\ Held.buySignalId \in overdue
                 /\ Held.buySignalId \notin DOMAIN rows

LEMMA BoughtGrounds ==
  ASSUME Typed, BoughtDecision, ~SaveSynced
  PROVE  /\ pc["bought"] \in {"decide", "exit"} /\ DecisionFrame
         /\ \E state, label :
              /\ Continue("bought", state, label) /\ Outcome(state, label)
              /\ pc["bought"] = "decide" /\ label \in {"sync_save", "exit"} => EntryRead
              /\ state.status # "bought" => EndRead
<1>1. pc["bought"] \in {"decide", "exit"} /\ DecisionFrame
  BY BoughtDecides
<1>2. /\ Held \in State /\ Held.status = "bought"
      /\ (pc["bought"] = "exit" => Held.sellSignalId = None)
      /\ WellFormed(Held)
  BY <1>1, HeldIsBought DEF WellFormed
<1>3. Held.sellSignalId # None => Retried(Held).status = "bought"
  BY <1>2, Retries
<1>4. CASE SellMissing \/ SellRefused
  <2>1. \E state, label : /\ Continue("bought", state, label) /\ Outcome(state, label)
                          /\ label = "save" /\ state.status = "bought"
    <3>1. CASE SellMissing
      BY <1>2, <1>3, <3>1 DEF SellMissing, Outcome, Keeps, GivesUpSell, Held
    <3>2. CASE SellRefused
      <4>1. Held.sellSignalId # None
        BY <3>2, NoneAssumption DEF SellRefused, Held, Typed, TypeOK
      <4>. QED
        BY <1>3, <3>2, <4>1 DEF SellRefused, Outcome, GivesUpSell, Held
    <3>. QED
      BY <1>4, <3>1, <3>2
  <2>. QED
    BY <1>1, <2>1
<1>5. CASE SignalAccepted \/ Hold
  BY <1>1, <1>2, <1>5 DEF SignalAccepted, Hold, Outcome, Keeps, Held
<1>6. CASE SellExecuted
  <2>1. Held.sellSignalId # None /\ Answered(Held.sellSignalId, "executed")
    BY <1>6, NoneAssumption DEF SellExecuted, Held, Typed, TypeOK, Answered
  <2>2. EndRead
    BY <2>1 DEF EndRead
  <2>3. \E state, label : /\ Continue("bought", state, label) /\ Outcome(state, label)
                          /\ label \in {"save", "stop_save"}
    BY <1>6, <2>1 DEF SellExecuted, Outcome, Keeps, Ends, Held, Answered
  <2>. QED
    BY <1>1, <2>2, <2>3
<1>7. CASE BuyMissing
  <2>1. CASE runtime # None
    BY <1>1, <1>2, <1>7, <2>1 DEF BuyMissing, Outcome, Keeps, Held, EntryRead
  <2>2. CASE runtime = None /\ Held.buySignalId \in overdue
    <3>1. EndRead
      BY <1>7, <2>2 DEF EndRead, BuyMissing, Held
    <3>2. \E state, label : /\ Continue("bought", state, label) /\ Outcome(state, label)
                            /\ label \in {"save", "stop_save"}
      BY <1>7, <2>2 DEF BuyMissing, RearmInactive, Outcome, GivesUpBuy, Held
    <3>. QED
      BY <1>1, <3>1, <3>2
  <2>3. CASE runtime = None /\ Held.buySignalId \notin overdue
    BY <1>1, <1>2, <1>7, <2>3 DEF BuyMissing, Outcome, Keeps, Held
  <2>. QED
    BY <2>1, <2>2, <2>3
<1>8. CASE BuyRefused
  <2>1. EndRead
    BY <1>8 DEF EndRead, BuyRefused, Held, Answered
  <2>2. \E state, label : /\ Continue("bought", state, label) /\ Outcome(state, label)
                          /\ label = "save"
    BY <1>8 DEF BuyRefused, Outcome, Ends, Held
  <2>. QED
    BY <1>1, <2>1, <2>2
<1>9. CASE BuyExecuted
  <2>1. EntryRead
    BY <1>9 DEF BuyExecuted, EntryRead, Held, Answered
  <2>2. CASE Held.buySignalId \in openRows \/ runtime # None
    BY <1>1, <1>2, <1>9, <2>1, <2>2 DEF BuyExecuted, Outcome, Keeps, Held
  <2>3. CASE ~(Held.buySignalId \in openRows \/ runtime # None)
    <3>1. EndRead
      BY <1>9, <2>3 DEF EndRead, BuyExecuted, Held, Answered
    <3>2. \E state, label : /\ Continue("bought", state, label) /\ Outcome(state, label)
                            /\ label \in {"save", "stop_save"}
      BY <1>9, <2>3 DEF BuyExecuted, RearmInactive, Outcome, GivesUpBuy, Held
    <3>. QED
      BY <1>1, <3>1, <3>2
  <2>. QED
    BY <2>2, <2>3
<1>10. CASE TriggerExit
  <2>1. \E state, label : /\ Continue("bought", state, label) /\ Outcome(state, label)
                          /\ label = "emit" /\ state.status = Held.status
    <3> DEFINE next == [Held EXCEPT !.sellSignalId = NewSell,
                                    !.lastDecisionBar = loadedBar["bought"],
                                    !.lastExitBar = loadedBar["bought"]]
    <3>1. next.status = Held.status
      BY <1>2 DEF State
    <3>2. Continue("bought", next, "emit") /\ SellsIt(next, "emit")
      BY <1>10 DEF TriggerExit, SellsIt, NewSell, Held
    <3> HIDE DEF next
    <3>. QED
      BY <3>1, <3>2 DEF Outcome
  <2>. QED
    BY <1>1, <1>2, <2>1
<1>. QED
  BY <1>4, <1>5, <1>6, <1>7, <1>8, <1>9, <1>10 DEF BoughtDecision

\* What the bought loop reads is true of the whole trade side: after an end there is
\* no position and no buy on its way, after an entry the buy has come.
LEMMA ReadsTrue ==
  ASSUME ExitInv, pc["bought"] \in {"decide", "exit"}
  PROVE  /\ EndRead => /\ runtime = None /\ \A s \in Buys : ~Coming(s)
                       /\ pc["watching"] # "publish"
         /\ EntryRead => ~Coming(Held.buySignalId) /\ pc["watching"] # "publish"
<1>1. /\ Typed /\ Lanes /\ Waits /\ ComesOnce /\ Owned /\ BuysPassed
  BY DEF ExitInv, SentOnceInv
<1>2. /\ WellFormed(Held) /\ Held.status = "bought" /\ Held.buySignalId \in Buys
      /\ Busy("bought") /\ Held.buySignalId = stored.buySignalId /\ stored.status = "bought"
      /\ Held \in State
  BY <1>1, HeldIsBought DEF Lanes, Busy, WellFormed
<1>3. Held.sellSignalId # None => Held.sellSignalId.buy = Held.buySignalId /\ Held.sellSignalId \in Sells
  BY <1>2, StateFields DEF WellFormed
<1>4. runtime # None => runtime = Held.buySignalId
  BY <1>1, <1>2 DEF Owned, Typed, TypeOK
<1>5. pc["watching"] = "publish" =>
        /\ Held.buySignalId \notin sentBuys /\ Held.sellSignalId = None /\ runtime = None
        /\ \A status \in {"executed"} \cup Refused : ~Answered(Held.buySignalId, status)
        /\ Held.buySignalId \notin overdue
  <2> SUFFICES ASSUME pc["watching"] = "publish"
               PROVE  /\ Held.buySignalId \notin sentBuys /\ Held.sellSignalId = None
                      /\ runtime = None /\ Held.buySignalId \notin overdue
                      /\ \A status \in {"executed"} \cup Refused :
                           ~Answered(Held.buySignalId, status)
    OBVIOUS
  <2>1. Held.buySignalId \notin sentBuys /\ Held.sellSignalId = None
    BY <1>1, <1>2 DEF Lanes, BuysPassed, InFlight
  <2>2. Held.buySignalId \notin sentSells
    BY <1>1, <1>2, SidesApart DEF Typed, TypeOK
  <2>3. Held.buySignalId \in Signals
    BY <1>2 DEF Signals
  <2>. QED
    BY <1>1, <1>2, <1>4, <2>1, <2>2, <2>3 DEF Waits, Monitored, Loops
<1>6. ASSUME EntryRead
      PROVE  ~Coming(Held.buySignalId) /\ pc["watching"] # "publish"
  BY <1>1, <1>2, <1>4, <1>5, <1>6 DEF EntryRead, ComesOnce
<1>7. ASSUME EndRead
      PROVE  runtime = None /\ ~Coming(Held.buySignalId) /\ pc["watching"] # "publish"
  <2>1. CASE Held.sellSignalId # None /\ Answered(Held.sellSignalId, "executed")
    <3>1. Held.sellSignalId \in sentSells
      <4>1. Held.sellSignalId \in Signals /\ Held.sellSignalId \notin Buys
        BY <1>3, <2>1, SidesApart DEF Signals
      <4>. QED
        BY <1>1, <2>1, <4>1 DEF Waits, Typed, TypeOK
    <3>. QED
      BY <1>1, <1>3, <1>4, <1>5, <2>1, <3>1 DEF ComesOnce
  <2>2. CASE \E status \in Refused : Answered(Held.buySignalId, status)
    BY <1>1, <1>2, <1>4, <1>5, <2>2 DEF ComesOnce
  <2>3. CASE runtime = None /\ Answered(Held.buySignalId, "executed")
    BY <1>1, <1>2, <1>5, <2>3 DEF ComesOnce
  <2>4. CASE runtime = None /\ Held.buySignalId \in overdue /\ Held.buySignalId \notin DOMAIN rows
    BY <1>1, <1>2, <1>5, <2>4 DEF Waits
  <2>. QED
    BY <1>7, <2>1, <2>2, <2>3, <2>4 DEF EndRead
<1>8. (\A s \in Buys : ~Coming(s)) <=> ~Coming(Held.buySignalId)
  BY <1>1, <1>2 DEF Owned
<1>. QED
  BY <1>6, <1>7, <1>8

LEMMA BoughtExit ==
  ASSUME ExitInv, SentOnceInv', BoughtDecision, ~SaveSynced
  PROVE  ExitInv'
<1>1. /\ Typed /\ Fresh /\ Lanes /\ Waits /\ ComesOnce /\ Owned /\ ExitsPassed
  BY DEF ExitInv, SentOnceInv
<1>2. PICK state, label :
        /\ Continue("bought", state, label) /\ Outcome(state, label)
        /\ pc["bought"] = "decide" /\ label \in {"sync_save", "exit"} => EntryRead
        /\ state.status # "bought" => EndRead
  BY <1>1, BoughtGrounds
<1>3. pc["bought"] \in {"decide", "exit"} /\ DecisionFrame
  BY <1>1, BoughtGrounds
<1>4. /\ pc'["bought"] = label /\ Held' = state
      /\ \A b \in Actors \ {"bought"} : pc'[b] = pc[b] /\ copy'[b] = copy[b]
  BY <1>1, <1>2, Others, LoopsAct DEF Held
<1>5. /\ UNCHANGED <<stored, active>> /\ TradeStays
      /\ \A k \in Loops \ {"bought"} : Stays(k)
  BY <1>3, <1>4, LoopsAct DEF DecisionFrame, candidate, history, TradeStays, Stays
<1>6. /\ WellFormed(Held) /\ Held.status = "bought" /\ Held.buySignalId \in Buys
      /\ Held \in State /\ (pc["bought"] = "exit" => Held.sellSignalId = None)
  BY <1>1, <1>3, HeldIsBought DEF WellFormed
<1>7. loadedBar["bought"] = bar /\ bar \in Int /\ bar \in 0..MaxBars
  BY <1>1, <1>3, LoopsAct DEF Fresh, Deciding, Typed, TypeOK, Bars
<1>8. /\ Busy("bought") /\ stored.status = "bought" /\ Held.buySignalId = stored.buySignalId
      /\ InPlay("bought")
  BY <1>1, <1>3, <1>6 DEF Lanes, Busy, InPlay, Held, Loops
<1>9. \A t \in exitBars : t <= Held.lastExitBar /\ t <= bar
  BY <1>1, <1>8, LoopsAct DEF ExitsPassed, Held
<1>10. pc["bought"] = "exit" => ~Coming(Held.buySignalId) /\ pc["watching"] # "publish"
  BY <1>1 DEF ComesOnce, Lanes
<1>11. Held.sellSignalId # None => ~Coming(Held.buySignalId) /\ pc["watching"] # "publish"
  BY <1>1, <1>3, <1>6, <1>8 DEF ComesOnce, Lanes
<1>12. /\ state.status = "bought" => state.buySignalId = Held.buySignalId
       /\ state.lastExitBar \in {Held.lastExitBar, bar}
       /\ label \in {"save", "stop_save", "sync_save", "exit", "emit"}
       /\ label = "emit" => /\ pc["bought"] = "exit" /\ state.lastExitBar = bar
                            /\ state.status = "bought"
       /\ label \in {"sync_save", "exit"} => pc["bought"] = "decide" /\ state = Held
       /\ state.status = "bought" /\ state.sellSignalId # None =>
            Held.sellSignalId # None \/ label = "emit"
       /\ label = "stop_save" => state.status # "bought"
  <2>1. CASE Keeps(state, label)
    BY <1>6, <2>1 DEF Keeps
  <2>2. CASE GivesUpSell(state, label)
    BY <1>6, <2>2, Retries DEF GivesUpSell
  <2>3. CASE GivesUpBuy(state, label)
    <3>1. CASE state = Rearmed(Held, loadedBar["bought"]) /\ label = "save"
      BY <1>6, <1>7, <3>1, Rearms
    <3>2. CASE \E status \in {"stopped", "sold"} :
                 state = Stopped(Held, status) /\ label = "stop_save"
      BY <1>6, <3>2 DEF Stopped, State
    <3>. QED
      BY <2>3, <3>1, <3>2 DEF GivesUpBuy
  <2>4. CASE Ends(state, label)
    <3>1. CASE state = Rebuy(Held) /\ label = "save"
      BY <1>6, <3>1, Rebought
    <3>2. CASE /\ state = Stopped([Held EXCEPT !.sellSignalId = None, !.sellAttempt = 0], "sold")
               /\ label = "stop_save"
      BY <1>6, <3>2 DEF Stopped, State
    <3>. QED
      BY <2>4, <3>1, <3>2 DEF Ends
  <2>5. CASE SellsIt(state, label)
    <3>1. /\ state.status = "bought" /\ state.buySignalId = Held.buySignalId
          /\ state.sellSignalId = NewSell /\ state.lastExitBar = bar
      BY <1>6, <1>7, <2>5 DEF SellsIt, State
    <3>. QED
      BY <2>5, <3>1 DEF SellsIt
  <2>. QED
    BY <1>2, <2>1, <2>2, <2>3, <2>4, <2>5 DEF Outcome
<1>13. state.status # "bought" =>
         runtime = None /\ (\A s \in Buys : ~Coming(s)) /\ pc["watching"] # "publish"
  BY <1>2, <1>3, ReadsTrue
<1>14. label \in {"sync_save", "exit"} =>
         ~Coming(Held.buySignalId) /\ pc["watching"] # "publish"
  BY <1>2, <1>3, <1>12, ReadsTrue
<1>15. InPlay("bought")' => \A t \in exitBars : t <= copy'["bought"].lastExitBar
  BY <1>4, <1>9, <1>12 DEF Held
<1>16. pc["watching"] = "publish" =>
         state.status = "bought" /\ state.sellSignalId = None /\ label = "save"
  BY <1>10, <1>11, <1>12, <1>13, <1>14
<1>17. state.status = "bought" /\ state.sellSignalId # None => ~Coming(state.buySignalId)
  BY <1>10, <1>11, <1>12
<1>18. label \in {"sync_save", "exit", "emit", "emit_save"} => ~Coming(state.buySignalId)
  BY <1>10, <1>12, <1>14
<1>19. label \in Emitting => state.lastExitBar = bar
  BY <1>7, <1>12 DEF Emitting
<1>20. pc["bought"] # "publish" /\ label \notin {"publish", "stop_remove", "blacklisted"}
  BY <1>3, <1>12
<1>21. state.status = "bought" => state.buySignalId = stored.buySignalId
  BY <1>8, <1>12
<1>. QED
  BY <1>4, <1>5, <1>8, <1>13, <1>15, <1>16, <1>17, <1>18, <1>19, <1>20, <1>21, MovesExit,
     LoopsAct

\* A write of what a loop has in hand, and what comes of it.
LEMMA SaveExit ==
  ASSUME ExitInv, SentOnceInv', Steady, NEW l \in Loops,
         \/ SaveAndReturn(l) \/ SaveStopped(l) \/ SaveEmitting(l)
         \/ l = "bought" /\ SaveSynced
  PROVE  ExitInv'
<1>1. /\ Typed /\ Lanes /\ Waits /\ ComesOnce /\ Owned /\ ExitsPassed /\ BuysPassed
  BY DEF ExitInv, SentOnceInv
<1>2. PICK from, to :
        /\ Save(l, from, to)
        /\ \/ from = "save" /\ to = "idle"
           \/ from = "stop_save" /\ to = "stop_remove"
           \/ from = "emit_save" /\ to = "publish"
           \/ from = "sync_save" /\ to = "exit" /\ l = "bought"
  BY DEF SaveAndReturn, SaveStopped, SaveEmitting, SaveSynced
<1>3. pc[l] = from /\ TradeStays /\ active' = active
  BY <1>2 DEF Save, history, TradeStays
<1>4. Busy(l) /\ InHand(l, from, copy[l]) /\ WellFormed(copy[l]) /\ copy[l] \in State
  <2>1. Busy(l)
    BY <1>2, <1>3 DEF Busy
  <2>. QED
    BY <1>3, <2>1, BusyHand
<1>5. CASE Return(l) /\ UNCHANGED stored
  <2>1. /\ pc'[l] = "idle" /\ \A b \in Actors \ {l} : pc'[b] = pc[b] /\ copy'[b] = copy[b]
    BY <1>1, <1>5, Others, LoopsAct DEF Return
  <2>2. ~Busy(l)' /\ ~InPlay(l)' /\ \A k \in Loops \ {l} : Stays(k)
    BY <2>1, LoopsAct DEF Busy, InPlay, Stays
  <2>3. pc[l] # "publish" /\ pc'[l] \notin {"publish", "stop_remove", "blacklisted"} \cup Emitting
    BY <1>2, <1>3, <2>1 DEF Emitting
  <2>. QED
    BY <1>3, <1>5, <2>2, <2>3, MovesExit
<1>6. CASE /\ stored' = Merged(copy[l])
           /\ IF to = "idle" THEN Return(l) ELSE Continue(l, copy[l], to)
  <2>1. /\ pc'[l] = to /\ (to # "idle" => copy'[l] = copy[l])
        /\ \A b \in Actors \ {l} : pc'[b] = pc[b] /\ copy'[b] = copy[b]
    BY <1>1, <1>2, <1>6, Others, LoopsAct DEF Return
  <2>2. /\ stored'.status = copy[l].status /\ stored'.buySignalId = copy[l].buySignalId
        /\ stored'.sellSignalId = copy[l].sellSignalId
        /\ stored'.lastExitBar = copy[l].lastExitBar
    BY <1>1, <1>4, <1>6, Merges DEF Typed, TypeOK
  <2>3. Monitored' <=> copy[l].status \in Loops
    BY <2>2 DEF Monitored
  <2>4. \A k \in Loops : pc'[k] # "blacklisted"
    BY <1>1, <1>2, <2>1, LoopsAct DEF Lanes
  <2>5. CASE l = "watching"
    <3>1. /\ stored.status = "watching" /\ pc["bought"] = "idle" /\ pc'["bought"] = "idle"
          /\ pc[l] # "publish" /\ W = copy[l] /\ InPlay("bought")' = FALSE /\ ~Busy("bought")'
      <4>1. stored.status = "watching" /\ pc[l] # "publish" /\ W = copy[l]
        BY <1>1, <1>2, <1>3, <1>4, <2>5 DEF Lanes, W
      <4>2. pc["bought"] = "idle"
        BY <1>1, <4>1, LoopsAct DEF Lanes, Busy, Monitored, Loops
      <4>. QED
        BY <2>1, <2>5, <4>1, <4>2, LoopsAct DEF InPlay, Busy
    <3>2. runtime = None /\ \A s \in Buys : ~Coming(s)
      BY <1>1, <3>1 DEF Owned, Typed, TypeOK
    <3>3. /\ W.status \in {"watching", "bought", "stopped", "sold"}
          /\ from = "save" => W.status = "watching" /\ ~InPlay("watching")'
          /\ from = "stop_save" => W.status \notin Loops /\ ~InPlay("watching")'
          /\ from = "emit_save" => /\ W.status = "bought" /\ W.sellSignalId = None
                                   /\ W.buySignalId \in Buys /\ W.buySignalId \notin sentBuys
                                   /\ W' = W /\ to = "publish"
          /\ from \in {"save", "stop_save", "emit_save"}
      <4>1. InHand("watching", from, W)
        BY <1>4, <2>5, <3>1
      <4>2. from = "emit_save" => W.buySignalId \in Buys /\ W.buySignalId \notin sentBuys
        <5>1. from = "emit_save" => pc["watching"] \in Emitting
          BY <1>3, <2>5 DEF Emitting
        <5>. QED
          BY <1>1, <1>3, <2>5, <5>1, SendingHand, LoopsAct DEF BuysPassed, InFlight
      <4>3. from # "emit_save" => ~InPlay("watching")'
        BY <1>2, <2>1, <2>5, <3>1, <4>1 DEF InPlay, W, InHand, Leaving, Loops
      <4>4. from = "emit_save" => W' = W /\ to = "publish"
        BY <1>2, <2>1, <2>5 DEF W
      <4>. QED
        BY <1>2, <2>5, <4>1, <4>2, <4>3, <4>4 DEF InHand, Emitting, Leaving, Loops
    <3>4. \A s \in Buys : Coming(s)' <=> from = "emit_save" /\ s = W.buySignalId
      <4>1. pc'["watching"] = "publish" <=> from = "emit_save"
        BY <1>2, <2>1, <2>5
      <4>. QED
        BY <1>3, <3>2, <3>3, <4>1, TradeStaysVars DEF Coming
    <3>5. \A k \in Loops : InPlay(k)' => k = "watching" /\ from = "emit_save" /\ copy'[k] = W
                                        /\ InPlay("watching")
      BY <1>2, <1>3, <2>1, <2>5, <3>1, <3>3 DEF Loops, InPlay
    <3>6. Lanes'
      <4>1. \A k \in Loops : pc'[k] = "stop_remove" => k = "watching" /\ from = "stop_save"
        BY <1>2, <2>1, <2>5, <3>1 DEF Loops
      <4>2. Busy("watching")' /\ pc'["watching"] # "publish" => FALSE
        BY <1>2, <2>1, <2>5, <3>3 DEF Busy
      <4>3. pc'["watching"] = "publish" => from = "emit_save"
        BY <1>2, <2>1, <2>5
      <4>. QED
        BY <1>1, <1>3, <2>2, <2>3, <2>4, <3>1, <3>3, <4>1, <4>2, <4>3, TradeStaysVars
           DEF Lanes, Monitored, Loops
    <3>7. Waits'
      <4>1. stored'.status = "bought" => pc'["watching"] = "publish"
        BY <2>1, <2>2, <2>5, <3>1, <3>3 DEF Loops
      <4>. QED
        BY <1>1, <1>3, <3>1, <3>3, <3>4, <4>1, TradeStaysVars DEF Waits, Monitored, Loops
    <3>8. ComesOnce'
      <4>1. \A t \in sentSells : t.buy \in Buys
        BY <1>1, SentNumbers
      <4>2. from = "emit_save" =>
              \A status \in {"executed"} \cup Refused : ~Answered(W.buySignalId, status)
        <5>1. from = "emit_save" => W.buySignalId \in Signals /\ W.buySignalId \notin sentSells
          BY <1>1, <3>3, SidesApart DEF Signals, Typed, TypeOK
        <5>. QED
          BY <1>1, <3>3, <5>1 DEF Waits
      <4>3. stored'.status = "bought" => stored'.sellSignalId = None
        BY <2>2, <2>5, <3>1, <3>3 DEF Loops
      <4>4. \A s \in Buys : s # None
        BY SidesApart
      <4>. QED
        BY <1>1, <1>3, <3>1, <3>2, <3>3, <3>4, <4>1, <4>2, <4>3, <4>4, TradeStaysVars
           DEF ComesOnce
    <3>9. Owned'
      <4>1. \A s \in Buys : s # None
        BY SidesApart
      <4>. QED
        BY <1>3, <2>2, <2>5, <3>1, <3>2, <3>3, <3>4, <4>1, TradeStaysVars DEF Owned
    <3>10. ExitsPassed'
      <4>1. Monitored' => InPlay("watching")
        BY <1>2, <1>3, <1>4, <2>3, <2>5 DEF InPlay
      <4>2. \A t \in exitBars : Monitored' => t <= stored'.lastExitBar
        BY <1>1, <2>2, <2>5, <4>1, LoopsAct DEF ExitsPassed
      <4>3. \A t \in exitBars, k \in Loops : InPlay(k)' => t <= copy'[k].lastExitBar
        BY <1>1, <3>5, LoopsAct DEF ExitsPassed, W
      <4>4. pc'["watching"] \in Emitting => pc["watching"] \in Emitting /\ W' = W
        BY <1>2, <1>3, <2>1, <2>5, <3>3 DEF Emitting
      <4>5. pc'["bought"] \notin Emitting
        BY <3>1 DEF Emitting
      <4>. QED
        BY <1>1, <1>3, <3>1, <4>2, <4>3, <4>4, <4>5, TradeStaysVars DEF ExitsPassed
    <3>. QED
      BY <3>6, <3>7, <3>8, <3>9, <3>10 DEF ExitInv
  <2>6. CASE l = "bought"
    <3>1. /\ stored.status = "bought" /\ Busy("bought") /\ Held = copy[l]
          /\ pc'["watching"] = pc["watching"] /\ W' = W
          /\ (InPlay("watching")' <=> InPlay("watching"))
          /\ pc["watching"] \in {"idle", "publish", "stop_remove"}
      <4>1. stored.status = "bought" /\ Busy("bought") /\ Held = copy[l]
        BY <1>1, <1>4, <2>6 DEF Lanes, Held
      <4>2. pc["watching"] \in {"idle", "publish", "stop_remove"}
        BY <1>1, <4>1 DEF Lanes, Busy
      <4>. QED
        BY <2>1, <2>6, <4>1, <4>2, LoopsAct DEF InPlay, W
    <3>2. /\ Held.status = "bought" => /\ Held.buySignalId = stored.buySignalId
                                       /\ InPlay("bought") /\ Held.buySignalId \in Buys
          /\ Held.status # "bought" => runtime = None /\ (\A s \in Buys : ~Coming(s))
          /\ Held.status # "bought" => pc["watching"] # "publish" /\ from \in {"save", "stop_save"}
          /\ from = "stop_save" => Held.status \notin Loops
          /\ from = "save" => Held.status \in Loops
          /\ pc["watching"] = "publish" => from = "save" /\ Held.sellSignalId = None
      <4>1. InHand("bought", from, Held)
        BY <1>4, <2>6, <3>1
      <4>2. from \in {"sync_save", "emit_save"} => Held.status = "bought"
        BY <4>1 DEF InHand, Emitting
      <4>3. /\ from = "stop_save" => Held.status \notin Loops
            /\ Held.status = "bought" => InPlay("bought") /\ Held.buySignalId \in Buys
        BY <1>2, <1>3, <1>4, <2>6, <3>1, <4>1 DEF InHand, Leaving, InPlay, Loops, WellFormed
      <4>4. pc["watching"] = "publish" => from = "save" /\ Held.sellSignalId = None
                                          /\ Held.status = "bought"
        BY <1>1, <1>2, <1>3, <2>6 DEF Lanes
      <4>5. from = "save" => Held.status \in Loops
        BY <4>1 DEF InHand, Loops
      <4>. QED
        BY <1>1, <1>2, <3>1, <4>2, <4>3, <4>4, <4>5 DEF Lanes, Owned
    <3>3. /\ \A s : Coming(s)' <=> Coming(s)
          /\ Busy("bought")' => Held' = Held /\ from \in {"sync_save", "emit_save"}
                                 /\ Held.status = "bought"
          /\ pc'["bought"] \in {"idle", "stop_remove", "exit", "publish"}
          /\ pc'["bought"] = "exit" => from = "sync_save"
          /\ pc'["bought"] = "publish" => from = "emit_save"
          /\ pc'["bought"] = "stop_remove" => from = "stop_save"
      <4>1. \A s : Coming(s)' <=> Coming(s)
        BY <1>3, <3>1, TradeStaysVars DEF Coming
      <4>2. Busy("bought")' => from \in {"sync_save", "emit_save"}
        BY <1>2, <2>1, <2>6 DEF Busy
      <4>. QED
        BY <1>2, <2>1, <2>6, <3>2, <4>1, <4>2 DEF Held
    <3>4. Lanes'
      <4>1. \A k \in Loops : pc'[k] = "stop_remove" => ~Monitored'
        <5>1. pc'["watching"] # "stop_remove"
          BY <1>1, <3>1, LoopsAct DEF Lanes, Monitored, Loops
        <5>. QED
          BY <2>3, <2>6, <3>1, <3>2, <3>3, <5>1 DEF Loops
      <4>2. Busy("watching")' => pc["watching"] = "publish"
        BY <3>1 DEF Busy
      <4>3. Monitored' => active'
        BY <1>1, <1>3, <3>1 DEF Lanes, Monitored, Loops
      <4>4. pc["watching"] = "publish" =>
              /\ pc'["bought"] = "idle" /\ stored'.status = "bought"
              /\ stored'.buySignalId = W.buySignalId /\ stored'.sellSignalId = None
        BY <1>1, <1>2, <2>1, <2>2, <2>6, <3>1, <3>2 DEF Lanes
      <4>5. Busy("bought")' => stored'.status = "bought" /\ Held'.buySignalId = stored'.buySignalId
        BY <2>2, <2>6, <3>1, <3>3
      <4>. QED
        BY <1>1, <1>3, <2>4, <3>1, <4>1, <4>2, <4>3, <4>4, <4>5, TradeStaysVars DEF Lanes
    <3>5. Waits'
      <4>1. stored'.status = "bought" => stored'.buySignalId = stored.buySignalId
        BY <2>2, <2>6, <3>1, <3>2
      <4>. QED
        BY <1>1, <1>3, <3>1, <3>3, <4>1, TradeStaysVars DEF Waits, Monitored, Loops
    <3>6. ComesOnce'
      <4>1. stored'.status = "bought" /\ stored'.sellSignalId # None =>
              ~Coming(stored'.buySignalId)
        BY <1>1, <2>2, <2>6, <3>1, <3>2 DEF ComesOnce
      <4>2. pc'["bought"] \in {"sync_save", "exit", "emit", "emit_save", "publish"} =>
              Held' = Held /\ ~Coming(Held.buySignalId)
        <5>1. pc'["bought"] \in {"sync_save", "exit", "emit", "emit_save", "publish"} =>
                Busy("bought")'
          BY DEF Busy
        <5>2. from \in {"sync_save", "emit_save"} => ~Coming(Held.buySignalId)
          BY <1>1, <1>3, <2>6 DEF ComesOnce
        <5>. QED
          BY <3>3, <5>1, <5>2
      <4>3. Busy("bought")' /\ Held'.sellSignalId # None => ~Coming(Held'.buySignalId)
        BY <1>1, <1>3, <2>6, <3>1, <3>3 DEF ComesOnce
      <4>. QED
        BY <1>1, <1>3, <3>3, <4>1, <4>2, <4>3, TradeStaysVars DEF ComesOnce
    <3>7. Owned'
      <4>1. \A s \in Buys : s # None
        BY SidesApart
      <4>. QED
        BY <1>1, <1>3, <2>2, <2>6, <3>1, <3>2, <3>3, <4>1, TradeStaysVars DEF Owned
    <3>8. ExitsPassed'
      <4>1. Monitored' => InPlay("bought")
        BY <1>2, <1>3, <1>4, <2>3, <2>6 DEF InPlay
      <4>2. \A t \in exitBars : Monitored' => t <= stored'.lastExitBar
        BY <1>1, <2>2, <2>6, <4>1, LoopsAct DEF ExitsPassed
      <4>3. \A k \in Loops : InPlay(k)' => InPlay(k) /\ copy'[k] = copy[k]
        <5>1. InPlay("bought")' => Busy("bought")'
          <6>1. InPlay("bought")' /\ pc'["bought"] = "stop_remove" => FALSE
            <7>1. pc'["bought"] = "stop_remove" =>
                    from = "stop_save" /\ copy'["bought"] = Held
              BY <2>1, <2>6, <3>1, <3>3
            <7>. QED
              BY <3>2, <7>1 DEF InPlay
          <6>. QED
            BY <6>1 DEF InPlay, Busy
        <5>2. InPlay("bought")' => InPlay("bought") /\ copy'["bought"] = copy["bought"]
          BY <3>2, <3>3, <5>1 DEF Held
        <5>3. InPlay("watching")' => InPlay("watching") /\ copy'["watching"] = copy["watching"]
          BY <3>1 DEF W
        <5>. QED
          BY <5>2, <5>3 DEF Loops
      <4>4. pc'["bought"] \in Emitting =>
              /\ from = "emit_save" /\ Held' = Held
              /\ Held.lastExitBar = bar
              /\ stored'.lastExitBar = Held.lastExitBar /\ Held.lastExitBar \in Int
        <5>1. pc'["bought"] \in Emitting => from = "emit_save" /\ Busy("bought")'
          BY <3>3 DEF Emitting, Busy
        <5>2. from = "emit_save" => pc["bought"] \in Emitting
          BY <1>3, <2>6 DEF Emitting
        <5>3. from = "emit_save" => Held.lastExitBar \in Int
          BY <1>1, <5>2, SendingHand, LoopsAct
        <5>. QED
          BY <1>1, <2>2, <2>6, <3>1, <3>3, <5>1, <5>2, <5>3 DEF ExitsPassed
      <4>5. pc'["bought"] = "publish" => pc'["bought"] \in Emitting
        BY DEF Emitting
      <4>. QED
        BY <1>1, <1>3, <3>1, <4>2, <4>3, <4>4, <4>5, TradeStaysVars DEF ExitsPassed
    <3>. QED
      BY <3>4, <3>5, <3>6, <3>7, <3>8 DEF ExitInv
  <2>. QED
    BY <2>5, <2>6 DEF Loops
<1>. QED
  BY <1>2, <1>5, <1>6 DEF Save

LEMMA RemoveExit ==
  ASSUME ExitInv, SentOnceInv', NEW l \in Loops, RemoveActive(l)
  PROVE  ExitInv'
<1>1. /\ Typed /\ Lanes /\ Waits /\ ComesOnce /\ Owned /\ ExitsPassed
  BY DEF ExitInv, SentOnceInv
<1>2. /\ pc[l] = "stop_remove" /\ pc'[l] = "idle"
      /\ \A b \in Actors \ {l} : pc'[b] = pc[b] /\ copy'[b] = copy[b]
      /\ stored' = stored /\ TradeStays
  BY <1>1, Others, LoopsAct DEF RemoveActive, Return, TradeStays, history
<1>3. ~Monitored /\ ~Monitored' /\ stored.status # "bought" /\ stored.status # "watching"
  BY <1>1, <1>2 DEF Lanes, Monitored, Loops
<1>4. \A k \in Loops : ~Busy(k) /\ ~Busy(k)' /\ pc'[k] \in {"idle", "stop_remove"} /\ ~InPlay(k)'
  <2>1. \A k \in Loops : ~Busy(k)
    BY <1>1, <1>3 DEF Lanes, Loops
  <2>2. \A k \in Loops : k = l \/ (pc'[k] = pc[k] /\ copy'[k] = copy[k])
    BY <1>2, LoopsAct
  <2>3. \A k \in Loops : pc'[k] = "stop_remove" => copy'[k].status \notin Loops
    BY <1>1, <1>2, <2>2, LoopsAct DEF Typed, Copies, InHand, Leaving, Loops
  <2>. QED
    BY <1>2, <2>1, <2>2, <2>3 DEF Busy, InPlay
<1>5. /\ pc'["watching"] \in {"idle", "stop_remove"} /\ pc'["bought"] \in {"idle", "stop_remove"}
      /\ pc["watching"] # "publish" /\ ~Busy("watching")' /\ ~Busy("bought")'
      /\ ~InPlay("watching")' /\ ~InPlay("bought")'
  BY <1>4, LoopsAct DEF Busy
<1>6. \A s : Coming(s)' <=> Coming(s)
  BY <1>2, <1>5, TradeStaysVars DEF Coming
<1>7. Lanes'
  BY <1>1, <1>2, <1>3, <1>4, <1>5, TradeStaysVars DEF Lanes
<1>8. Waits'
  BY <1>1, <1>2, <1>3, <1>6, TradeStaysVars DEF Waits
<1>9. ComesOnce'
  BY <1>1, <1>2, <1>3, <1>5, <1>6, TradeStaysVars DEF ComesOnce
<1>10. Owned'
  BY <1>1, <1>2, <1>3, <1>5, <1>6, TradeStaysVars DEF Owned
<1>11. ExitsPassed'
  BY <1>1, <1>2, <1>3, <1>4, <1>5, TradeStaysVars DEF ExitsPassed, Emitting
<1>. QED
  BY <1>7, <1>8, <1>9, <1>10, <1>11 DEF ExitInv

\* A publication: the channel gets the signal at its end, or not at all.
LEMMA AppendsLast ==
  ASSUME NEW q \in Seq(Signals), NEW signal \in Signals, NEW r, r = Append(q, signal)
  PROVE  /\ DOMAIN r = DOMAIN q \cup {Len(q) + 1} /\ Len(q) + 1 \notin DOMAIN q
         /\ r[Len(q) + 1] = signal /\ \A i \in DOMAIN q : r[i] = q[i]
OBVIOUS

LEMMA PublishExit ==
  ASSUME ExitInv, SentOnceInv', NEW l \in Loops, Publish(l)
  PROVE  ExitInv'
<1> DEFINE signal == Pending(copy[l])
<1>1. /\ Typed /\ Lanes /\ Waits /\ ComesOnce /\ Owned /\ ExitsPassed
      /\ BuysPassed /\ SellsPassed /\ SentOnceInv
  BY DEF ExitInv, SentOnceInv
<1>2. /\ pc[l] = "publish" /\ pc'[l] = "idle"
      /\ \A b \in Actors \ {l} : pc'[b] = pc[b] /\ copy'[b] = copy[b]
      /\ channel' = Append(channel, signal) \/ channel' = channel
      /\ sentBuys' = sentBuys \cup ({signal} \cap Buys)
      /\ sentSells' = sentSells \cup ({signal} \cap Sells)
      /\ exitBars' = exitBars \cup {bar : s \in {signal} \cap Sells}
      /\ UNCHANGED <<stored, active, blacklisted, bar, overdue, consuming, tasks, rows, runtime>>
  BY <1>1, Others, LoopsAct DEF Publish, Return, candidate
<1>3. /\ signal \in Signals /\ signal \notin sentBuys \cup sentSells
      /\ l = "watching" => signal = W.buySignalId /\ signal \in Buys /\ signal \notin Sells
      /\ l = "bought" => /\ signal = Held.sellSignalId /\ signal \in Sells /\ signal \notin Buys
                         /\ Held.status = "bought" /\ WellFormed(Held) /\ Held.sellSignalId # None
  <2>1. pc[l] \in Emitting
    BY <1>2 DEF Emitting
  <2>. QED
    <3>1. signal \notin sentBuys \cup sentSells
      <4>1. Typed'
        BY DEF SentOnceInv
      <4>. QED
        BY <1>1, <4>1, PublishSent
    <3>2. CASE l = "watching"
      BY <1>1, <2>1, <3>1, <3>2, SendingHand, SidesApart DEF Signals
    <3>3. CASE l = "bought"
      BY <1>1, <2>1, <3>1, <3>3, SendingHand, SidesApart DEF Signals, Held
    <3>. QED
      BY <3>2, <3>3 DEF Loops
<1>4. /\ \A i \in DOMAIN channel' : channel'[i] = signal \/
           (i \in DOMAIN channel /\ channel'[i] = channel[i])
      /\ \A i, j \in DOMAIN channel' : channel'[i] = channel'[j] /\ channel'[i] \in Buys => i = j
      /\ \A i \in DOMAIN channel : i \in DOMAIN channel' /\ channel'[i] = channel[i]
  <2>1. channel \in Seq(Signals) /\ \A i \in DOMAIN channel : channel[i] # signal
    BY <1>1, <1>3 DEF Typed, TypeOK, Waits
  <2>2. CASE channel' = channel
    BY <1>1, <2>2 DEF ComesOnce
  <2>3. CASE channel' = Append(channel, signal)
    <3> HIDE DEF signal
    <3>1. /\ DOMAIN channel' = DOMAIN channel \cup {Len(channel) + 1}
          /\ Len(channel) + 1 \notin DOMAIN channel
          /\ channel'[Len(channel) + 1] = signal
          /\ \A i \in DOMAIN channel : channel'[i] = channel[i]
      BY <1>3, <2>1, <2>3, AppendsLast
    <3>. QED
      BY <1>1, <2>1, <3>1 DEF ComesOnce
  <2>. QED
    BY <1>2, <2>2, <2>3
<1>5. \A s, status : Answered(s, status)' <=> Answered(s, status)
  BY <1>2 DEF Answered
<1>6. Monitored' <=> Monitored
  BY <1>2 DEF Monitored
<1>7. ~Busy(l)' /\ ~InPlay(l)'
  BY <1>2 DEF Busy, InPlay
<1> HIDE DEF signal
<1>8. CASE l = "watching"
  <2>1. /\ stored.status = "bought" /\ stored.buySignalId = signal /\ pc["bought"] # "publish"
        /\ stored.sellSignalId = None
    BY <1>1, <1>2, <1>3, <1>8 DEF Lanes
  <2>2. /\ pc'["watching"] = "idle" /\ pc'["bought"] = pc["bought"] /\ Held' = Held
        /\ (Busy("bought")' <=> Busy("bought")) /\ (InPlay("bought")' <=> InPlay("bought"))
        /\ ~Busy("watching")' /\ ~InPlay("watching")'
    BY <1>2, <1>7, <1>8, LoopsAct DEF Held, Busy, InPlay
  <2>3. \A s : Coming(s)' => Coming(s)
    BY <1>2, <1>3, <1>4, <1>8 DEF Coming
  <2>4. sentBuys' = sentBuys \cup {signal} /\ sentSells' = sentSells
    BY <1>2, <1>3, <1>8
  <2>5. Lanes'
    <3>1. \A k \in Loops : pc'[k] # "blacklisted" /\ (pc'[k] = "stop_remove" => pc[k] = "stop_remove")
      BY <1>1, <1>2, <2>2 DEF Lanes, Loops
    <3>. QED
      BY <1>1, <1>2, <1>6, <2>2, <3>1 DEF Lanes
  <2>6. Waits'
    <3>1. \A i \in DOMAIN channel' : channel'[i] \in sentBuys' \cup sentSells'
      BY <1>1, <1>4, <2>4 DEF Waits
    <3>. QED
      BY <1>1, <1>2, <1>5, <1>6, <2>1, <2>3, <2>4, <3>1 DEF Waits
  <2>7. ComesOnce'
    <3>1. \A i \in DOMAIN channel' : channel'[i] \in Buys => consuming # channel'[i]
      BY <1>1, <1>3, <1>4, NoneAssumption DEF ComesOnce, Waits
    <3>. QED
      BY <1>1, <1>2, <1>4, <1>5, <2>2, <2>3, <2>4, <3>1 DEF ComesOnce
  <2>8. Owned'
    BY <1>1, <1>2, <2>2, <2>3 DEF Owned
  <2>9. ExitsPassed'
    <3>1. \A k \in Loops : InPlay(k)' => InPlay(k) /\ copy'[k] = copy[k]
      BY <2>2, LoopsAct DEF Loops, Held
    <3>2. exitBars' = exitBars
      BY <1>2, <1>3, <1>8
    <3>. QED
      BY <1>1, <1>2, <1>6, <2>2, <2>4, <3>1, <3>2 DEF ExitsPassed, Emitting
  <2>. QED
    BY <2>5, <2>6, <2>7, <2>8, <2>9 DEF ExitInv
<1>9. CASE l = "bought"
  <2>1. /\ Busy("bought") /\ stored.status = "bought" /\ Held.buySignalId = stored.buySignalId
        /\ pc["watching"] \in {"idle", "stop_remove"} /\ Monitored
    <3>1. Busy("bought")
      BY <1>2, <1>9 DEF Busy
    <3>. QED
      BY <1>1, <1>2, <1>3, <1>9, <3>1 DEF Lanes, Busy, Monitored, Loops
  <2>2. /\ pc'["bought"] = "idle" /\ pc'["watching"] = pc["watching"] /\ W' = W
        /\ ~Busy("bought")' /\ ~InPlay("bought")' /\ ~InPlay("watching")' /\ ~Busy("watching")'
    <3>1. pc["watching"] = "idle"
      BY <1>1, <2>1, LoopsAct DEF Lanes
    <3>. QED
      BY <1>2, <1>7, <1>9, <3>1, LoopsAct DEF W, Busy, InPlay
  <2>3. \A s \in Buys : Coming(s)' => Coming(s)
    BY <1>2, <1>3, <1>4, <1>9, <2>2 DEF Coming
  <2>4. sentSells' = sentSells \cup {signal} /\ sentBuys' = sentBuys
    BY <1>2, <1>3, <1>9
  <2>5. Lanes'
    <3>1. \A k \in Loops : pc'[k] # "blacklisted" /\ (pc'[k] = "stop_remove" => pc[k] = "stop_remove")
      BY <1>1, <1>2, <2>2 DEF Lanes, Loops
    <3>. QED
      BY <1>1, <1>2, <1>6, <2>1, <2>2, <3>1 DEF Lanes
  <2>6. Waits'
    <3>1. \A i \in DOMAIN channel' : channel'[i] \in sentBuys' \cup sentSells'
      BY <1>1, <1>4, <2>4 DEF Waits
    <3>. QED
      BY <1>1, <1>2, <1>5, <2>1, <2>2, <2>3, <2>4, <3>1 DEF Waits
  <2>7. ComesOnce'
    <3>1. \A i \in DOMAIN channel' : channel'[i] \in Buys => consuming # channel'[i]
      BY <1>1, <1>3, <1>4, <1>9 DEF ComesOnce
    <3>2. signal.buy = Held.buySignalId /\ signal.buy \in Buys
      BY <1>3, <1>9, SidesApart DEF WellFormed
    <3>3. ~Coming(signal.buy) /\ signal.buy \in sentBuys
      BY <1>1, <1>2, <1>9, <2>1, <3>2 DEF ComesOnce, Waits
    <3>4. ~Answered(signal, "executed")
      BY <1>1, <1>3 DEF Waits
    <3>5. \A t \in sentSells : t.buy \in Buys
      BY <1>1, SentNumbers
    <3>6. stored.buySignalId \in Buys
      BY <1>1, <2>1, StoredNumbers
    <3>. QED
      BY <1>1, <1>2, <1>4, <1>5, <2>1, <2>2, <2>3, <2>4, <3>1, <3>2, <3>3, <3>4, <3>5, <3>6
         DEF ComesOnce
  <2>8. Owned'
    BY <1>1, <1>2, <2>2, <2>3 DEF Owned
  <2>9. ExitsPassed'
    <3>1. \A k \in Loops : ~InPlay(k)'
      BY <2>2 DEF Loops
    <3>2. bar <= stored.lastExitBar /\ bar \in Int
      BY <1>1, <1>2, <1>9 DEF ExitsPassed, Emitting, Typed, TypeOK, Bars
    <3>3. exitBars' \subseteq exitBars \cup {bar}
      BY <1>2
    <3>. QED
      BY <1>1, <1>2, <1>6, <2>1, <2>2, <3>1, <3>2, <3>3 DEF ExitsPassed, Emitting
  <2>. QED
    BY <2>5, <2>6, <2>7, <2>8, <2>9 DEF ExitInv
<1>. QED
  BY <1>8, <1>9 DEF Loops

Final == {"executed"} \cup Refused

\* A step of the trade side: nothing new comes, what is answered was being
\* processed, and a position that is opened is that of a buy that has come.
LEMMA TradeSideExit ==
  ASSUME ExitInv, SentOnceInv',
         UNCHANGED <<candidate, blacklisted, actors, bar, overdue, history>>,
         \A s \in Signals : Coming(s)' => Coming(s),
         \A i \in DOMAIN channel' : \E j \in DOMAIN channel : channel'[i] = channel[j],
         \A i, j \in DOMAIN channel' : channel'[i] = channel'[j] /\ channel'[i] \in Buys => i = j,
         \A i \in DOMAIN channel' : channel'[i] \in Buys => consuming' # channel'[i],
         consuming' # None => consuming' \in sentBuys \cup sentSells,
         DOMAIN rows \subseteq DOMAIN rows',
         \A s \in Buys : [op |-> "insert", signal |-> s] \in tasks' =>
           [op |-> "insert", signal |-> s] \in tasks \/ Coming(s),
         \A s \in Signals, status \in Final : Answered(s, status)' =>
           \/ Answered(s, status)
           \/ /\ s = consuming
              /\ s \in Buys => ~Coming(s)' /\ (status \in Refused => runtime' # s)
              /\ s \in Sells /\ status = "executed" => runtime' = None,
         \/ runtime' \in {runtime, None}
         \/ /\ runtime' = consuming /\ consuming \in Buys
            /\ \A s \in Buys : s = consuming => ~Coming(s)'
  PROVE  ExitInv'
<1>1. /\ Typed /\ Lanes /\ Waits /\ ComesOnce /\ Owned /\ ExitsPassed
  BY DEF ExitInv, SentOnceInv
<1>2. /\ UNCHANGED <<stored, active, pc, copy, sentBuys, sentSells, exitBars>>
      /\ W' = W /\ Held' = Held /\ (Monitored' <=> Monitored)
      /\ \A k \in Loops : InPlay(k)' <=> InPlay(k)
      /\ (Busy("watching")' <=> Busy("watching")) /\ (Busy("bought")' <=> Busy("bought"))
  BY DEF candidate, actors, history, W, Held, Monitored, InPlay, Busy
<1>3. Lanes'
  BY <1>1, <1>2 DEF Lanes
<1>4. ExitsPassed'
  BY <1>1, <1>2 DEF ExitsPassed
<1>5. /\ Buys \subseteq Signals /\ Sells \subseteq Signals /\ (\A s \in Buys : s # None)
      /\ sentBuys \subseteq Buys /\ sentSells \subseteq Sells
      /\ (\A t \in sentSells : t.buy \in Buys) /\ Buys \cap Sells = {}
      /\ (stored.status = "bought" => stored.buySignalId \in Buys)
  BY <1>1, SidesApart, SentNumbers, StoredNumbers DEF Signals, Typed, TypeOK
<1>6. /\ consuming \in Buys => Coming(consuming)
      /\ consuming # None => consuming \in sentBuys \cup sentSells
  BY <1>1 DEF Coming, Waits
<1>7. Waits'
  <2>1. \A i \in DOMAIN channel' : channel'[i] \in sentBuys \cup sentSells
    BY <1>1 DEF Waits
  <2>2. \A s \in Signals, status \in Final : Answered(s, status)' => s \in sentBuys \cup sentSells
    BY <1>1, <1>6, NoneAssumption DEF Waits, Final
  <2>3. runtime' # None => runtime' \in sentBuys
    BY <1>1, <1>5, <1>6 DEF Waits
  <2>. QED
    BY <1>1, <1>2, <1>5, <2>1, <2>2, <2>3 DEF Waits, Final
<1>8. ComesOnce'
  <2>1. \A s \in Buys : Coming(s)' =>
          runtime' # s /\ \A status \in Final : ~Answered(s, status)'
    BY <1>1, <1>5 DEF ComesOnce, Final
  <2>2. \A s \in Buys, status \in Refused : Answered(s, status)' => runtime' # s
    BY <1>1, <1>5, <1>6 DEF ComesOnce, Final
  <2>3. \A t \in sentSells : Answered(t, "executed")' => runtime' # t.buy
    BY <1>1, <1>5, <1>6 DEF ComesOnce, Final
  <2>4. \A t \in sentSells : ~Coming(t.buy)'
    BY <1>1, <1>5 DEF ComesOnce
  <2>5. /\ stored.status = "bought" /\ stored.sellSignalId # None => ~Coming(stored.buySignalId)'
        /\ pc["bought"] \in {"sync_save", "exit", "emit", "emit_save", "publish"} =>
             ~Coming(Held.buySignalId)'
        /\ Busy("bought") /\ Held.status = "bought" /\ Held.sellSignalId # None =>
             ~Coming(Held.buySignalId)'
    <3>1. \A s : s \in Signals /\ ~Coming(s) => ~Coming(s)'
      OBVIOUS
    <3>2. Busy("bought") /\ Held.status = "bought" => Held.buySignalId \in Signals
      BY <1>5, BusyHand, LoopsAct DEF WellFormed, Held
    <3>3. pc["bought"] \in {"sync_save", "exit", "emit", "emit_save", "publish"} =>
            Held.buySignalId \in Signals
      <4>1. pc["bought"] \in {"sync_save", "exit", "emit", "emit_save", "publish"} =>
              Busy("bought") /\ Held.status = "bought"
        <5>1. InHand("bought", pc["bought"], Held)
          BY <1>1, LoopsAct DEF Typed, Copies, Held
        <5>. QED
          BY <5>1 DEF InHand, Busy, Emitting
      <4>. QED
        BY <3>2, <4>1
    <3>4. stored'.buySignalId = stored.buySignalId /\ Held'.buySignalId = Held.buySignalId
      BY <1>2
    <3>. QED
      BY <1>1, <1>5, <3>1, <3>2, <3>3, <3>4 DEF ComesOnce
  <2>. QED
    BY <1>1, <1>2, <2>1, <2>2, <2>3, <2>4, <2>5 DEF ComesOnce, Final
<1>9. Owned'
  BY <1>1, <1>2, <1>5, <1>6 DEF Owned
<1>. QED
  BY <1>3, <1>4, <1>7, <1>8, <1>9 DEF ExitInv

LEMMA TailKeeps ==
  ASSUME NEW q \in Seq(Signals), q # <<>>
  PROVE  /\ Tail(q) \in Seq(Signals) /\ Head(q) = q[1] /\ 1 \in DOMAIN q
         /\ \A i \in DOMAIN Tail(q) : /\ i \in Nat /\ i + 1 \in DOMAIN q /\ i + 1 # 1
                                      /\ Tail(q)[i] = q[i + 1]
OBVIOUS

LEMMA ConsumeExit ==
  ASSUME ExitInv, SentOnceInv', Consume
  PROVE  ExitInv'
<1>1. /\ Typed /\ Lanes /\ Waits /\ ComesOnce /\ Owned /\ ExitsPassed
  BY DEF ExitInv, SentOnceInv
<1> DEFINE next == Head(channel)
           task == [op |-> "insert", signal |-> next]
<1>2. /\ consuming = None /\ channel \in Seq(Signals) /\ channel # <<>>
      /\ consuming' = next /\ channel' = Tail(channel)
      /\ tasks' = tasks \cup {task} /\ UNCHANGED <<rows, runtime>>
      /\ UNCHANGED <<candidate, blacklisted, actors, bar, overdue, history>>
  BY <1>1 DEF Consume, TradeFrame, Typed, TypeOK
<1>3. /\ next = channel[1] /\ 1 \in DOMAIN channel
      /\ \A i \in DOMAIN channel' : /\ i \in Nat /\ i + 1 \in DOMAIN channel /\ i + 1 # 1
                                    /\ channel'[i] = channel[i + 1]
  BY <1>2, TailKeeps
<1>4. /\ \A s, status : Answered(s, status)' => Answered(s, status)
      /\ \A s : [op |-> "insert", signal |-> s] \in tasks' =>
           [op |-> "insert", signal |-> s] \in tasks \/ s = next
  <2>1. \A s : [op |-> "insert", signal |-> s] = task => s = next
    OBVIOUS
  <2>2. \A s, status : Finish(s, status) # task
    BY DEF Finish
  <2> HIDE DEF task
  <2>. QED
    BY <1>2, <2>1, <2>2 DEF Answered
<1> HIDE DEF next, task
<1>5. Coming(next)
  BY <1>3 DEF Coming
<1>6. \A s : Coming(s)' => Coming(s)
  <2>1. W' = W /\ pc' = pc
    BY <1>2 DEF actors, W
  <2>. QED
    BY <1>2, <1>3, <2>1 DEF Coming
<1>7. \A i, j \in DOMAIN channel' : channel'[i] = channel'[j] /\ channel'[i] \in Buys => i = j
  <2> SUFFICES ASSUME NEW i \in DOMAIN channel', NEW j \in DOMAIN channel',
                      channel'[i] = channel'[j], channel'[i] \in Buys
               PROVE  i = j
    OBVIOUS
  <2>1. i + 1 = j + 1 /\ i \in Nat /\ j \in Nat
    BY <1>1, <1>3 DEF ComesOnce
  <2>. QED
    BY <2>1
<1>8. \A i \in DOMAIN channel' : channel'[i] \in Buys => consuming' # channel'[i]
  BY <1>1, <1>2, <1>3 DEF ComesOnce
<1>9. next \in sentBuys \cup sentSells
  BY <1>1, <1>3 DEF Waits
<1>10. \A i \in DOMAIN channel' : \E j \in DOMAIN channel : channel'[i] = channel[j]
  BY <1>3
<1>. QED
  BY <1>2, <1>4, <1>5, <1>6, <1>7, <1>8, <1>9, <1>10, TradeSideExit

\* What is being processed gets its answer.
LEMMA AnswerExit ==
  ASSUME ExitInv, SentOnceInv', NEW status \in Final, NEW more,
         consuming # None, Answer(status, more),
         \A s, other : Finish(s, other) \notin more,
         \A s : [op |-> "insert", signal |-> s] \notin more,
         \/ runtime' = runtime
         \/ runtime' = None
         \/ runtime' = consuming /\ consuming \in Buys /\ status = "executed",
         consuming \in Sells /\ status = "executed" => runtime' = None
  PROVE  ExitInv'
<1>1. /\ Typed /\ Lanes /\ Waits /\ ComesOnce /\ Owned /\ ExitsPassed /\ BuysPassed
  BY DEF ExitInv, SentOnceInv
<1>2. /\ consuming' = None /\ channel' = channel /\ rows' = rows
      /\ tasks' = tasks \cup {Finish(consuming, status)} \cup more
      /\ UNCHANGED <<candidate, blacklisted, actors, bar, overdue, history>>
  BY DEF Answer, TradeFrame
<1>3. W' = W /\ pc' = pc
  BY <1>2 DEF actors, W
<1>4. \A s \in Signals : Coming(s)' => Coming(s)
  BY <1>2, <1>3, NoneAssumption DEF Coming
<1>5. \A s \in Buys : s = consuming => ~Coming(s)' /\ runtime # s
  <2> SUFFICES ASSUME NEW s \in Buys, s = consuming PROVE ~Coming(s)' /\ runtime # s
    OBVIOUS
  <2>1. \A i \in DOMAIN channel : channel[i] # s
    BY <1>1 DEF ComesOnce
  <2>2. s \in sentBuys
    BY <1>1, SidesApart DEF Waits, Typed, TypeOK
  <2>3. ~(pc["watching"] = "publish" /\ W.buySignalId = s)
    BY <1>1, <2>2 DEF BuysPassed, InFlight
  <2>4. runtime # s
    BY <1>1 DEF ComesOnce, Coming
  <2>. QED
    BY <1>2, <1>3, <2>1, <2>3, <2>4, SidesApart DEF Coming
<1>6. \A s, other : Answered(s, other)' =>
        Answered(s, other) \/ (s = consuming /\ other = status)
  <2>1. \A s, other : Finish(s, other) = Finish(consuming, status) =>
          s = consuming /\ other = status
    BY DEF Finish
  <2>2. \A s, other : Finish(s, other) \in tasks' =>
          Finish(s, other) \in tasks \/ (s = consuming /\ other = status)
    BY <1>2, <2>1
  <2>. QED
    BY <1>2, <2>2 DEF Answered
<1>7. \A s : [op |-> "insert", signal |-> s] \in tasks' =>
             [op |-> "insert", signal |-> s] \in tasks
  <2>1. \A s : [op |-> "insert", signal |-> s] # Finish(consuming, status)
    BY DEF Finish
  <2>. QED
    BY <1>2, <2>1
<1>8. consuming \in Buys /\ status \in Refused => runtime' # consuming
  BY <1>5, SidesApart DEF Refused
<1>9. \A s \in Signals, other \in Final : Answered(s, other)' =>
           \/ Answered(s, other)
           \/ /\ s = consuming
              /\ s \in Buys => ~Coming(s)' /\ (other \in Refused => runtime' # s)
              /\ s \in Sells /\ other = "executed" => runtime' = None
  BY <1>5, <1>6, <1>8
<1>10. \A i \in DOMAIN channel' : channel'[i] \in Buys => consuming' # channel'[i]
  BY <1>2, SidesApart
<1>11. \A i, j \in DOMAIN channel' : channel'[i] = channel'[j] /\ channel'[i] \in Buys => i = j
  BY <1>1, <1>2 DEF ComesOnce
<1>. QED
  BY <1>2, <1>4, <1>5, <1>7, <1>9, <1>10, <1>11, TradeSideExit

LEMMA ConsumerExit ==
  ASSUME ExitInv, SentOnceInv', ExecuteBuy \/ ExecuteSell \/ SkipSignal
  PROVE  ExitInv'
<1>1. consuming \in Buys \cup Sells \/ consuming = None
  BY DEF ExitInv, SentOnceInv, Typed, TypeOK, Signals
<1>2. /\ \A buy, op, s, other : op \in {"open", "close"} =>
           Finish(s, other) # [op |-> op, buy |-> buy]
      /\ \A buy, op, s : op \in {"open", "close"} =>
           [op |-> "insert", signal |-> s] # [op |-> op, buy |-> buy]
  BY DEF Finish
<1>3. CASE ExecuteBuy
  <2>1. consuming # None /\ consuming \in Buys /\ consuming \notin Sells
    BY <1>1, <1>3, SidesApart DEF ExecuteBuy
  <2>2. CASE runtime' = consuming /\ Answer("executed", {[op |-> "open", buy |-> consuming]})
    <3> DEFINE more == {[op |-> "open", buy |-> consuming]}
    <3>1. /\ \A s, other : Finish(s, other) \notin more
          /\ \A s : [op |-> "insert", signal |-> s] \notin more
      BY <1>2
    <3> HIDE DEF more
    <3>. QED
      BY <2>1, <2>2, <3>1, AnswerExit DEF Final, more
  <2>3. CASE Answer("failed", {}) /\ UNCHANGED runtime
    BY <2>1, <2>3, AnswerExit DEF Final, Refused
  <2>. QED
    BY <1>3, <2>2, <2>3 DEF ExecuteBuy
<1>4. CASE ExecuteSell
  <2>1. consuming # None /\ consuming \in Sells /\ consuming \notin Buys
    BY <1>1, <1>4, SidesApart DEF ExecuteSell
  <2>2. CASE runtime' = None /\ Answer("executed", {[op |-> "close", buy |-> runtime]})
    <3> DEFINE more == {[op |-> "close", buy |-> runtime]}
    <3>1. /\ \A s, other : Finish(s, other) \notin more
          /\ \A s : [op |-> "insert", signal |-> s] \notin more
      BY <1>2
    <3> HIDE DEF more
    <3>. QED
      BY <2>1, <2>2, <3>1, AnswerExit DEF Final, more
  <2>3. CASE Answer("failed", {}) /\ UNCHANGED runtime
    BY <2>1, <2>3, AnswerExit DEF Final, Refused
  <2>. QED
    BY <1>4, <2>2, <2>3 DEF ExecuteSell
<1>5. CASE SkipSignal
  BY <1>5, AnswerExit DEF SkipSignal, Final, Refused
<1>. QED
  BY <1>3, <1>4, <1>5

LEMMA RowsExit ==
  ASSUME ExitInv, SentOnceInv', ClosePosition \/ \E task \in tasks : WriteRow(task)
  PROVE  ExitInv'
<1>1. /\ Typed /\ ComesOnce /\ Waits
  BY DEF ExitInv, SentOnceInv
<1>2. /\ channel' = channel /\ consuming' = consuming /\ runtime' \in {runtime, None}
      /\ UNCHANGED <<candidate, blacklisted, actors, bar, overdue, history>>
  BY DEF ClosePosition, WriteRow, TradeFrame
<1>3. \A s : Coming(s)' <=> Coming(s)
  BY <1>2 DEF Coming, actors, W
<1>4. /\ DOMAIN rows \subseteq DOMAIN rows'
      /\ \A s : [op |-> "insert", signal |-> s] \in tasks' =>
           [op |-> "insert", signal |-> s] \in tasks
      /\ \A s \in Signals : \A status \in Final : Answered(s, status)' => Answered(s, status)
  <2>1. CASE ClosePosition
    <3>1. rows' = rows /\ tasks' = tasks \cup {[op |-> "close", buy |-> runtime]}
      BY <2>1 DEF ClosePosition
    <3>2. \A s, status : /\ Finish(s, status) # [op |-> "close", buy |-> runtime]
                         /\ [op |-> "insert", signal |-> s] # [op |-> "close", buy |-> runtime]
      BY DEF Finish
    <3>. QED
      BY <3>1, <3>2 DEF Answered
  <2>2. ASSUME NEW task \in tasks, WriteRow(task)
        PROVE  /\ DOMAIN rows \subseteq DOMAIN rows'
               /\ \A s : [op |-> "insert", signal |-> s] \in tasks' =>
                    [op |-> "insert", signal |-> s] \in tasks
               /\ \A s \in Signals : \A status \in Final :
                    Answered(s, status)' => Answered(s, status)
    <3>1. tasks' \subseteq tasks
      BY <2>2 DEF WriteRow
    <3>2. /\ DOMAIN rows \subseteq DOMAIN rows'
          /\ \A s \in DOMAIN rows' : \/ s \in DOMAIN rows /\ rows'[s] = rows[s]
                                     \/ rows'[s] = "accepted"
                                     \/ task = Finish(s, rows'[s])
      <4>1. CASE task.op = "insert"
        BY <2>2, <4>1 DEF WriteRow
      <4>2. CASE task.op = "finish"
        <5>0. task \in Task
          BY <1>1 DEF Typed, TypeOK
        <5>1. task = Finish(task.signal, task.status)
          BY <4>2, <5>0 DEF Task, Finish
        <5>. QED
          BY <2>2, <4>2, <5>1 DEF WriteRow
      <4>3. CASE task.op \in {"open", "close"}
        BY <2>2, <4>3 DEF WriteRow
      <4>. QED
        BY <1>1, <4>1, <4>2, <4>3, TaskKinds DEF Typed, TypeOK
    <3>3. "accepted" \notin Final
      BY DEF Final, Refused
    <3>4. ASSUME NEW s, NEW status \in Final, Answered(s, status)'
          PROVE  Answered(s, status)
      <4>1. CASE Finish(s, status) \in tasks'
        BY <3>1, <4>1 DEF Answered
      <4>2. CASE s \in DOMAIN rows' /\ rows'[s] = status
        BY <3>2, <3>3, <4>2 DEF Answered
      <4>3. Finish(s, status) \in tasks' \/ (s \in DOMAIN rows' /\ rows'[s] = status)
        BY <3>4 DEF Answered, Finish
      <4>. QED
        BY <4>1, <4>2, <4>3
    <3>. QED
      BY <3>1, <3>2, <3>4
  <2>. QED
    BY <2>1, <2>2
<1>5. \A i, j \in DOMAIN channel' : channel'[i] = channel'[j] /\ channel'[i] \in Buys => i = j
  BY <1>1, <1>2 DEF ComesOnce
<1>6. \A i \in DOMAIN channel' : channel'[i] \in Buys => consuming' # channel'[i]
  BY <1>1, <1>2 DEF ComesOnce
<1>7. consuming' # None => consuming' \in sentBuys \cup sentSells
  BY <1>1, <1>2 DEF Waits
<1>. QED
  BY <1>2, <1>3, <1>4, <1>5, <1>6, <1>7, TradeSideExit

\* Time passes when nobody is about to publish.
LEMMA TimeExit ==
  ASSUME ExitInv, SentOnceInv', Steady,
         \/ NewBar \/ UNCHANGED vars
         \/ \E signal \in {Pending(stored)} \ {None} : AckTimeout(signal)
  PROVE  ExitInv'
<1>1. /\ Typed /\ Lanes /\ Waits /\ ComesOnce /\ Owned /\ ExitsPassed
  BY DEF ExitInv, SentOnceInv
<1>2. /\ UNCHANGED <<stored, active, blacklisted, pc, copy, trade, sentBuys, sentSells,
                   exitBars>>
      /\ (NewBar => bar' = bar + 1 /\ overdue' = overdue) /\ (~NewBar => bar' = bar)
  BY DEF NewBar, AckTimeout, vars, candidate, actors, history
<1>3. /\ channel' = channel /\ consuming' = consuming /\ tasks' = tasks /\ rows' = rows
      /\ runtime' = runtime
      /\ W' = W /\ Held' = Held /\ (Monitored' <=> Monitored)
      /\ \A k \in Loops : InPlay(k)' <=> InPlay(k)
      /\ (Busy("watching")' <=> Busy("watching")) /\ (Busy("bought")' <=> Busy("bought"))
      /\ \A s, status : Answered(s, status)' <=> Answered(s, status)
  BY <1>2 DEF trade, W, Held, Monitored, InPlay, Busy, Answered
<1>4. \A s : Coming(s)' <=> Coming(s)
  BY <1>2, <1>3 DEF Coming
<1>5. Lanes'
  BY <1>1, <1>2, <1>3 DEF Lanes
<1>6. ComesOnce'
  <2>1. stored'.buySignalId = stored.buySignalId /\ Held'.buySignalId = Held.buySignalId
    BY <1>2, <1>3
  <2>. QED
    BY <1>1, <1>2, <1>3, <1>4, <2>1 DEF ComesOnce
<1>7. Owned'
  BY <1>1, <1>2, <1>3, <1>4 DEF Owned
<1>8. ExitsPassed'
  <2>1. bar \in Int /\ bar' \in Int /\ bar <= bar' /\ \A t \in exitBars : t \in Int
    BY <1>1, <1>2, SidesApart DEF Typed, TypeOK, Bars
  <2>2. pc["bought"] \in Emitting => bar' = bar
    BY <1>2, SteadyActors, LoopsAct DEF NewBar, TimePasses, Prompt, Emitting
  <2>. QED
    BY <1>1, <1>2, <1>3, <2>1, <2>2 DEF ExitsPassed
<1>9. Waits'
  <2>1. CASE overdue' = overdue
    BY <1>1, <1>2, <1>3, <1>4, <2>1 DEF Waits
  <2>2. ASSUME NEW signal \in {Pending(stored)} \ {None}, AckTimeout(signal)
        PROVE  Waits'
    <3>1. /\ overdue' = overdue \cup {signal} /\ signal \notin DOMAIN rows
          /\ ~OnItsWay(signal) /\ pc["watching"] # "publish"
      BY <2>2, LoopsAct, Zenon DEF AckTimeout, TimePasses, Steady, Fault
    <3>2. ~Coming(signal) /\ [op |-> "insert", signal |-> signal] \notin tasks
      BY <3>1 DEF OnItsWay, Coming
    <3>3. Monitored /\ signal \in Buys => signal \in sentBuys
      <4>1. WellFormed(stored)
        BY <1>1 DEF Typed
      <4>2. CASE stored.status = "bought"
        BY <1>1, <2>2, <3>1, <4>1, <4>2, PendingKind, SidesApart DEF Waits
      <4>3. CASE stored.status = "watching"
        BY <2>2, <4>1, <4>3 DEF WellFormed, Pending
      <4>. QED
        BY <4>2, <4>3 DEF Monitored, Loops
    <3>. QED
      BY <1>1, <1>2, <1>3, <1>4, <3>1, <3>2, <3>3 DEF Waits
  <2>. QED
    BY <2>1, <2>2, Zenon DEF vars, NewBar
<1>. QED
  BY <1>5, <1>6, <1>7, <1>8, <1>9 DEF ExitInv

\* No step takes the monitor out of it, when no publication fails, nothing
\* crashes and the only request is to close the position by hand.
LEMMA ExitNext == Steady /\ ExitInv /\ [Next]_vars => ExitInv'
<1> SUFFICES ASSUME Steady, ExitInv, [Next]_vars PROVE ExitInv'
  OBVIOUS
<1>1. SentOnceInv'
  BY SteadyActors, SentOnceNext DEF ExitInv
<1>2. Actors = Loops
  BY SteadyActors
<1>3. ASSUME NEW l \in Loops, LoopStep(l) PROVE ExitInv'
  <2>1. ~PublishFails(l)
    BY DEF PublishFails, Fault, Steady
  <2>. QED
    BY <1>1, <1>3, <2>1, PollExit, LoadExit, AcquireExit, SaveExit, PublishExit DEF LoopStep
<1>4. CASE WatchingDecision
  BY <1>1, <1>4, WatchingExit
<1>5. CASE BoughtDecision
  BY <1>1, <1>5, BoughtExit, SaveExit, LoopsAct
<1>6. ASSUME NEW a \in Actors, WriterStep(a) PROVE ExitInv'
  <2>1. a \in Loops /\ ~StopBlacklisted(a)
    BY <1>2 DEF ExitInv, Lanes, StopBlacklisted
  <2>. QED
    BY <1>1, <1>6, <2>1, SaveExit, RemoveExit DEF WriterStep
<1>7. CASE TradeStep
  BY <1>1, <1>7, ConsumeExit, ConsumerExit, RowsExit DEF TradeStep
<1>8. CASE ClosePosition
  BY <1>1, <1>8, RowsExit
<1>9. CASE NewBar \/ UNCHANGED vars
           \/ \E signal \in {Pending(stored)} \ {None} : AckTimeout(signal)
  BY <1>1, <1>9, TimeExit
<1>10. ~Request /\ ~Restart
  BY DEF Request, DeleteCandidate, TrimCandidate, UpdateSymbol, BlacklistCandidate,
         Restart, Fault, Steady
<1>. QED
  BY <1>3, <1>4, <1>5, <1>6, <1>7, <1>8, <1>9, <1>10 DEF Next

\* An open position is under watch for its exit: its candidate is in the active
\* set and bought, whatever write to Redis, load of klines or trade fails, whatever
\* message is lost and whenever the position is closed by hand.
THEOREM PositionWatched == Steady => (Spec => []PositionIsMonitored)
<1> SUFFICES ASSUME Steady PROVE Spec => []PositionIsMonitored
  OBVIOUS
<1>1. Init => ExitInv
  BY ExitInit
<1>2. ExitInv /\ [Next]_vars => ExitInv'
  BY ExitNext
<1>3. ExitInv => PositionIsMonitored
  <2> SUFFICES ASSUME ExitInv, runtime # None PROVE active /\ stored.status = "bought"
    BY DEF PositionIsMonitored
  <2>1. runtime \in Buys
    BY DEF ExitInv, SentOnceInv, Typed, TypeOK
  <2>. QED
    BY <2>1 DEF ExitInv, Owned, Lanes, Monitored, Loops
<1>. QED
  BY <1>1, <1>2, <1>3, PTL DEF Spec

\* The candidate is not bought again on the bar of an exit or on an earlier one,
\* under the same conditions.
THEOREM NoReentry == Steady => (Spec => NoReentryOnExitBar)
<1> SUFFICES ASSUME Steady PROVE Spec => NoReentryOnExitBar
  OBVIOUS
<1>1. Init => ExitInv
  BY ExitInit
<1>2. ExitInv /\ [Next]_vars => ExitInv'
  BY ExitNext
<1>3. ExitInv => \A l \in Loops : Publish(l) /\ Pending(copy[l]) \in Buys =>
                   \A b \in exitBars : b < Pending(copy[l]).bar
  <2> SUFFICES ASSUME ExitInv, NEW l \in Loops, Publish(l), Pending(copy[l]) \in Buys,
                      NEW b \in exitBars
               PROVE  b < Pending(copy[l]).bar
    OBVIOUS
  <2>1. Typed /\ ExitsPassed
    BY DEF ExitInv, SentOnceInv
  <2>2. pc[l] \in Emitting
    BY DEF Publish, Emitting
  <2>3. l = "watching" /\ Pending(copy[l]) = W.buySignalId
    BY <2>1, <2>2, SendingHand, SidesApart DEF Loops
  <2>. QED
    BY <2>1, <2>2, <2>3 DEF ExitsPassed
<1>4. ExitInv /\ [Next]_vars =>
        [\A l \in Loops : Publish(l) /\ Pending(copy[l]) \in Buys =>
           \A b \in exitBars : b < Pending(copy[l]).bar]_vars
  BY <1>3
<1>. QED
  BY <1>1, <1>2, <1>4, PTL DEF Spec, NoReentryOnExitBar

=============================================================================

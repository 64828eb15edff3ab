---------------------------- MODULE PositionLedger ----------------------------
(***************************************************************************)
(* What the trade service promises about one account: each token runs      *)
(* through flat -> buying -> open -> selling -> flat, a purchase that      *)
(* fails goes back to flat, a sale that fails goes back to open with the   *)
(* same position, and every purchase that succeeds opens a new position.   *)
(* Hence a token never has two open positions, and none is sold twice.     *)
(***************************************************************************)
EXTENDS Naturals

CONSTANTS Tokens, Position, None

VARIABLES
  phase,     \* token -> "flat", "buying", "open" or "selling"
  position,  \* token -> its position while open or selling, else None
  used       \* ids of the positions opened so far

ledger == <<phase, position, used>>

Init ==
  /\ phase = [t \in Tokens |-> "flat"]
  /\ position = [t \in Tokens |-> None]
  /\ used = {}

Move(t, from, to) ==
  /\ phase[t] = from
  /\ phase' = [phase EXCEPT ![t] = to]

BeginBuy(t) == Move(t, "flat", "buying") /\ UNCHANGED <<position, used>>

BuyAborted(t) == Move(t, "buying", "flat") /\ UNCHANGED <<position, used>>

BuyDone(t, p) ==
  /\ Move(t, "buying", "open")
  /\ p.token = t /\ p.id \notin used
  /\ position' = [position EXCEPT ![t] = p]
  /\ used' = used \cup {p.id}

BeginSell(t) == Move(t, "open", "selling") /\ UNCHANGED <<position, used>>

SellAborted(t) == Move(t, "selling", "open") /\ UNCHANGED <<position, used>>

SellDone(t) ==
  /\ Move(t, "selling", "flat")
  /\ position' = [position EXCEPT ![t] = None]
  /\ UNCHANGED used

Next ==
  \E t \in Tokens :
    \/ BeginBuy(t) \/ BuyAborted(t) \/ (\E p \in Position : BuyDone(t, p))
    \/ BeginSell(t) \/ SellAborted(t) \/ SellDone(t)

Spec == Init /\ [][Next]_ledger
=============================================================================

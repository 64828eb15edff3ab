---------------------------- MODULE MCTradeService ----------------------------
(***************************************************************************)
(* TradeService on small instances.  The configurations differ in the      *)
(* faults they admit, in the number of tokens and handlers, and in whether *)
(* price sync runs.                                                        *)
(***************************************************************************)
EXTENDS TradeService, TLC

\* Handlers run the same code and tokens are only compared for equality.
Symmetric == Permutations(Handlers) \cup Permutations(Tokens)
=============================================================================

-------------------------- MODULE MCTradeAttempts --------------------------
(* TLC instances of TradeAttempts.  Requests are interchangeable and trades *)
(* are not (their execution path is fixed), but no symmetry is declared:    *)
(* the main run also checks liveness, where a symmetry set is unsound.      *)
EXTENDS TradeAttempts, TLC
=============================================================================

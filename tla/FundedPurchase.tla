--------------------------- MODULE FundedPurchase ---------------------------
(***************************************************************************)
(* What settled trade funding promises its owner: the money buys once or   *)
(* comes back, never both, and it does not come back while a purchase may  *)
(* still happen.  An attempt that certainly bought nothing gives the money *)
(* back or leaves it for another attempt.                                  *)
(***************************************************************************)
CONSTANTS Trades, NoTrade

VARIABLES
  money,  \* held, trying, spent or returned
  trade   \* the purchase that is tried or was made

Init == money = "held" /\ trade = NoTrade

Try(k) ==
  /\ money = "held"
  /\ money' = "trying"
  /\ trade' = k

Buy ==
  /\ money = "trying"
  /\ money' = "spent"
  /\ trade' = trade

Fail ==
  /\ money = "trying"
  /\ money' \in {"held", "returned"}
  /\ trade' = NoTrade

Return ==
  /\ money = "held"
  /\ money' = "returned"
  /\ trade' = NoTrade

Next == (\E k \in Trades : Try(k)) \/ Buy \/ Fail \/ Return

Spec == Init /\ [][Next]_<<money, trade>>
=============================================================================

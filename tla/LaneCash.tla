------------------------------ MODULE LaneCash ------------------------------
(***************************************************************************)
(* What a funding operation promises about the cash of its source lanes:   *)
(* a transfer may be tried while the cash is held, may fail and be tried   *)
(* again, and succeeds once; the lanes that hold cash may get it back      *)
(* together, and cash that was given back is never moved afterwards.       *)
(***************************************************************************)
CONSTANT Lanes

VARIABLE cash  \* per lane: held, moving, spent or returned

Init == cash = [l \in Lanes |-> "held"]

Change(l, from, to) ==
  /\ cash[l] = from
  /\ cash' = [cash EXCEPT ![l] = to]

Move(l) == Change(l, "held", "moving")
Land(l) == Change(l, "moving", "spent")
Fail(l) == Change(l, "moving", "held")

\* One decision may give back several lanes.
Return ==
  \E S \in SUBSET {l \in Lanes : cash[l] = "held"} :
    cash' = [l \in Lanes |-> IF l \in S THEN "returned" ELSE cash[l]]

Next == (\E l \in Lanes : Move(l) \/ Land(l) \/ Fail(l)) \/ Return

Spec == Init /\ [][Next]_cash
=============================================================================

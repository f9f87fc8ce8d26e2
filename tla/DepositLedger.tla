--------------------------- MODULE DepositLedger ---------------------------
(***************************************************************************)
(* What the canonical event table promises about every transfer that       *)
(* reaches a receive address: one verdict, given once and for ever.  It is *)
(* a deposit credited to one session, a transfer of the program's own, or  *)
(* held back because nobody can tell; what a provider delivered for an     *)
(* operation is never credited as a deposit.                               *)
(***************************************************************************)
CONSTANTS Events, Deliveries, Sessions, NoSession

VARIABLE entry   \* entry[e]: the verdict, and the session of a credit

Undecided == [verdict |-> "open", session |-> NoSession]

Verdict(e) ==
  {Undecided}
    \cup [verdict : {"internal", "held"}, session : {NoSession}]
    \cup (IF e \in Deliveries THEN {}
          ELSE [verdict : {"credited"}, session : Sessions])

Init == entry = [e \in Events |-> Undecided]

\* One poll decides several transfers at once.
Decide ==
  LET old == entry
      new == entry'
  IN  /\ DOMAIN new = Events
      /\ \A e \in Events : \/ new[e] = old[e]
                           \/ old[e] = Undecided /\ new[e] \in Verdict(e)

Spec == Init /\ [][Decide]_entry
=============================================================================

------------------------- MODULE DepositConversion -------------------------
(***************************************************************************)
(* What the router promises about a deposit it converts: the deposit is    *)
(* moved by one child operation at most, the one it is bound to.  It goes  *)
(* back to review only if that child did not move it, and from then on the *)
(* child never can; a deposit that is given up is not bound again.         *)
(***************************************************************************)
CONSTANTS Receipts, Children, NoChild

VARIABLES
  bound,   \* bound[r]: the child deposit r is bound to
  phase,   \* held, converting, converted or stopped
  moved    \* children whose transfer took the deposit

vars == <<bound, phase, moved>>

Init ==
  /\ bound = [r \in Receipts |-> NoChild]
  /\ phase = [r \in Receipts |-> "held"]
  /\ moved = {}

Begin(r, c) ==
  /\ phase[r] = "held"
  /\ c \notin moved
  /\ \A o \in Receipts : bound[o] # c
  /\ bound' = [bound EXCEPT ![r] = c]
  /\ phase' = [phase EXCEPT ![r] = "converting"]
  /\ UNCHANGED moved

Move(r) ==
  /\ phase[r] \in {"converting", "stopped"}
  /\ bound[r] # NoChild
  /\ moved' = moved \cup {bound[r]}
  /\ UNCHANGED <<bound, phase>>

Return(r) ==
  /\ phase[r] = "converting"
  /\ bound[r] \notin moved
  /\ bound' = [bound EXCEPT ![r] = NoChild]
  /\ phase' = [phase EXCEPT ![r] = "held"]
  /\ UNCHANGED moved

Deliver(r) ==
  /\ phase[r] = "converting"
  /\ bound[r] \in moved
  /\ phase' = [phase EXCEPT ![r] = "converted"]
  /\ UNCHANGED <<bound, moved>>

Stop(r) ==
  /\ phase[r] \in {"held", "converting"}
  /\ phase' = [phase EXCEPT ![r] = "stopped"]
  /\ UNCHANGED <<bound, moved>>

Next ==
  \E r \in Receipts :
    \/ \E c \in Children : Begin(r, c)
    \/ Move(r) \/ Return(r) \/ Deliver(r) \/ Stop(r)

Spec == Init /\ [][Next]_vars
=============================================================================

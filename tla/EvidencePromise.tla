--------------------------- MODULE EvidencePromise ---------------------------
(***************************************************************************)
(* What the reconciliation queue promises of evidence that was recorded    *)
(* with a wake: it is owed a reduction; a job retires only when nothing is *)
(* owed; what is owed is reduced at last, unless the work on the operation *)
(* is stopped and its incident published.  A stopped or retired job may be *)
(* revived.  ReconciliationJobs implements this specification.             *)
(***************************************************************************)
CONSTANT Operations

VARIABLES
  owes,    \* loud evidence that no reduction has consumed
  phase    \* working: scheduled or leased; retired: completed; stopped

vars == <<owes, phase>>

TypeOK ==
  /\ owes \in [Operations -> BOOLEAN]
  /\ phase \in [Operations -> {"working", "retired", "stopped"}]

Init ==
  /\ owes = [o \in Operations |-> FALSE]
  /\ phase = [o \in Operations |-> "working"]

\* Recording evidence puts the job back to work, whatever it was doing.
Record(o) ==
  /\ owes' = [owes EXCEPT ![o] = TRUE]
  /\ phase' = [phase EXCEPT ![o] = "working"]

\* A reduction, by the holder of the lease or by a stale pass.
Handle(o) ==
  /\ owes[o]
  /\ owes' = [owes EXCEPT ![o] = FALSE]
  /\ UNCHANGED phase

Retire(o) ==
  /\ phase[o] = "working" /\ ~owes[o]
  /\ phase' = [phase EXCEPT ![o] = "retired"]
  /\ UNCHANGED owes

\* Publishing the incident may settle what was owed.
Stop(o) ==
  /\ phase[o] = "working"
  /\ phase' = [phase EXCEPT ![o] = "stopped"]
  /\ owes' \in {owes, [owes EXCEPT ![o] = FALSE]}

Revive(o) ==
  /\ phase[o] # "working"
  /\ phase' = [phase EXCEPT ![o] = "working"]
  /\ UNCHANGED owes

Next == \E o \in Operations :
          Record(o) \/ Handle(o) \/ Retire(o) \/ Stop(o) \/ Revive(o)

Spec == Init /\ [][Next]_vars

FairSpec ==
  /\ Spec
  /\ \A o \in Operations :
       WF_vars((Handle(o) \/ Stop(o)) /\ owes[o] /\ phase[o] = "working")
=============================================================================

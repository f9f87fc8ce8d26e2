------------------------- MODULE DelegatedExecutor -------------------------
(***************************************************************************)
(* The executor that converts the deposits of Telegram sessions without    *)
(* the user: workers claim the step of a child operation, record in the    *)
(* database that a broadcast may happen, and only then call the provider   *)
(* of the wallet, which takes the attempt as its idempotency key.  A       *)
(* worker may die anywhere; another one takes the attempt over once its    *)
(* row has not been touched for a while.  Composed here with the router    *)
(* and the user of module ReceiptRouting.                                  *)
(***************************************************************************)
EXTENDS ReceiptRouting

CONSTANTS
  Executors,   \* executor workers
  SlowCalls    \* may the call of a worker outlive the replay interval?

ASSUME SlowCallsAssumption == SlowCalls \in BOOLEAN

VARIABLES
  exec,    \* what an executor worker is doing (volatile)
  lapsed   \* children whose attempt was not touched for its retry interval

vars == <<receipt, delegated, owner, life, wire, seen, exec, lapsed>>

-----------------------------------------------------------------------------
Free == [child |-> NoChild, doing |-> "idle", answer |-> "none"]

Holding(c, doing) == [child |-> c, doing |-> doing, answer |-> "none"]

TypeOK ==
  /\ RoutingTypeOK
  /\ exec \in [Executors ->
       [child : Children \cup {NoChild},
        doing : {"idle", "claimed", "execute", "replay", "answered"},
        answer : {"none", "transaction", "not_broadcast"}]]
  /\ lapsed \subseteq Children

Init ==
  /\ RoutingInit
  /\ exec = [w \in Executors |-> Free]
  /\ lapsed = {}

ByExecutor(c) == owner[c] \in delegated

Routing(c) == receipt[owner[c]].status = "routing" /\ receipt[owner[c]].child = c

\* The life of the child of a worker moves on, and with it its attempt row.
Writes(c, to) ==
  /\ life' = [life EXCEPT ![c] = to]
  /\ lapsed' = lapsed \ {c}
  /\ UNCHANGED <<receipt, delegated, owner, seen>>

\* A worker is in the middle of its call to the provider.
Calling(c) == \E w \in Executors : exec[w].child = c /\ exec[w].doing # "claimed"

-----------------------------------------------------------------------------
(* Claims.                                                                 *)

\* The first attempt of a step, for a receipt that is still bound to it.
ClaimAttempt(w, c) ==
  /\ exec[w] = Free
  /\ ByExecutor(c) /\ life[c] = "planned" /\ Routing(c)
  /\ Writes(c, "started")
  /\ exec' = [exec EXCEPT ![w] = Holding(c, "claimed")]
  /\ UNCHANGED wire

\* A step without authority gets an attempt that failed, in one transaction.
RejectAttempt(c) ==
  /\ ByExecutor(c) /\ life[c] = "planned"
  /\ Writes(c, "failed")
  /\ UNCHANGED <<wire, exec>>

\* mutant: once a broadcast is on record the attempt is left to the lookup.
RecoverStarted(w, c) ==
  /\ exec[w] = Free
  /\ ByExecutor(c) /\ c \in lapsed /\ life[c] = "started" /\ Routing(c)
  /\ lapsed' = lapsed \ {c}
  /\ exec' = [exec EXCEPT ![w] = Holding(c, "claimed")]
  /\ UNCHANGED routingVars

\* mutant: a recovered attempt is executed like a new one.
RecoverAsNew(w, c) ==
  /\ exec[w] = Free
  /\ ByExecutor(c) /\ c \in lapsed
  /\ \/ life[c] = "started" /\ Routing(c)
     \/ life[c] = "ambiguous"
  /\ lapsed' = lapsed \ {c}
  /\ exec' = [exec EXCEPT ![w] =
       Holding(c, IF life[c] = "started" THEN "claimed" ELSE "execute")]
  /\ UNCHANGED routingVars

\* The attempt is taken over by a compare-and-set on its time of change.
Recover(w, c) ==
  /\ exec[w] = Free
  /\ ByExecutor(c) /\ c \in lapsed
  /\ \/ life[c] = "started" /\ Routing(c)
     \/ life[c] = "ambiguous"
  /\ lapsed' = lapsed \ {c}
  /\ exec' = [exec EXCEPT ![w] =
       Holding(c, IF life[c] = "started" THEN "claimed" ELSE "replay")]
  /\ UNCHANGED routingVars

\* Fifteen seconds for an attempt that is not on record as broadcast, five
\* minutes for one that is: longer than a call takes unless SlowCalls.
Lapse(c) ==
  /\ ByExecutor(c) /\ c \notin lapsed
  /\ \/ life[c] = "started"
     \/ life[c] = "ambiguous" /\ (SlowCalls \/ ~Calling(c))
  /\ lapsed' = lapsed \cup {c}
  /\ UNCHANGED <<routingVars, exec>>

-----------------------------------------------------------------------------
(* The boundary and the call.                                              *)

\* All checks hold again and the possible broadcast is committed.
Cross(w) ==
  LET c == exec[w].child IN
  /\ exec[w].doing = "claimed"
  /\ life[c] = "started"
  /\ Writes(c, "ambiguous")
  /\ exec' = [exec EXCEPT ![w] = Holding(c, "execute")]
  /\ UNCHANGED wire

\* A check fails for good.  If another worker was faster the checks fail too,
\* but then the attempt cannot be closed and the batch ends.
Void(w) ==
  LET c == exec[w].child IN
  /\ exec[w].doing = "claimed"
  /\ exec' = [exec EXCEPT ![w] = Free]
  /\ IF life[c] = "started" THEN Writes(c, "failed")
     ELSE UNCHANGED <<receipt, delegated, owner, life, seen, lapsed>>
  /\ UNCHANGED wire

\* The provider inspects the signer of the wallet first: an invalid one proves
\* for a first call only that nothing was sent.
Inspect(w) ==
  /\ exec[w].doing \in {"execute", "replay"}
  /\ exec' = [exec EXCEPT ![w] =
       IF exec[w].doing = "execute"
       THEN [@ EXCEPT !.doing = "answered", !.answer = "not_broadcast"] ELSE Free]
  /\ UNCHANGED <<routingVars, lapsed>>

\* The provider knows the idempotency key or sends, and answers.
Call(w) ==
  LET c == exec[w].child IN
  /\ exec[w].doing \in {"execute", "replay"}
  /\ wire' = [wire EXCEPT ![c] = IF @ = "none" THEN "pending" ELSE @]
  /\ exec' = [exec EXCEPT ![w].doing = "answered", ![w].answer = "transaction"]
  /\ UNCHANGED <<receipt, delegated, owner, life, seen, lapsed>>

\* The answer is stored if the attempt still waits for it.
Resolve(w) ==
  LET c == exec[w].child IN
  /\ exec[w].doing = "answered"
  /\ exec' = [exec EXCEPT ![w] = Free]
  /\ IF life[c] = "ambiguous"
     THEN Writes(c, IF exec[w].answer = "transaction" THEN "sent" ELSE "failed")
     ELSE UNCHANGED <<receipt, delegated, owner, life, seen, lapsed>>
  /\ UNCHANGED wire

\* A pause of the control plane, an answer that does not arrive or names no
\* transaction yet, the end of the process.
Drop(w) ==
  /\ exec[w] # Free
  /\ exec' = [exec EXCEPT ![w] = Free]
  /\ UNCHANGED <<routingVars, lapsed>>

\* Every batch begins by asking the provider for the attempts on record.
LookupReference(c) ==
  /\ ByExecutor(c) /\ life[c] = "ambiguous" /\ wire[c] # "none"
  /\ Writes(c, "sent")
  /\ UNCHANGED <<wire, exec>>

-----------------------------------------------------------------------------
Routed(A) == A /\ UNCHANGED <<exec, lapsed>>

Next ==
  \/ Routed(RoutingNext)
  \/ \E c \in Children : \/ RejectAttempt(c) \/ Lapse(c) \/ LookupReference(c)
                         \/ \E w \in Executors : ClaimAttempt(w, c) \/ Recover(w, c)
  \/ \E w \in Executors : \/ Cross(w) \/ Void(w) \/ Inspect(w) \/ Call(w)
                          \/ Resolve(w) \/ Drop(w)

Spec == Init /\ [][Next]_vars

\* Executor batches are started for ever and each gets through some time; the
\* control plane and the provider do not refuse for ever.  Nothing is assumed of
\* the router, of the user, of the chain, of the sweep or of what ends a process.
Fairness ==
  /\ WF_vars(\E w \in Executors : Drop(w))
  /\ SF_vars(\E w \in Executors : Cross(w))
  /\ SF_vars(\E w \in Executors : Call(w))
  /\ \A c \in Children :
       /\ WF_vars(Lapse(c)) /\ WF_vars(LookupReference(c))
       /\ WF_vars(\E w \in Executors : Recover(w, c))

FairSpec == Spec /\ Fairness

-----------------------------------------------------------------------------
(* Properties.                                                             *)

\* A transfer that the wallet or the provider may have sent is on record: its
\* child is never one the system takes for untouched or failed, whichever of
\* the workers that took the attempt over dies, pauses or answers late.
CalledIsOnRecord ==
  \A c \in Children :
    wire[c] # "none" =>
      life[c] \notin {"free", "planned", "failed", "cancelled"}
                        \cup (IF ByExecutor(c) THEN {"started"} ELSE {})

\* The router and the executor convert every deposit once: a deposit whose
\* child may still move it is not bound to another one.
Phase(r) ==
  CASE receipt[r].status \in {"observed", "review"} -> "held"
    [] receipt[r].status = "routing" -> "converting"
    [] receipt[r].status = "ready" -> "converted"
    [] receipt[r].status = "recovery" -> "stopped"

Bound == [r \in Receipts |-> receipt[r].child]
Phases == [r \in Receipts |-> Phase(r)]
Moved == {c \in Children : wire[c] = "landed"}

Conversion == INSTANCE DepositConversion WITH
  bound <- Bound, phase <- Phases, moved <- Moved

ImplementsConversion == Conversion!Spec

\* A receipt is detached only from a child that sent nothing.  (The code does
\* not keep this: the flags of the list may be older than the life that is
\* read, and a child that was sent and reverted in between is taken for one
\* that failed before its broadcast.)
DetachedIsUnsent ==
  \A c \in Children :
    wire[c] # "none" => receipt[owner[c]].child = c

\* What it does keep: a transfer that is on its way, or has taken the deposit,
\* is that of the child its receipt is bound to.  A receipt that is reviewed or
\* converted again is never moved by a child it had before, however late that
\* child's client, worker or chain is.
LiveTransferIsBound ==
  \A c \in Children :
    wire[c] \in {"pending", "landed"} => receipt[owner[c]].child = c

\* A receipt that cannot be converted is given up or reviewed in the end: the
\* tries exceed their limit at most by the passes that work on it at the same
\* time, each of which may have listed it before the others counted theirs.
TriesAreLimited ==
  \A r \in Receipts : receipt[r].tries < MaxTries + Cardinality(Routers)

\* An attempt the executor has begun gets an outcome, though any worker may
\* die between the record of the broadcast and the answer of the provider.
AttemptIsDecided ==
  \A c \in Children :
    (ByExecutor(c) /\ life[c] \in {"started", "ambiguous"})
      ~> life[c] \notin {"started", "ambiguous"}
=============================================================================

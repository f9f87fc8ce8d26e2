---------------------------- MODULE SourceLanes ----------------------------
(***************************************************************************)
(* The source side of one funding operation: its route legs ("lanes"), the *)
(* subtract_available reservation that holds the cash of each, and the     *)
(* attempts (funding_operation_step_attempts) that move it.  Every lane    *)
(* has one money-moving action with a deadline, depends on no other, and   *)
(* is driven by one of four submission protocols:                          *)
(*   embedded  the server posts it to Privy (embeddedSubmission lease);    *)
(*   safe      the server posts it to the relayer (safeSubmission lease);  *)
(*   solana    the browser registers a signed transaction, then sends it   *)
(*             (solanaPreparation lease);                                  *)
(*   client    the browser's wallet sends it and reports (no lease).       *)
(* Every transaction below locks the operation row first, so each is one   *)
(* step.  The trade a route may pay for is module TradeAttempts' subject:  *)
(* the operations here have no consumer and no receive session, and no     *)
(* delegated executor.  Finality is final: a receipt does not reorg.       *)
(***************************************************************************)
EXTENDS Naturals

CONSTANTS
  Lanes,        \* route legs of the operation
  Protocols,    \* submission protocols the plan may give to a lane
  Requests,     \* running submission requests of the server
  NoLane,
  MaxAttempts   \* bound: attempts started per lane

AllProtocols == {"embedded", "safe", "solana", "client"}
ServerOwned == {"embedded", "safe"}

ASSUME ProtocolAssumption == Protocols \subseteq AllProtocols
ASSUME LaneAssumption == NoLane \notin Lanes
ASSUME AttemptAssumption == MaxAttempts \in Nat \ {0}

\* Attempt numbers; the last one is only ever a recorded cancellation.
Numbers == 1..(MaxAttempts + 1)

VARIABLES
  protocol,     \* the protocol of each lane, fixed by the committed plan
  clock,        \* per lane: which of action_expires_at and expires_at passed
  attempts,     \* per lane and number: the attempt row
  reservation,  \* per lane: balance_reservations.state
  moved,        \* per lane: a finalized debit or credit was observed
  manual,       \* support_metadata.lifecycleManualRecovery
  request,      \* the server's running submission requests (volatile)
  wallet,       \* per lane: what the browser does with the latest attempt
  posts,        \* per lane and attempt: times it was sent
  fate          \* per lane and attempt: what became of what was sent

vars == <<protocol, clock, attempts, reservation, moved, manual, request,
          wallet, posts, fate>>
rows == <<attempts, reservation, moved, manual>>
chain == <<posts, fate>>

-----------------------------------------------------------------------------
Outcomes == {"none", "started", "submitted", "ambiguous", "failed",
             "cancelled"}

\* lease: the preparation lease is live.  reference: nothing, the provider's
\* own handle (provider_receipt), or one the receipt poll can look up on chain
\* (transaction, signature, the Safe hash).  receipt: decided receipts only.
Row == [outcome : Outcomes, lease : BOOLEAN,
        reference : {"none", "handle", "chain"},
        receipt : {"none", "failed", "finalized"}]

NoAttempt == [outcome |-> "none", lease |-> FALSE, reference |-> "none",
              receipt |-> "none"]
Started == [NoAttempt EXCEPT !.outcome = "started", !.lease = TRUE]
Cancelled == [NoAttempt EXCEPT !.outcome = "cancelled"]

IdleRequest == [pc |-> "idle", lane |-> NoLane, attempt |-> 1]

TypeOK ==
  /\ protocol \in [Lanes -> Protocols]
  /\ clock \in [Lanes -> {"open", "action_expired", "expired"}]
  /\ attempts \in [Lanes -> [Numbers -> Row]]
  /\ reservation \in [Lanes -> {"active", "released"}]
  /\ moved \in [Lanes -> BOOLEAN]
  /\ manual \in BOOLEAN
  /\ request \in [Requests -> [pc : {"idle", "admitted", "posted"},
                               lane : Lanes \cup {NoLane}, attempt : Numbers]]
  /\ \A r \in Requests : request[r].pc # "idle" => request[r].lane \in Lanes
  /\ wallet \in [Lanes -> {"idle", "prompt", "acked", "sent", "declined",
                           "lapsed"}]
  /\ posts \in [Lanes -> [Numbers -> Nat]]
  /\ fate \in [Lanes -> [Numbers -> {"absent", "sent", "landed", "reverted",
                                     "dropped"}]]

Init ==
  /\ protocol \in [Lanes -> Protocols]
  /\ clock = [l \in Lanes |-> "open"]
  /\ attempts = [l \in Lanes |-> [n \in Numbers |-> NoAttempt]]
  /\ reservation = [l \in Lanes |-> "active"]
  /\ moved = [l \in Lanes |-> FALSE]
  /\ manual = FALSE
  /\ request = [r \in Requests |-> IdleRequest]
  /\ wallet = [l \in Lanes |-> "idle"]
  /\ posts = [l \in Lanes |-> [n \in Numbers |-> 0]]
  /\ fate = [l \in Lanes |-> [n \in Numbers |-> "absent"]]

-----------------------------------------------------------------------------
(* The lifecycle projector, over the attempt rows `at' of a lane or `all'   *)
(* of every lane.                                                           *)

Made(at) == {n \in Numbers : at[n].outcome # "none"}
Latest(at) == {n \in Made(at) : \A m \in Made(at) : m <= n}
Free(at) == {n \in Numbers : \A m \in Numbers : m \in Made(at) <=> m < n}

\* An attempt that may have been broadcast and is not decided by a receipt.
Pending(row) ==
  row.outcome \in {"submitted", "ambiguous"} /\ row.receipt = "none"
Unresolved(at) == \E n \in Numbers : Pending(at[n])

MovedMoney(at) == \E n \in Numbers : at[n].receipt = "finalized"
Succeeded(at) == \E n \in Latest(at) : at[n].receipt = "finalized"
Conflicting(at) == MovedMoney(at) /\ ~Succeeded(at)

\* Execution cancelled or final_failure: nothing will retry the action.
Stopped(at) ==
  \E n \in Latest(at) : /\ at[n].outcome \in {"failed", "cancelled"}
                        /\ at[n].receipt = "none"
Reporting(at) == \E n \in Latest(at) : at[n].outcome = "started"

\* Not started, or the last attempt is proven not to have executed: the
\* states planned and action_required.
Retryable(at) ==
  /\ \A n \in Latest(at) : at[n].receipt = "failed"
  /\ ~Unresolved(at) /\ ~MovedMoney(at)

\* The states failed and cancelled of releaseUnusedStoppedStepReservations.
StoppedLane(at) ==
  /\ Stopped(at)
  /\ \/ \E n \in Latest(at) : at[n].outcome = "cancelled"
     \/ ~Unresolved(at) /\ ~MovedMoney(at)

HasStopped(all) == \E l \in Lanes : Stopped(all[l])

\* mutant: only the lane's own state decides.
ActionableAlone(all, l) == clock[l] = "open" /\ Retryable(all[l]) /\ ~manual

Actionable(all, l) ==
  /\ clock[l] = "open"
  /\ Retryable(all[l])
  /\ ~HasStopped(all)
  /\ ~manual

Uncertain(all) ==
  \E l \in Lanes : Unresolved(all[l]) \/ Conflicting(all[l])

\* A Safe handoff only reaches the owner's own wallet.
ExternalEffect(all, mv) ==
  \E l \in Lanes : \/ Unresolved(all[l])
                   \/ MovedMoney(all[l]) /\ protocol[l] # "safe"
                   \/ mv[l]

\* Every deadline passed and every attempt is proven not to have executed.
RanOut(all, mv) ==
  /\ \A l \in Lanes : ~mv[l] /\ clock[l] # "open"
  /\ \E l \in Lanes : \E n \in Numbers : all[l][n].receipt = "failed"
  /\ \A l \in Lanes : \A n \in Made(all[l]) :
       \/ all[l][n].receipt = "failed"
       \/ all[l][n].outcome = "failed" /\ all[l][n].reference = "none"

Underway(all, mv) ==
  \/ \E l \in Lanes : mv[l]
  \/ /\ \A l \in Lanes : ~Reporting(all[l])
     /\ \E l \in Lanes : \/ MovedMoney(all[l])
                         \/ Retryable(all[l]) /\ clock[l] = "open"

Ended(all) == \E l \in Lanes : StoppedLane(all[l])

\* deriveFundingLifecycle's status, as far as it decides over reservations:
\* "stopped" is its terminal failed or cancelled, "underway" its other states.
\* The plan starts in_progress; evidence timeouts are left out, they release
\* nothing that ReleaseExpiredUnused does not.
Status(all, mv, man) ==
  IF Uncertain(all)
  THEN IF \/ man \/ Ended(all)
          \/ \E l \in Lanes : clock[l] # "open" /\ Unresolved(all[l])
       THEN "recovery_required" ELSE "reconcile_required"
  ELSE CASE man -> "recovery_required"
         [] ~man /\ Ended(all) ->
              IF ExternalEffect(all, mv) THEN "recovery_required"
              ELSE "stopped"
         [] ~man /\ ~Ended(all) ->
              IF RanOut(all, mv) THEN "stopped"
              ELSE IF Underway(all, mv) THEN "underway"
              ELSE "recovery_required"

\* fundingReservationHoldSql.
Holds(row) ==
  row.outcome \in {"started", "submitted", "ambiguous"} /\ row.receipt # "failed"
\* mutant: an expired reservation is free whatever its attempts.
HeldUntilExpiry(at, l) == clock[l] # "expired"

Held(at, l) == clock[l] # "expired" \/ \E n \in Numbers : Holds(at[n])

\* mutant: observed movement alone ends no reservation.
FreedByStatus(all, mv, man) ==
  LET status == Status(all, mv, man)
  IN {l \in Lanes : \/ status = "stopped"
                    \/ /\ status = "recovery_required"
                       /\ ~mv[l]
                       /\ StoppedLane(all[l]) \/ ~Held(all[l], l)}

\* The lanes whose reservation a reduction of these facts releases.
Freed(all, mv, man) ==
  LET status == Status(all, mv, man)
  IN {l \in Lanes : \/ mv[l]
                    \/ status = "stopped"
                    \/ /\ status = "recovery_required"
                       /\ StoppedLane(all[l]) \/ ~Held(all[l], l)}

\* reduceFundingOperationInTransaction on the rows a transaction has written.
Reduced(all, mv, man) ==
  reservation' = [l \in Lanes |-> IF l \in Freed(all, mv, man) THEN "released"
                                  ELSE reservation[l]]

SetRow(l, n, row) == attempts' = [attempts EXCEPT ![l][n] = row]
SetFate(l, n, f) == fate' = [fate EXCEPT ![l][n] = f]

-----------------------------------------------------------------------------
(* Starting and submitting an action.                                      *)

\* startFundingStepAttemptForUserInTransaction.
Start(l) ==
  /\ Actionable(attempts, l)
  /\ \E n \in Free(attempts[l]) :
       /\ n <= MaxAttempts
       /\ SetRow(l, n, [Started EXCEPT !.lease = protocol[l] # "client"])
  /\ wallet' = [wallet EXCEPT ![l] =
                  IF protocol[l] \in ServerOwned THEN "idle" ELSE "prompt"]
  /\ UNCHANGED <<protocol, clock, reservation, moved, manual, request, chain>>

\* mutant: the lease decides, whoever used it before.
PreparedAgain(l, row) ==
  row.outcome \in {"started", "ambiguous"} /\ row.lease /\ clock[l] = "open"

Prepared(l, row) == row.outcome = "started" /\ row.lease /\ clock[l] = "open"

\* Admission reads the facts as they were before the attempt it admits.
Without(l, n) == [attempts EXCEPT ![l][n] = NoAttempt]

\* admitEmbedded.. and admitSafeFundingSubmissionInTransaction.  A request
\* for an admitted attempt is a replay: it returns the stored reference, if
\* any, and posts nothing.
Admit(r, l, n) ==
  /\ request[r].pc = "idle"
  /\ protocol[l] \in ServerOwned
  /\ Prepared(l, attempts[l][n])
  /\ Actionable(Without(l, n), l)
  /\ SetRow(l, n, [attempts[l][n] EXCEPT !.outcome = "ambiguous",
                     !.reference = IF protocol[l] = "safe" THEN "chain"
                                   ELSE "none"])
  /\ request' = [request EXCEPT ![r] = [pc |-> "admitted", lane |-> l,
                                        attempt |-> n]]
  /\ UNCHANGED <<protocol, clock, reservation, moved, manual, wallet, chain>>

\* The one call of the provider, outside any transaction.
Post(r) ==
  /\ request[r].pc = "admitted"
  /\ LET l == request[r].lane
         n == request[r].attempt
     IN /\ posts' = [posts EXCEPT ![l][n] = @ + 1]
        /\ SetFate(l, n, "sent")
  /\ request' = [request EXCEPT ![r].pc = "posted"]
  /\ UNCHANGED <<protocol, clock, rows, wallet>>

\* mutant: the request forgets its attempt and goes on.
Unfinished(r) ==
  request' = [request EXCEPT ![r] = [IdleRequest EXCEPT !.pc = "posted"]]

Finished(r) == request' = [request EXCEPT ![r] = IdleRequest]

\* recordEmbeddedFundingSubmissionResultInTransaction; for a Safe the answer
\* only goes to the support facts, its reference is older than the call.
Reply(r) ==
  /\ request[r].pc = "posted"
  /\ LET l == request[r].lane
         n == request[r].attempt
     IN IF attempts[l][n].outcome = "ambiguous"
           /\ attempts[l][n].reference = "none"
        THEN \E ref \in {"handle", "chain"} :
               SetRow(l, n, [attempts[l][n] EXCEPT !.reference = ref])
        ELSE attempts' = attempts
  /\ Finished(r)
  /\ UNCHANGED <<protocol, clock, reservation, moved, manual, wallet, chain>>

\* The provider refuses, the answer is lost, or the server dies: the request
\* ends and the attempt stays ambiguous.
RequestDies(r) ==
  /\ request[r].pc # "idle"
  /\ Finished(r)
  /\ UNCHANGED <<protocol, clock, rows, wallet, chain>>

-----------------------------------------------------------------------------
(* The browser and its reports.                                            *)

\* A registered Solana signature is acknowledged before it is broadcast.
Register(l, n) ==
  /\ protocol[l] = "solana"
  /\ wallet[l] = "prompt"
  /\ n \in Latest(attempts[l])
  /\ attempts[l][n].outcome = "started"
  /\ SetRow(l, n, [attempts[l][n] EXCEPT !.outcome = "ambiguous",
                     !.reference = "chain"])
  /\ wallet' = [wallet EXCEPT ![l] = "acked"]
  /\ UNCHANGED <<protocol, clock, reservation, moved, manual, request, chain>>

WalletSends(l, n) ==
  /\ wallet[l] = IF protocol[l] = "solana" THEN "acked" ELSE "prompt"
  /\ n \in Latest(attempts[l])
  /\ wallet' = [wallet EXCEPT ![l] = "sent"]
  /\ posts' = [posts EXCEPT ![l][n] = @ + 1]
  /\ SetFate(l, n, "sent")
  /\ UNCHANGED <<protocol, clock, rows, request>>

WalletDeclines(l) ==
  /\ wallet[l] = "prompt"
  /\ wallet' = [wallet EXCEPT ![l] = "declined"]
  /\ UNCHANGED <<protocol, clock, rows, request, chain>>

\* finishFundingStepAttemptForUserInTransaction: submitted with its hash.
ReportSubmitted(l, n) ==
  /\ protocol[l] = "client"
  /\ wallet[l] = "sent"
  /\ n \in Latest(attempts[l])
  /\ \/ attempts[l][n].outcome = "started"
     \/ attempts[l][n].outcome = "ambiguous" /\ attempts[l][n].reference = "none"
  /\ SetRow(l, n, [attempts[l][n] EXCEPT !.outcome = "submitted",
                     !.reference = "chain"])
  /\ UNCHANGED <<protocol, clock, reservation, moved, manual, request, wallet,
                 chain>>

\* A client failure proves nothing: it is recorded as ambiguous.
ReportUnknown(l, n) ==
  /\ protocol[l] = "client"
  /\ wallet[l] \in {"prompt", "sent"}
  /\ n \in Latest(attempts[l])
  /\ attempts[l][n].outcome = "started"
  /\ SetRow(l, n, [attempts[l][n] EXCEPT !.outcome = "ambiguous"])
  /\ UNCHANGED <<protocol, clock, reservation, moved, manual, request, wallet,
                 chain>>

\* failed or cancelled.  A browser that has left the sending to the server may
\* say so at any time; an admitted attempt ignores it.
ReportStopped(l, n) ==
  /\ protocol[l] \in ServerOwned \/ wallet[l] = "declined"
  /\ n \in Latest(attempts[l])
  /\ attempts[l][n].outcome = "started"
  /\ \E outcome \in {"failed", "cancelled"} :
       SetRow(l, n, [attempts[l][n] EXCEPT !.outcome = outcome])
  /\ Reduced(attempts', moved, manual)
  /\ UNCHANGED <<protocol, clock, moved, manual, request, wallet, chain>>

\* recordSafeFundingActionCancellationsInTransaction: a cancelled attempt for
\* each lane that still waits for one, unless some lane may have moved.
CancelAllowed ==
  /\ Status(attempts, moved, manual) # "stopped"
  /\ ~ExternalEffect(attempts, moved)
  /\ \A l \in Lanes : ~Reporting(attempts[l]) /\ ~Conflicting(attempts[l])
  /\ \E l \in Lanes : Retryable(attempts[l])

CancelRetryable ==
  attempts' = [l \in Lanes |->
                 IF Retryable(attempts[l])
                 THEN [n \in Numbers |-> IF n \in Free(attempts[l])
                                         THEN Cancelled ELSE attempts[l][n]]
                 ELSE attempts[l]]

\* cancelFundingOperationForUser.
CancelWaiting ==
  /\ CancelAllowed
  /\ CancelRetryable
  /\ Reduced(attempts', moved, manual)
  /\ UNCHANGED <<protocol, clock, moved, manual, request, wallet, chain>>

-----------------------------------------------------------------------------
(* The reconciliation worker.                                              *)

\* expireUnbroadcastActionWait; it rolls back unless the operation ends.
ExpireWait ==
  /\ CancelAllowed
  /\ \A l \in Lanes : Retryable(attempts[l]) => clock[l] # "open"
  /\ CancelRetryable
  /\ Status(attempts', moved, manual) = "stopped"
  /\ Reduced(attempts', moved, manual)
  /\ UNCHANGED <<protocol, clock, moved, manual, request, wallet, chain>>

\* A lease lasts at most two minutes and never past the action's deadline.
LeaseLapsed(l, row) == ~row.lease \/ clock[l] # "open"

\* mutant: a lapsed lease closes an admitted attempt too.
ClosableAdmitted(l, row) ==
  /\ protocol[l] # "client"
  /\ row.outcome \in {"started", "ambiguous"}
  /\ LeaseLapsed(l, row)

\* mutant: embedded preparations are not closed.
ClosableUnlessEmbedded(l, row) ==
  /\ protocol[l] \in {"safe", "solana"}
  /\ row.outcome = "started"
  /\ LeaseLapsed(l, row)

Closable(l, row) ==
  /\ protocol[l] # "client"
  /\ row.outcome = "started"
  /\ LeaseLapsed(l, row)

\* The three closeExpired..PreparationsInTransaction and the reduction that
\* the worker runs in their transaction.
CloseExpired ==
  /\ \E l \in Lanes, n \in Numbers : Closable(l, attempts[l][n])
  /\ attempts' = [l \in Lanes |-> [n \in Numbers |->
                    IF Closable(l, attempts[l][n])
                    THEN [attempts[l][n] EXCEPT !.outcome = "cancelled",
                                                !.lease = FALSE]
                    ELSE attempts[l][n]]]
  /\ Reduced(attempts', moved, manual)
  /\ UNCHANGED <<protocol, clock, moved, manual, request, wallet, chain>>

\* The reduction at the end of every pass over the operation.
Reduce ==
  /\ Reduced(attempts, moved, manual)
  /\ reservation' # reservation
  /\ UNCHANGED <<protocol, clock, attempts, moved, manual, request, wallet,
                 chain>>

\* releaseExpiredUnusedSourceReservations.
ReleaseExpiredUnused(l) ==
  /\ reservation[l] = "active"
  /\ ~Held(attempts[l], l)
  /\ ~moved[l]
  /\ reservation' = [reservation EXCEPT ![l] = "released"]
  /\ UNCHANGED <<protocol, clock, attempts, moved, manual, request, wallet,
                 chain>>

\* resolveAmbiguousProviderFundingStepAttempt..: the provider has the hash, or
\* says that its transaction never will have one.  The failure of an operation
\* that was already in recovery is left to a person.
ResolveProvider(l, n) ==
  LET row == attempts[l][n]
  IN /\ row.outcome = "ambiguous" /\ row.reference = "handle"
     /\ \/ /\ fate[l][n] # "dropped"
           /\ SetRow(l, n, [row EXCEPT !.reference = "chain"])
           /\ manual' = manual
        \/ /\ fate[l][n] = "dropped"
           /\ SetRow(l, n, [row EXCEPT !.outcome = "failed",
                                       !.reference = "none"])
           /\ manual' = (manual \/ Status(attempts, moved, manual)
                                     = "recovery_required")
     /\ UNCHANGED <<protocol, clock, reservation, moved, request, wallet,
                    chain>>

\* Solana only: expired at a finalized height and still without history.
ProvenExpired(l, n) ==
  /\ protocol[l] = "solana"
  /\ \/ fate[l][n] = "dropped"
     \/ fate[l][n] = "absent" /\ wallet[l] = "lapsed"

\* applyFundingStepReceiptEvidenceInTransaction, for decided receipts.  An EVM
\* receipt may carry its source debit along.
Receipt(l, n) ==
  LET row == attempts[l][n]
  IN /\ Pending(row) /\ row.reference = "chain"
     /\ \/ /\ fate[l][n] = "landed"
           /\ SetRow(l, n, [row EXCEPT !.receipt = "finalized"])
           /\ \/ moved' = moved
              \/ /\ protocol[l] \in {"embedded", "client"}
                 /\ moved' = [moved EXCEPT ![l] = TRUE]
        \/ /\ fate[l][n] = "reverted" \/ ProvenExpired(l, n)
           /\ SetRow(l, n, [row EXCEPT !.receipt = "failed"])
           /\ moved' = moved
     /\ Reduced(attempts', moved', manual)
     /\ UNCHANGED <<protocol, clock, manual, request, wallet, chain>>

\* allocateFundingObservationInTransaction by the source or destination
\* observer; the reduction follows in a transaction of its own.
ObserveMovement(l) ==
  /\ ~moved[l]
  /\ \E n \in Numbers : fate[l][n] = "landed"
  /\ moved' = [moved EXCEPT ![l] = TRUE]
  /\ UNCHANGED <<protocol, clock, attempts, reservation, manual, request,
                 wallet, chain>>

-----------------------------------------------------------------------------
(* Time, and the chain and the provider behind it.                         *)

LeaseLapses(l, n) ==
  /\ attempts[l][n].outcome = "started" /\ attempts[l][n].lease
  /\ SetRow(l, n, [attempts[l][n] EXCEPT !.lease = FALSE])
  /\ UNCHANGED <<protocol, clock, reservation, moved, manual, request, wallet,
                 chain>>

\* fundingStepActionExpiresAt is never later than the reservation's expiry.
TimePasses(l) ==
  /\ clock[l] # "expired"
  /\ clock' = [clock EXCEPT ![l] = IF @ = "open" THEN "action_expired"
                                   ELSE "expired"]
  /\ UNCHANGED <<protocol, rows, request, wallet, chain>>

\* The blockhash of a registered transaction expires before it is broadcast.
BlockhashExpires(l) ==
  /\ wallet[l] = "acked"
  /\ wallet' = [wallet EXCEPT ![l] = "lapsed"]
  /\ UNCHANGED <<protocol, clock, rows, request, chain>>

Execute(l, n) ==
  /\ fate[l][n] = "sent"
  /\ \E f \in {"landed", "reverted", "dropped"} : SetFate(l, n, f)
  /\ UNCHANGED <<protocol, clock, rows, request, wallet, posts>>

-----------------------------------------------------------------------------
Server(r) == Post(r) \/ Reply(r) \/ RequestDies(r)

User(l, n) ==
  \/ Register(l, n) \/ WalletSends(l, n)
  \/ ReportSubmitted(l, n) \/ ReportUnknown(l, n) \/ ReportStopped(l, n)

Worker(l, n) == ResolveProvider(l, n) \/ Receipt(l, n)

Passes(l) == TimePasses(l) \/ BlockhashExpires(l)

Next ==
  \/ \E r \in Requests : Server(r)
  \/ \E r \in Requests, l \in Lanes, n \in Numbers : Admit(r, l, n)
  \/ \E l \in Lanes, n \in Numbers :
       User(l, n) \/ Worker(l, n) \/ LeaseLapses(l, n) \/ Execute(l, n)
  \/ \E l \in Lanes : \/ Start(l) \/ WalletDeclines(l)
                      \/ ReleaseExpiredUnused(l) \/ ObserveMovement(l)
                      \/ Passes(l)
  \/ CancelWaiting \/ ExpireWait \/ CloseExpired \/ Reduce

Spec == Init /\ [][Next]_vars

\* Requests end, time passes, the chain answers and the worker's passes recur
\* (its queue is module ReconciliationJobs); nobody else has to act.
Fairness ==
  /\ \A r \in Requests : WF_vars(Server(r))
  /\ \A l \in Lanes : /\ WF_vars(TimePasses(l)) /\ WF_vars(BlockhashExpires(l))
                      /\ WF_vars(ReleaseExpiredUnused(l))
                      /\ WF_vars(ObserveMovement(l))
  /\ \A l \in Lanes, n \in Numbers :
       WF_vars(Worker(l, n)) /\ WF_vars(LeaseLapses(l, n)) /\ WF_vars(Execute(l, n))
  /\ WF_vars(ExpireWait) /\ WF_vars(CloseExpired) /\ WF_vars(Reduce)

FairSpec == Spec /\ Fairness

-----------------------------------------------------------------------------
InFlight(l, n) == fate[l][n] = "sent"
MayStillMove(l, n) == fate[l][n] \in {"sent", "landed"}

\* A lane moves its cash at most once: an attempt is posted once, however many
\* requests and retries there are, and while its transfer may land or has
\* landed no other attempt of the lane is in the same position.
OneTransferPerLane ==
  \A l \in Lanes, n \in Numbers :
    /\ posts[l][n] <= 1
    /\ MayStillMove(l, n) =>
         \A m \in Numbers \ {n} : ~MayStillMove(l, m)

\* The cash of a transfer is reserved until it is seen to have moved.  (A
\* landed Safe transfer is in the owner's own wallet.)
CashIsKept(l, n) ==
  \/ reservation[l] = "active"
  \/ moved[l]
  \/ protocol[l] = "safe" /\ attempts[l][n].receipt = "finalized"

SiblingStopped(l) == \E k \in Lanes \ {l} : Stopped(attempts[k])

\* The reservation of a lane whose transfer is underway, or has landed and is
\* not yet seen, is not given back: not by a lapsed lease, an expiry or a
\* cancellation, and not by the end of a sibling if the server does the
\* sending.  A browser lane has this from everything but a stopped sibling.
SubmittedLaneKeepsItsCash ==
  \A l \in Lanes, n \in Numbers :
    MayStillMove(l, n) =>
      CashIsKept(l, n) \/ (protocol[l] \notin ServerOwned /\ SiblingStopped(l))

\* A negative report of one lane never releases the reservation behind a
\* sibling's transfer, whoever sends it: what finishFundingActionReportAndReduce
\* says of itself.
SiblingReportKeepsCash ==
  \A l \in Lanes, n \in Numbers : MayStillMove(l, n) => CashIsKept(l, n)

\* What the rows call stopped has stopped: an attempt recorded as failed or
\* cancelled, which frees its cash, has nothing that may land, and no request
\* of the server will still post it.
StoppedWasNotSent ==
  \A l \in Lanes, n \in Numbers :
    attempts[l][n].outcome \in {"failed", "cancelled"} =>
      /\ fate[l][n] \in {"absent", "dropped"}
      /\ \A r \in Requests : ~(/\ request[r].pc = "admitted"
                               /\ request[r].lane = l
                               /\ request[r].attempt = n)

\* Uncertainty survives every crash: what a server or a registered browser has
\* sent, and no receipt has decided, is on record as pending before it leaves.
SentIsOnRecord ==
  \A l \in Lanes, n \in Numbers :
    protocol[l] # "client" /\ InFlight(l, n) => Pending(attempts[l][n])

\* No step reopens what is decided: a receipt, a stopped attempt, a released
\* reservation.
DecidedIsFinal ==
  [][\A l \in Lanes :
       /\ reservation[l] = "released" => reservation'[l] = "released"
       /\ \A n \in Numbers :
            /\ attempts[l][n].receipt # "none"
                 => attempts'[l][n] = attempts[l][n]
            /\ attempts[l][n].outcome \in {"failed", "cancelled"}
                 => attempts'[l][n].outcome = attempts[l][n].outcome]_vars

\* Cash is never stranded by an absent browser or a lost request: a lane with
\* a lease always again has its reservation released or a transfer on record.
UnusedCashIsFreed ==
  \A l \in Lanes : protocol[l] # "client" =>
    []<>(\/ reservation[l] = "released"
         \/ \E n \in Numbers : attempts[l][n].outcome = "ambiguous")

\* A transfer that lands ends its reservation.
LandedIsSettled ==
  \A l \in Lanes, n \in Numbers :
    fate[l][n] = "landed" ~> reservation[l] = "released"

\* What the owner sees of the cash of a lane that the server submits.
Cash == [l \in Lanes |->
           IF protocol[l] \notin ServerOwned THEN "held"
           ELSE IF \E n \in Numbers : fate[l][n] = "sent" THEN "moving"
           ELSE IF \E n \in Numbers : fate[l][n] = "landed" THEN "spent"
           ELSE IF reservation[l] = "released" THEN "returned" ELSE "held"]

\* The rows implement the promise of module LaneCash: cash that was given back
\* never moves, and cash that moved never moves again.
Promise == INSTANCE LaneCash WITH cash <- Cash
ImplementsLaneCash == Promise!Spec
=============================================================================

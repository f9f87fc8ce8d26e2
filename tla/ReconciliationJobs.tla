------------------------- MODULE ReconciliationJobs -------------------------
(***************************************************************************)
(* The durable wake-up and lease queue of the funding reconciler: table    *)
(* funding_reconciliation_jobs, one row per operation.  A pass is one      *)
(* execution of processLease or of recoverStoppedFundingOperations, in     *)
(* whichever finance-worker process runs it: every statement on the row    *)
(* is fenced by the lease token alone, so worker identity is left out.     *)
(*                                                                         *)
(* The operation behind a job is abstracted to what the queue tells apart: *)
(* the verdict deriveFundingLifecycle gives of the durable facts, the      *)
(* verdict last materialised in the operation row, and the evidence that   *)
(* no reduction has consumed yet.  A clock is abstracted to what a row     *)
(* compares it with: its lease has run out or not, its due time is past,   *)
(* in the future or the 'infinity' sentinel.                               *)
(***************************************************************************)
EXTENDS Naturals

CONSTANTS
  Operations,    \* funding operations
  Passes,        \* concurrent executions of a pass
  Tokens,        \* lease tokens (gen_random_uuid)
  NoToken,       \* the null lease_token
  MaxFailures    \* bound: crashes and thrown errors in one behaviour

ASSUME TokenAssumption == NoToken \notin Tokens
ASSUME FailureAssumption == MaxFailures \in Nat

VARIABLES
  job,       \* funding_reconciliation_jobs
  verdict,   \* what the projector derives from the facts now
  cached,    \* status and recovery mode materialised in funding_operations
  pending,   \* evidence recorded since the last reduction, and how it woke
  expired,   \* the operation and its action consents have passed expires_at
  pass,      \* the running passes (volatile)
  failures

vars == <<job, verdict, cached, pending, expired, pass, failures>>
operationVars == <<verdict, cached, pending>>

-----------------------------------------------------------------------------
Statuses == {"scheduled", "leased", "completed", "dead_letter"}
DueTimes == {"past", "future", "infinity"}

\* active: a live or consumer-ready status; auto and manual: the two recovery
\* modes of recovery_required; terminal: completed/refunded/failed/cancelled.
Verdicts == {"active", "auto", "manual", "terminal"}

\* quiet evidence came with wakeDuringLease = false, loud evidence without.
Evidence == {"none", "quiet", "loud"}

Results == {"completed", "requeue", "dead_letter", "repair_failed"}

Job == [status : Statuses, due : DueTimes,
        token : Tokens \cup {NoToken}, live : BOOLEAN]

PassPcs == {"claimed", "loaded", "polled", "reduced", "finishing", "failed",
            "closing", "repairing", "repair_polled"}

IdlePass == [pc |-> "idle"]

RunningPass ==
  [pc : PassPcs, op : Operations, token : Tokens,
   view : Verdicts, result : Results]

TypeOK ==
  /\ job \in [Operations -> Job]
  /\ verdict \in [Operations -> Verdicts]
  /\ cached \in [Operations -> Verdicts]
  /\ pending \in [Operations -> Evidence]
  /\ expired \in [Operations -> BOOLEAN]
  /\ pass \in [Passes -> RunningPass \cup {IdlePass}]
  /\ failures \in 0..MaxFailures

Idle(p) == pass[p].pc = "idle"
At(p, pc) == pass[p].pc = pc
Holds(p, o) == ~Idle(p) /\ pass[p].op = o /\ pass[p].token = job[o].token
FreshToken(t) == \A p \in Passes : ~Idle(p) => pass[p].token # t

\* Commit schedules the job of the operation it creates.
Init ==
  /\ job = [o \in Operations |->
              [status |-> "scheduled", due |-> "past",
               token |-> NoToken, live |-> FALSE]]
  /\ verdict = [o \in Operations |-> "active"]
  /\ cached = [o \in Operations |-> "active"]
  /\ pending = [o \in Operations |-> "none"]
  /\ expired = [o \in Operations |-> FALSE]
  /\ pass = [p \in Passes |-> IdlePass]
  /\ failures = 0

-----------------------------------------------------------------------------
(* The row statements.                                                     *)

LeaseIsLive(row) == row.status = "leased" /\ row.live

Sooner(a, b) ==
  IF "past" \in {a, b} THEN "past"
  ELSE IF "future" \in {a, b} THEN "future" ELSE "infinity"

\* wakeFundingReconciliationInTransaction with dueAt = now: the upsert revives
\* a stopped job and takes back an expired lease, but leaves a live lease.
Woken(row, duringLease) ==
  IF LeaseIsLive(row)
  THEN [row EXCEPT !.due = IF duringLease THEN "past" ELSE @]
  ELSE [status |-> "scheduled", due |-> "past",
        token |-> NoToken, live |-> FALSE]

Leased(t) ==
  [status |-> "leased", due |-> "infinity", token |-> t, live |-> TRUE]

FinishedRow(status, due) ==
  [status |-> status, due |-> due, token |-> NoToken, live |-> FALSE]

\* mutant: completion ignores a wake that came during the lease.
FinishedDroppingWake(row, result) ==
  FinishedRow(
              CASE result = "completed" -> "completed"
                [] result = "requeue" -> "scheduled"
                [] OTHER -> "dead_letter",
              "future")

\* mutant: the kind of an error result is stored as the status.
FinishedWithKind(row, result) ==
  FinishedRow(IF result = "requeue" THEN "scheduled" ELSE result, "future")

\* The update of finishFundingReconciliationLease.  Only completion looks at
\* the sentinel and only a requeue keeps an earlier due time.
Finished(row, result) ==
  FinishedRow(
    CASE result = "completed" /\ row.due = "infinity" -> "completed"
      [] result = "completed" /\ row.due # "infinity" -> "scheduled"
      [] result = "requeue" -> "scheduled"
      [] OTHER -> "dead_letter",
    CASE result = "completed" -> "past"
      [] result = "requeue" -> Sooner(row.due, "future")
      [] OTHER -> "future")

-----------------------------------------------------------------------------
(* Evidence recorded in its own transaction, with the wake it makes.       *)

\* New facts may move the verdict anywhere; kind says how the job was woken.
Record(o, v, kind) ==
  /\ verdict' = [verdict EXCEPT ![o] = v]
  /\ pending' = [pending EXCEPT ![o] =
                   IF kind = "loud" \/ @ = "loud" THEN "loud" ELSE "quiet"]
  /\ job' = [job EXCEPT ![o] = Woken(@, kind = "loud")]

\* A client report or a provider resolution: attempt, caches, loud wake.
Report(o) ==
  /\ \E v \in Verdicts :
       /\ Record(o, v, "loud")
       /\ cached' = [cached EXCEPT ![o] = v]
  /\ UNCHANGED <<expired, pass, failures>>

\* The receive-session scanner finds the exact destination transfer of an
\* owned route: it records the credit and wakes with wakeDuringLease = false,
\* although it is not inside the lease.
ScanDestination(o) ==
  /\ \E v \in Verdicts : Record(o, v, "quiet")
  /\ UNCHANGED <<cached, expired, pass, failures>>

-----------------------------------------------------------------------------
(* Reduction: the projection of the facts, materialised.                   *)

Reduced(o) ==
  /\ cached' = [cached EXCEPT ![o] = verdict[o]]
  /\ pending' = [pending EXCEPT ![o] = "none"]
  /\ UNCHANGED verdict

\* A step whose own fact settles the verdict and is reduced with it.
ReducedTo(o, v) ==
  /\ verdict' = [verdict EXCEPT ![o] = v]
  /\ cached' = [cached EXCEPT ![o] = v]
  /\ pending' = [pending EXCEPT ![o] = "none"]

\* markFundingOperationRecoveryRequiredInTransaction: the escalation fact, and
\* what the projector makes of it.  A settlement wins and is reduced; a verdict
\* that is neither recovery nor settled leaves the row as it was.
MarkRecovery(o, mode) ==
  \E v \in {verdict[o], mode} :
    /\ (mode = "auto") => (v = mode => verdict[o] \in {"active", "auto"})
    /\ CASE v = "terminal" -> ReducedTo(o, v)
         [] v = "active" -> UNCHANGED operationVars
         [] OTHER -> /\ verdict' = [verdict EXCEPT ![o] = v]
                     /\ cached' = [cached EXCEPT ![o] = v]
                     /\ UNCHANGED pending

-----------------------------------------------------------------------------
(* processLease.                                                           *)

Goto(p, pc) == pass' = [pass EXCEPT ![p].pc = pc]

\* Finish with result r from the try block, or from the catch block and the
\* repair, where a refused finish is not caught again.
GotoResult(p, r) ==
  pass' = [pass EXCEPT ![p].pc = "finishing", ![p].result = r]
CloseWith(p, r) ==
  pass' = [pass EXCEPT ![p].pc = "closing", ![p].result = r]

Start(p, o, t, pc) ==
  pass' = [pass EXCEPT ![p] = [pc |-> pc, op |-> o, token |-> t,
                               view |-> cached[o], result |-> "requeue"]]

\* mutant: a lease that ran out is never taken over.
ScheduledOnly(o) == job[o].status = "scheduled" /\ job[o].due = "past"

Claimable(o) ==
  \/ job[o].status = "scheduled" /\ job[o].due = "past"
  \/ job[o].status = "leased" /\ ~job[o].live

Claim(p, o) ==
  /\ Idle(p)
  /\ Claimable(o)
  /\ \E t \in Tokens :
       /\ FreshToken(t)
       /\ job' = [job EXCEPT ![o] = Leased(t)]
       /\ Start(p, o, t, "claimed")
  /\ UNCHANGED <<operationVars, expired, failures>>

\* closeExpired*PreparationsInTransaction, and the reduction they call for.
CloseExpiredPreparations(p) ==
  /\ At(p, "claimed")
  /\ \E v \in Verdicts : ReducedTo(pass[p].op, v)
  /\ UNCHANGED <<job, expired, pass, failures>>

Load(p) ==
  /\ At(p, "claimed")
  /\ pass' = [pass EXCEPT ![p].pc = "loaded",
                          ![p].view = verdict[pass[p].op]]
  /\ UNCHANGED <<job, operationVars, expired, failures>>

\* expireUnbroadcastActionWait cancels and reduces; under a receipt watch the
\* pass reloads and goes on, otherwise it finishes.
ExpireUnbroadcastWait(p) ==
  LET o == pass[p].op IN
  /\ At(p, "loaded")
  /\ pass[p].view = "active" /\ verdict[o] # "terminal"
  /\ ReducedTo(o, "terminal")
  /\ \/ pass' = [pass EXCEPT ![p].view = "terminal"]
     \/ GotoResult(p, "completed")
  /\ UNCHANGED <<job, expired, failures>>

\* One evidence source polled inside the lease writes what it found.
PollEvidence(p) ==
  /\ At(p, "loaded")
  /\ \E v \in Verdicts : Record(pass[p].op, v, "quiet")
  /\ UNCHANGED <<cached, expired, pass, failures>>

PollDone(p) ==
  /\ At(p, "loaded")
  /\ Goto(p, "polled")
  /\ UNCHANGED <<job, operationVars, expired, failures>>

\* terminalReceiptPollFailed: the watch goes on, or its window is over.
TerminalReceiptUnavailable(p) ==
  /\ At(p, "loaded")
  /\ failures < MaxFailures
  /\ failures' = failures + 1
  /\ \E r \in {"requeue", "dead_letter"} : GotoResult(p, r)
  /\ UNCHANGED <<job, operationVars, expired>>

\* mutant: what was loaded before the poll is materialised.
ReduceLoadedView(p) ==
  /\ At(p, "polled")
  /\ cached' = [cached EXCEPT ![pass[p].op] = pass[p].view]
  /\ pending' = [pending EXCEPT ![pass[p].op] = "none"]
  /\ pass' = [pass EXCEPT ![p].pc = "reduced"]
  /\ UNCHANGED <<job, verdict, expired, failures>>

Reduce(p) ==
  /\ At(p, "polled")
  /\ Reduced(pass[p].op)
  /\ pass' = [pass EXCEPT ![p].pc = "reduced",
                          ![p].view = verdict[pass[p].op]]
  /\ UNCHANGED <<job, expired, failures>>

\* fundingReconciliationDisposition on the verdict the reduction returned; an
\* unresolved reorg incident outranks it, a reorg watch keeps a terminal job.
Disposition(view) ==
  CASE view = "terminal" -> {"completed", "requeue"}
    [] view = "manual" -> {"completed"}
    [] OTHER -> {"requeue"}

Decide(p) ==
  /\ At(p, "reduced")
  /\ \E r \in Disposition(pass[p].view) : GotoResult(p, r)
  /\ UNCHANGED <<job, operationVars, expired, failures>>

DecideReorgIncident(p) ==
  /\ At(p, "reduced")
  /\ failures < MaxFailures
  /\ failures' = failures + 1
  /\ GotoResult(p, "dead_letter")
  /\ UNCHANGED <<job, operationVars, expired>>

\* The evidence window elapsed: the automatic escalation is made durable in
\* its own transaction, before the lease is finished.
DecideTimeout(p) ==
  /\ At(p, "reduced")
  /\ pass[p].view \in {"active", "auto"}
  /\ MarkRecovery(pass[p].op, "auto")
  /\ GotoResult(p, "requeue")
  /\ UNCHANGED <<job, expired, failures>>

\* Any await of the try block may throw.
Throw(p) ==
  /\ pass[p].pc \in {"claimed", "loaded", "polled", "reduced"}
  /\ failures < MaxFailures
  /\ failures' = failures + 1
  /\ Goto(p, "failed")
  /\ UNCHANGED <<job, operationVars, expired>>

CatchTimeout(p) ==
  /\ At(p, "failed")
  /\ MarkRecovery(pass[p].op, "auto")
  /\ CloseWith(p, "requeue")
  /\ UNCHANGED <<job, expired, failures>>

CatchError(p) ==
  /\ At(p, "failed")
  /\ \E r \in {"requeue", "dead_letter"} : CloseWith(p, r)
  /\ UNCHANGED <<job, operationVars, expired, failures>>

\* mutant: the update is not fenced by the lease token.
FinishUnfenced(p) ==
  /\ pass[p].pc \in {"finishing", "closing"}
  /\ job' = [job EXCEPT ![pass[p].op] = Finished(@, pass[p].result)]
  /\ pass' = [pass EXCEPT ![p] = IdlePass]
  /\ UNCHANGED <<operationVars, expired, failures>>

Finish(p) ==
  LET o == pass[p].op IN
  /\ pass[p].pc \in {"finishing", "closing"}
  /\ Holds(p, o)
  /\ job' = [job EXCEPT ![o] = Finished(@, pass[p].result)]
  /\ IF pass[p].result = "dead_letter"
     THEN MarkRecovery(o, "manual")
     ELSE UNCHANGED operationVars
  /\ pass' = [pass EXCEPT ![p] = IdlePass]
  /\ UNCHANGED <<expired, failures>>

\* lease_lost: the whole transaction rolls back; thrown in the try block, the
\* error takes the pass through the catch block once more.
FinishRefused(p) ==
  /\ pass[p].pc \in {"finishing", "closing"}
  /\ ~Holds(p, pass[p].op)
  /\ IF At(p, "finishing")
     THEN Goto(p, "failed")
     ELSE pass' = [pass EXCEPT ![p] = IdlePass]
  /\ UNCHANGED <<job, operationVars, expired, failures>>

Crash(p) ==
  /\ ~Idle(p)
  /\ failures < MaxFailures
  /\ failures' = failures + 1
  /\ pass' = [pass EXCEPT ![p] = IdlePass]
  /\ UNCHANGED <<job, operationVars, expired>>

-----------------------------------------------------------------------------
(* recoverStoppedFundingOperations: evidence-only repair.                  *)

\* mutant: the repair scan takes dead letters only.
DeadLetterRepairable(o) ==
  job[o].status = "dead_letter" /\ cached[o] # "terminal" /\ expired[o]

Repairable(o) ==
  /\ job[o].status \in {"completed", "dead_letter"}
  /\ cached[o] # "terminal"
  /\ expired[o]

RepairClaim(p, o) ==
  /\ Idle(p)
  /\ Repairable(o)
  /\ \E t \in Tokens :
       /\ FreshToken(t)
       /\ job' = [job EXCEPT ![o] = Leased(t)]
       /\ Start(p, o, t, "repairing")
  /\ UNCHANGED <<operationVars, expired, failures>>

RepairEvidence(p) ==
  /\ At(p, "repairing")
  /\ \E v \in Verdicts : Record(pass[p].op, v, "quiet")
  /\ UNCHANGED <<cached, expired, pass, failures>>

RepairPolled(p) ==
  /\ At(p, "repairing")
  /\ Goto(p, "repair_polled")
  /\ UNCHANGED <<job, operationVars, expired, failures>>

\* Canonical verification was unavailable: nothing is reduced, no incident.
RepairUnavailable(p) ==
  /\ pass[p].pc \in {"repairing", "repair_polled"}
  /\ failures < MaxFailures
  /\ failures' = failures + 1
  /\ CloseWith(p, "repair_failed")
  /\ UNCHANGED <<job, operationVars, expired>>

RepairReduce(p) ==
  LET o == pass[p].op IN
  /\ At(p, "repair_polled")
  /\ Reduced(o)
  /\ CloseWith(p, IF verdict[o] = "terminal" THEN "requeue"
                                             ELSE "repair_failed")
  /\ UNCHANGED <<job, expired, failures>>

-----------------------------------------------------------------------------
(* Time.                                                                   *)

LeaseRunsOut(o) ==
  /\ LeaseIsLive(job[o])
  /\ job' = [job EXCEPT ![o].live = FALSE]
  /\ UNCHANGED <<operationVars, expired, pass, failures>>

ComesDue(o) ==
  /\ job[o].status = "scheduled" /\ job[o].due = "future"
  /\ job' = [job EXCEPT ![o].due = "past"]
  /\ UNCHANGED <<operationVars, expired, pass, failures>>

OperationExpires(o) ==
  /\ ~expired[o]
  /\ expired' = [expired EXCEPT ![o] = TRUE]
  /\ UNCHANGED <<job, operationVars, pass, failures>>

-----------------------------------------------------------------------------
Environment(o) ==
  \/ Report(o) \/ ScanDestination(o)
  \/ LeaseRunsOut(o) \/ ComesDue(o) \/ OperationExpires(o)

\* What a pass does on its own once it runs, without failing.
Advance(p) ==
  \/ Load(p) \/ PollDone(p) \/ Reduce(p) \/ Decide(p) \/ CatchError(p)
  \/ Finish(p) \/ FinishRefused(p) \/ RepairPolled(p) \/ RepairReduce(p)

Optional(p) ==
  \/ CloseExpiredPreparations(p) \/ ExpireUnbroadcastWait(p)
  \/ PollEvidence(p) \/ DecideTimeout(p) \/ CatchTimeout(p)
  \/ RepairEvidence(p)

Fault(p) ==
  \/ Throw(p) \/ Crash(p) \/ TerminalReceiptUnavailable(p)
  \/ DecideReorgIncident(p) \/ RepairUnavailable(p)

Next ==
  \/ \E o \in Operations :
       \/ Environment(o)
       \/ \E p \in Passes : Claim(p, o) \/ RepairClaim(p, o)
  \/ \E p \in Passes : Advance(p) \/ Optional(p) \/ Fault(p)

Spec == Init /\ [][Next]_vars

\* The scheduler ticks for ever, so a running pass goes on and time passes.  A
\* due job is claimed at last although passes come and go: a batch excludes
\* what it has processed and claims in order of priority and due time, and the
\* repair scan walks the operations with a cursor.
Fairness ==
  /\ \A p \in Passes : WF_vars(Advance(p))
  /\ \A o \in Operations :
       /\ WF_vars(LeaseRunsOut(o)) /\ WF_vars(ComesDue(o))
       /\ WF_vars(OperationExpires(o))
       /\ SF_vars(\E p \in Passes : Claim(p, o))
       /\ SF_vars(\E p \in Passes : RepairClaim(p, o))

FairSpec == Spec /\ Fairness
-----------------------------------------------------------------------------
(* Properties.                                                             *)

\* The row constraint funding_reconciliation_jobs_lease_consistency, and no
\* sleep without an end: a job that waits to be claimed waits for a finite
\* time, so the 'infinity' that a claim writes never outlives the lease.
ScheduledJobsCanBeClaimed ==
  \A o \in Operations :
    /\ (job[o].token # NoToken) <=> (job[o].status = "leased")
    /\ job[o].status = "scheduled" => job[o].due # "infinity"

\* Two passes may work on one operation, after a lease ran out; at most one of
\* them can still finish the lease.
LeaseHolderIsUnique ==
  \A o \in Operations : \A p, q \in Passes :
    Holds(p, o) /\ Holds(q, o) => p = q

\* Evidence that woke the job is never forgotten: until a reduction consumes
\* it the job is scheduled or leased, or has been stopped as dead_letter.
LoudEvidenceKeepsItsJob ==
  \A o \in Operations :
    pending[o] = "loud" => job[o].status # "completed"

\* With nothing left to reduce, the operation row shows what the facts say.
ReducedCacheIsCurrent ==
  \A o \in Operations : pending[o] = "none" => cached[o] = verdict[o]

\* A live lease ends only by the pass that holds it: a stale worker, a wake or
\* another claim never takes it away.
LiveLeaseEndsByItsHolder ==
  [][\A o \in Operations :
       LeaseIsLive(job[o]) /\ job'[o].token # job[o].token =>
         \E p \in Passes : Holds(p, o) /\ pass'[p].pc = "idle"]_vars

\* The queue keeps the promise of EvidencePromise: what a recorder woke the
\* job for is reduced at last or ends in a published dead letter, whatever
\* finitely many crashes, thrown errors and lost leases come between, and the
\* job completes only when nothing is owed.
Promise == INSTANCE EvidencePromise WITH
  owes  <- [o \in Operations |-> pending[o] = "loud"],
  phase <- [o \in Operations |->
              CASE job[o].status = "completed" -> "retired"
                [] job[o].status = "dead_letter" -> "stopped"
                [] OTHER -> "working"]

PromiseIsKept == Promise!FairSpec

\* Once the operation has expired, no evidence stays unconsumed while the
\* operation row is not terminal: the repair scan revives what was stopped.
StoppedEvidenceIsRepaired ==
  \A o \in Operations :
    pending[o] # "none" ~> (pending[o] = "none" \/ cached[o] = "terminal")

\* The flag wakeDuringLease = false is meant for "pollers already inside the
\* lease": if so, a completed job of an operation that is not settled never
\* leaves evidence that no reduction has seen.  (The code does not keep this: a
\* scanner outside the lease uses the flag as well.)
CompletedJobHasNoEvidence ==
  \A o \in Operations :
    job[o].status = "completed" /\ cached[o] # "terminal" =>
      pending[o] = "none"
=============================================================================

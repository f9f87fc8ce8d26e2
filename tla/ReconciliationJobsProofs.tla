---------------------- MODULE ReconciliationJobsProofs ----------------------
(***************************************************************************)
(* Theorems of ReconciliationJobs for every set of operations, passes and  *)
(* tokens.  IInv is the inductive invariant: the checked invariants and    *)
(* the two facts that tie a running pass to the row it was claimed from.   *)
(***************************************************************************)
EXTENDS ReconciliationJobs, TLAPS

\* Only a leased row has a live lease.
LiveRowsAreLeased ==
  \A o \in Operations : job[o].live => job[o].status = "leased"

\* gen_random_uuid: no two running passes were given the same token.
RunningTokensDiffer ==
  \A p, q \in Passes :
    ~Idle(p) /\ ~Idle(q) /\ pass[p].token = pass[q].token => p = q

\* The pass will finish its lease as completed, or may still decide to.
MayComplete(p) ==
  \/ pass[p].pc = "reduced"
  \/ pass[p].pc \in {"finishing", "closing"} /\ pass[p].result = "completed"

\* While the sentinel of the claim stands, a holder that has reduced and may
\* complete has left no loud evidence behind it.
HolderHasReducedLoudEvidence ==
  \A o \in Operations : \A p \in Passes :
    Holds(p, o) /\ MayComplete(p) /\ job[o].due = "infinity" =>
      pending[o] # "loud"

IInv ==
  /\ TypeOK
  /\ ScheduledJobsCanBeClaimed
  /\ LiveRowsAreLeased
  /\ RunningTokensDiffer
  /\ HolderHasReducedLoudEvidence
  /\ LoudEvidenceKeepsItsJob
  /\ ReducedCacheIsCurrent

-----------------------------------------------------------------------------
(* What the row statements return.                                         *)

LEMMA WokenRow ==
  ASSUME NEW row \in Job, NEW b \in BOOLEAN
  PROVE  /\ Woken(row, b) \in Job
         /\ Woken(row, b).status \in {"scheduled", "leased"}
         /\ LeaseIsLive(row) => /\ Woken(row, b).token = row.token
                                /\ Woken(row, b).status = "leased"
                                /\ Woken(row, b).live
                                /\ b => Woken(row, b).due = "past"
                                /\ ~b => Woken(row, b).due = row.due
         /\ ~LeaseIsLive(row) => /\ Woken(row, b).token = NoToken
                                 /\ Woken(row, b).status = "scheduled"
                                 /\ Woken(row, b).due = "past"
                                 /\ ~Woken(row, b).live
BY DEF Woken, Job, LeaseIsLive, Statuses, DueTimes

LEMMA FinishedRowIs ==
  ASSUME NEW row \in Job, NEW r \in Results
  PROVE  /\ Finished(row, r) \in Job
         /\ Finished(row, r).token = NoToken
         /\ Finished(row, r).live = FALSE
         /\ Finished(row, r).status # "leased"
         /\ Finished(row, r).status = "scheduled" =>
              Finished(row, r).due # "infinity"
         /\ Finished(row, r).status = "completed" =>
              r = "completed" /\ row.due = "infinity"
BY DEF Finished, FinishedRow, Sooner, Job, Results, Statuses, DueTimes

LEMMA LeasedRow ==
  ASSUME NEW t \in Tokens
  PROVE  /\ Leased(t) \in Job
         /\ Leased(t).token = t /\ Leased(t).status = "leased"
         /\ Leased(t).due = "infinity" /\ Leased(t).live
BY DEF Leased, Job, Statuses, DueTimes

LEMMA InitIInv == Init => IInv
BY TokenAssumption, FailureAssumption
   DEF Init, IInv, TypeOK, Job, Statuses, DueTimes, Verdicts, Evidence,
       IdlePass, Idle, Holds, ScheduledJobsCanBeClaimed, LiveRowsAreLeased,
       RunningTokensDiffer, HolderHasReducedLoudEvidence, MayComplete,
       LoudEvidenceKeepsItsJob, ReducedCacheIsCurrent

LEMMA RecordStep ==
  ASSUME IInv, NEW o \in Operations, NEW v \in Verdicts,
         NEW kind \in {"quiet", "loud"}, Record(o, v, kind),
         cached' = cached \/ (kind = "loud" /\ cached' = [cached EXCEPT ![o] = v]),
         UNCHANGED <<expired, pass, failures>>
  PROVE  IInv'
<1> DEFINE row == Woken(job[o], kind = "loud")
           ev == IF kind = "loud" \/ pending[o] = "loud" THEN "loud" ELSE "quiet"
<1>a. job[o] \in Job /\ (kind = "loud") \in BOOLEAN /\ ev \in Evidence
  BY DEF IInv, TypeOK, Evidence
<1>b. /\ row \in Job /\ row.status \in {"scheduled", "leased"}
      /\ LeaseIsLive(job[o]) =>
           /\ row.token = job[o].token /\ row.status = "leased" /\ row.live
           /\ kind = "loud" => row.due = "past"
           /\ kind # "loud" => row.due = job[o].due
      /\ ~LeaseIsLive(job[o]) =>
           /\ row.token = NoToken /\ row.status = "scheduled"
           /\ row.due = "past" /\ ~row.live
  BY <1>a, WokenRow
<1>c. /\ job' = [job EXCEPT ![o] = row]
      /\ pending' = [pending EXCEPT ![o] = ev]
      /\ verdict' = [verdict EXCEPT ![o] = v]
  BY DEF Record
<1>d. ev # "none" /\ (ev = "loud" => kind = "loud" \/ pending[o] = "loud")
  OBVIOUS
<1> HIDE DEF row, ev
<1>1. TypeOK'
  BY <1>a, <1>b, <1>c DEF IInv, TypeOK
<1>2. ScheduledJobsCanBeClaimed' /\ LiveRowsAreLeased'
  BY <1>a, <1>b, <1>c, TokenAssumption
     DEF IInv, TypeOK, ScheduledJobsCanBeClaimed, LiveRowsAreLeased,
         LeaseIsLive, Job
<1>3. RunningTokensDiffer'
  BY DEF IInv, RunningTokensDiffer, Idle
<1>4. HolderHasReducedLoudEvidence'
  <2> SUFFICES ASSUME NEW o1 \in Operations, NEW p \in Passes,
                      Holds(p, o1)', MayComplete(p)', job'[o1].due = "infinity"
               PROVE  pending'[o1] # "loud"
    BY DEF HolderHasReducedLoudEvidence
  <2>1. CASE o1 # o
    BY <2>1, <1>c DEF IInv, TypeOK, HolderHasReducedLoudEvidence, Holds,
                      Idle, MayComplete
  <2>2. CASE o1 = o
    <3>1. job'[o] = row /\ pending'[o] = ev
      BY <1>c DEF IInv, TypeOK
    <3>2. LeaseIsLive(job[o]) /\ kind # "loud" /\ row.token = job[o].token
          /\ job[o].due = "infinity"
      BY <1>b, <2>2, <3>1
    <3>3. Holds(p, o) /\ MayComplete(p)
      BY <2>2, <3>1, <3>2 DEF Holds, Idle, MayComplete
    <3>4. pending[o] # "loud"
      BY <3>2, <3>3 DEF IInv, HolderHasReducedLoudEvidence
    <3>5. QED
      BY <1>d, <2>2, <3>1, <3>2, <3>4
  <2>3. QED
    BY <2>1, <2>2
<1>5. LoudEvidenceKeepsItsJob'
  BY <1>b, <1>c DEF IInv, TypeOK, LoudEvidenceKeepsItsJob
<1>6. ReducedCacheIsCurrent'
  BY <1>c, <1>d DEF IInv, TypeOK, ReducedCacheIsCurrent
<1>7. QED
  BY <1>1, <1>2, <1>3, <1>4, <1>5, <1>6 DEF IInv

\* What a pass may do to its operation besides recording evidence: reduce it,
\* or move its verdict and row together.
Settles(o) ==
  /\ verdict' \in [Operations -> Verdicts]
  /\ cached' \in [Operations -> Verdicts]
  /\ pending' \in {pending, [pending EXCEPT ![o] = "none"]}
  /\ ReducedCacheIsCurrent'

LEMMA SettlingSteps ==
  ASSUME IInv, NEW o \in Operations
  PROVE  /\ UNCHANGED operationVars => Settles(o)
         /\ Reduced(o) => Settles(o)
         /\ \A v \in Verdicts : ReducedTo(o, v) => Settles(o)
         /\ \A mode \in {"auto", "manual"} : MarkRecovery(o, mode) => Settles(o)
<1>1. UNCHANGED operationVars => Settles(o)
  BY DEF IInv, TypeOK, Settles, operationVars, ReducedCacheIsCurrent
<1>2. Reduced(o) => Settles(o)
  BY DEF IInv, TypeOK, Settles, Reduced, ReducedCacheIsCurrent
<1>3. ASSUME NEW v \in Verdicts, ReducedTo(o, v) PROVE Settles(o)
  BY <1>3 DEF IInv, TypeOK, Settles, ReducedTo, ReducedCacheIsCurrent
<1>4. ASSUME NEW mode \in {"auto", "manual"}, MarkRecovery(o, mode)
      PROVE  Settles(o)
  <2>1. PICK v \in {verdict[o], mode} :
          CASE v = "terminal" -> ReducedTo(o, v)
            [] v = "active" -> UNCHANGED operationVars
            [] OTHER -> /\ verdict' = [verdict EXCEPT ![o] = v]
                        /\ cached' = [cached EXCEPT ![o] = v]
                        /\ UNCHANGED pending
    BY <1>4 DEF MarkRecovery
  <2>2. v \in Verdicts
    BY DEF IInv, TypeOK, Verdicts
  <2>3. CASE v \in {"terminal", "active"}
    BY <1>1, <1>3, <2>1, <2>2, <2>3
  <2>4. CASE v \notin {"terminal", "active"}
    BY <2>1, <2>2, <2>4 DEF IInv, TypeOK, Settles, ReducedCacheIsCurrent
  <2>5. QED
    BY <2>3, <2>4
<1>5. QED
  BY <1>1, <1>2, <1>3, <1>4

\* A running pass moves on, or stops, without touching the job.
LEMMA PassStep ==
  ASSUME IInv, NEW p \in Passes, ~Idle(p),
         NEW r \in RunningPass \cup {IdlePass},
         pass' = [pass EXCEPT ![p] = r],
         r.pc # "idle" => r.op = pass[p].op /\ r.token = pass[p].token,
         Settles(pass[p].op),
         MayComplete(p)' /\ r.pc # "idle" =>
           MayComplete(p) \/ pending'[pass[p].op] = "none",
         job' = job, expired' = expired, failures' \in 0..MaxFailures
  PROVE  IInv'
<1> DEFINE o == pass[p].op
<1>a. o \in Operations
  BY DEF IInv, TypeOK, Idle, RunningPass, IdlePass
<1>b. pass'[p] = r /\ \A q \in Passes : q # p => pass'[q] = pass[q]
  BY DEF IInv, TypeOK
<1>c. \A o1 \in Operations : pending'[o1] \in {pending[o1], "none"}
  BY <1>a DEF IInv, TypeOK, Settles
<1>1. TypeOK'
  BY <1>a DEF IInv, TypeOK, Settles, Evidence
<1>2. ScheduledJobsCanBeClaimed' /\ LiveRowsAreLeased'
  BY DEF IInv, ScheduledJobsCanBeClaimed, LiveRowsAreLeased
<1>3. RunningTokensDiffer'
  BY <1>b DEF IInv, RunningTokensDiffer, Idle
<1>4. HolderHasReducedLoudEvidence'
  <2> SUFFICES ASSUME NEW o1 \in Operations, NEW q \in Passes,
                      Holds(q, o1)', MayComplete(q)', job'[o1].due = "infinity"
               PROVE  pending'[o1] # "loud"
    BY DEF HolderHasReducedLoudEvidence
  <2>1. CASE q # p
    <3>1. Holds(q, o1) /\ MayComplete(q)
      BY <1>b, <2>1 DEF Holds, Idle, MayComplete
    <3>2. QED
      BY <1>c, <3>1 DEF IInv, HolderHasReducedLoudEvidence
  <2>2. CASE q = p
    <3>1. Holds(p, o1) /\ r.pc # "idle" /\ o1 = pass[p].op
      BY <1>b, <2>2 DEF Holds, Idle
    <3>2. MayComplete(p) \/ pending'[o1] = "none"
      BY <2>2, <3>1
    <3>3. QED
      BY <1>c, <3>1, <3>2 DEF IInv, HolderHasReducedLoudEvidence
  <2>3. QED
    BY <2>1, <2>2
<1>5. LoudEvidenceKeepsItsJob'
  BY <1>c DEF IInv, LoudEvidenceKeepsItsJob
<1>6. ReducedCacheIsCurrent'
  BY DEF Settles
<1>7. QED
  BY <1>1, <1>2, <1>3, <1>4, <1>5, <1>6 DEF IInv

\* A claim gives a fresh token to an idle pass and to the row it took.
LEMMA ClaimStep ==
  ASSUME IInv, NEW p \in Passes, Idle(p), NEW o \in Operations,
         NEW t \in Tokens, FreshToken(t), NEW pc \in {"claimed", "repairing"},
         job' = [job EXCEPT ![o] = Leased(t)], Start(p, o, t, pc),
         UNCHANGED <<operationVars, expired, failures>>
  PROVE  IInv'
<1> DEFINE r == [pc |-> pc, op |-> o, token |-> t,
                 view |-> cached[o], result |-> "requeue"]
<1>a. r \in RunningPass
  BY DEF IInv, TypeOK, RunningPass, PassPcs, Results
<1>b. pass' = [pass EXCEPT ![p] = r]
  BY DEF Start
<1>c. pass'[p] = r /\ \A q \in Passes : q # p => pass'[q] = pass[q]
  BY <1>b DEF IInv, TypeOK
<1>d. job'[o] = Leased(t) /\ \A o1 \in Operations : o1 # o => job'[o1] = job[o1]
  BY DEF IInv, TypeOK
<1>1. TypeOK'
  BY <1>a, <1>b, LeasedRow DEF IInv, TypeOK, operationVars
<1>2. ScheduledJobsCanBeClaimed' /\ LiveRowsAreLeased'
  BY <1>d, LeasedRow, TokenAssumption
     DEF IInv, ScheduledJobsCanBeClaimed, LiveRowsAreLeased
<1>3. RunningTokensDiffer'
  BY <1>c DEF IInv, RunningTokensDiffer, Idle, FreshToken
<1>4. HolderHasReducedLoudEvidence'
  <2> SUFFICES ASSUME NEW o1 \in Operations, NEW q \in Passes,
                      Holds(q, o1)', MayComplete(q)', job'[o1].due = "infinity"
               PROVE  pending'[o1] # "loud"
    BY DEF HolderHasReducedLoudEvidence
  <2>1. q # p
    BY <1>c DEF MayComplete
  <2>2. o1 # o
    BY <1>c, <1>d, <2>1, LeasedRow DEF Holds, Idle, FreshToken
  <2>3. Holds(q, o1) /\ MayComplete(q) /\ job[o1].due = "infinity"
    BY <1>c, <1>d, <2>1, <2>2 DEF Holds, Idle, MayComplete
  <2>4. QED
    BY <2>3 DEF IInv, HolderHasReducedLoudEvidence, operationVars
<1>5. LoudEvidenceKeepsItsJob' /\ ReducedCacheIsCurrent'
  BY <1>d, LeasedRow
     DEF IInv, LoudEvidenceKeepsItsJob, ReducedCacheIsCurrent, operationVars
<1>6. QED
  BY <1>1, <1>2, <1>3, <1>4, <1>5 DEF IInv

\* The holder finishes its lease.
LEMMA FinishStep ==
  ASSUME IInv, NEW p \in Passes, Finish(p)
  PROVE  IInv'
<1> DEFINE o == pass[p].op
           row == Finished(job[o], pass[p].result)
<1>a. o \in Operations /\ pass[p].result \in Results /\ ~Idle(p) /\ Holds(p, o)
  BY DEF IInv, TypeOK, Finish, Idle, RunningPass, IdlePass
<1>b. job[o] \in Job
  BY <1>a DEF IInv, TypeOK
<1>c. /\ row \in Job /\ row.token = NoToken /\ row.live = FALSE
      /\ row.status # "leased"
      /\ row.status = "scheduled" => row.due # "infinity"
      /\ row.status = "completed" =>
           pass[p].result = "completed" /\ job[o].due = "infinity"
  BY <1>a, <1>b, FinishedRowIs
<1>d. job'[o] = row /\ \A o1 \in Operations : o1 # o => job'[o1] = job[o1]
  BY <1>a DEF Finish, IInv, TypeOK
<1>e. Settles(o) /\ pass' = [pass EXCEPT ![p] = IdlePass]
  BY <1>a, SettlingSteps DEF Finish
<1>f. \A o1 \in Operations : pending'[o1] \in {pending[o1], "none"}
  BY <1>a, <1>e DEF IInv, TypeOK, Settles
<1>g. pass'[p] = IdlePass /\ \A q \in Passes : q # p => pass'[q] = pass[q]
  BY <1>e DEF IInv, TypeOK
<1> HIDE DEF row
<1>1. TypeOK'
  BY <1>a, <1>c, <1>e DEF Finish, IInv, TypeOK, Settles, Evidence, row
<1>2. ScheduledJobsCanBeClaimed' /\ LiveRowsAreLeased'
  BY <1>c, <1>d DEF IInv, ScheduledJobsCanBeClaimed, LiveRowsAreLeased
<1>3. RunningTokensDiffer'
  BY <1>g DEF IInv, RunningTokensDiffer, Idle, IdlePass
<1>4. HolderHasReducedLoudEvidence'
  <2> SUFFICES ASSUME NEW o1 \in Operations, NEW q \in Passes,
                      Holds(q, o1)', MayComplete(q)', job'[o1].due = "infinity"
               PROVE  pending'[o1] # "loud"
    BY DEF HolderHasReducedLoudEvidence
  <2>1. q # p
    BY <1>g DEF MayComplete, IdlePass
  <2>2. pass'[q] = pass[q] /\ ~Idle(q) /\ pass[q].token \in Tokens
    BY <1>g, <2>1 DEF Holds, Idle, IInv, TypeOK, RunningPass, IdlePass
  <2>3. o1 # o
    BY <1>c, <1>d, <2>2, TokenAssumption DEF Holds
  <2>4. Holds(q, o1) /\ MayComplete(q) /\ job[o1].due = "infinity"
    BY <1>d, <2>2, <2>3 DEF Holds, Idle, MayComplete
  <2>5. QED
    BY <1>f, <2>4 DEF IInv, HolderHasReducedLoudEvidence
<1>5. LoudEvidenceKeepsItsJob'
  <2> SUFFICES ASSUME NEW o1 \in Operations, pending'[o1] = "loud",
                      job'[o1].status = "completed"
               PROVE  FALSE
    BY DEF LoudEvidenceKeepsItsJob
  <2>1. pending[o1] = "loud"
    BY <1>f
  <2>2. o1 = o
    BY <1>d, <2>1 DEF IInv, LoudEvidenceKeepsItsJob
  <2>3. MayComplete(p) /\ job[o].due = "infinity"
    BY <1>c, <1>d, <2>2 DEF Finish, MayComplete
  <2>4. QED
    BY <1>a, <2>1, <2>2, <2>3 DEF IInv, HolderHasReducedLoudEvidence
<1>6. ReducedCacheIsCurrent'
  BY <1>e DEF Settles
<1>7. QED
  BY <1>1, <1>2, <1>3, <1>4, <1>5, <1>6 DEF IInv

-----------------------------------------------------------------------------
(* Every step preserves the invariant.                                     *)

LEMMA RunningPassIs ==
  ASSUME IInv, NEW p \in Passes, ~Idle(p)
  PROVE  /\ pass[p] \in RunningPass
         /\ pass[p].op \in Operations
         /\ \A pc \in PassPcs, v \in Verdicts, r \in Results :
              [pass[p] EXCEPT !.pc = pc, !.view = v, !.result = r] \in RunningPass
<1>1. pass[p] \in RunningPass /\ pass[p].op \in Operations
  BY DEF IInv, TypeOK, Idle, RunningPass, IdlePass
<1>2. ASSUME NEW pc \in PassPcs, NEW v \in Verdicts, NEW r \in Results
      PROVE  [pass[p] EXCEPT !.pc = pc, !.view = v, !.result = r] \in RunningPass
  BY <1>1 DEF RunningPass
<1>3. QED
  BY <1>1, <1>2

\* A running pass takes pc, view and result; it may complete only if it already
\* could or if its step consumed the evidence.
LEMMA MoveStep ==
  ASSUME IInv, NEW p \in Passes, ~Idle(p),
         NEW pc \in PassPcs, NEW v \in Verdicts, NEW r \in Results,
         pass' = [pass EXCEPT ![p] =
                    [@ EXCEPT !.pc = pc, !.view = v, !.result = r]],
         \/ pc # "reduced" /\ (pc \in {"finishing", "closing"} => r # "completed")
         \/ MayComplete(p)
         \/ pending'[pass[p].op] = "none",
         Settles(pass[p].op), UNCHANGED <<job, expired>>,
         failures' \in 0..MaxFailures
  PROVE  IInv'
<1> DEFINE s == [pass[p] EXCEPT !.pc = pc, !.view = v, !.result = r]
<1>1. /\ s \in RunningPass /\ s.op = pass[p].op /\ s.token = pass[p].token
      /\ s.pc = pc /\ s.result = r
  BY RunningPassIs DEF RunningPass
<1>2. pass' = [pass EXCEPT ![p] = s] /\ pass'[p] = s
  BY DEF IInv, TypeOK
<1>3. MayComplete(p)' => MayComplete(p) \/ pending'[pass[p].op] = "none"
  BY <1>1, <1>2 DEF MayComplete
<1> HIDE DEF s
<1>4. QED
  BY <1>1, <1>2, <1>3, PassStep

\* The steps of a pass that neither record evidence nor escalate.
LEMMA AdvanceStep ==
  ASSUME IInv, NEW p \in Passes, Advance(p) \/ Fault(p)
  PROVE  IInv'
<1> USE DEF At
<1>0. CASE Finish(p)
  BY <1>0, FinishStep
<1>1. SUFFICES ASSUME ~Finish(p) PROVE IInv'
  BY <1>0
<1>2. ~Idle(p)
  BY <1>1 DEF Advance, Fault, Load, PollDone, Reduce, Decide, CatchError,
     FinishRefused, RepairPolled, RepairReduce, Throw, Crash,
     TerminalReceiptUnavailable, DecideReorgIncident, RepairUnavailable, Idle
<1> DEFINE o == pass[p].op
<1>3. pass[p] \in RunningPass /\ o \in Operations
  BY <1>2, RunningPassIs
<1>4. verdict[o] \in Verdicts /\ pass[p].pc \in PassPcs
  BY <1>3 DEF IInv, TypeOK, RunningPass
<1>5. failures' \in 0..MaxFailures /\ job' = job /\ expired' = expired
  BY <1>1, FailureAssumption
     DEF Advance, Fault, Load, PollDone, Reduce, Decide, CatchError,
     FinishRefused, RepairPolled, RepairReduce, Throw, Crash,
     TerminalReceiptUnavailable, DecideReorgIncident, RepairUnavailable,
     IInv, TypeOK
<1>6. Settles(o)
  BY <1>1, <1>3, SettlingSteps
     DEF Advance, Fault, Load, PollDone, Reduce, Decide, CatchError,
     FinishRefused, RepairPolled, RepairReduce, Throw, Crash,
     TerminalReceiptUnavailable, DecideReorgIncident, RepairUnavailable
<1>7. CASE pass' = [pass EXCEPT ![p] = IdlePass]
  BY <1>2, <1>5, <1>6, <1>7, PassStep DEF IdlePass
<1>9. CASE Reduce(p)
  <2>1. pending'[o] = "none"
    BY <1>3, <1>9 DEF Reduce, Reduced, IInv, TypeOK
  <2>2. pass' = [pass EXCEPT ![p] = [@ EXCEPT !.pc = "reduced",
                   !.view = verdict[o], !.result = pass[p].result]]
    BY <1>3, <1>9 DEF Reduce, RunningPass
  <2>3. QED
    BY <1>2, <1>3, <1>4, <1>5, <1>6, <2>1, <2>2, MoveStep DEF PassPcs, RunningPass
<1>10. CASE Load(p)
  <2>1. pass' = [pass EXCEPT ![p] = [@ EXCEPT !.pc = "loaded",
                   !.view = verdict[o], !.result = pass[p].result]]
    BY <1>3, <1>10 DEF Load, RunningPass
  <2>2. QED
    BY <1>2, <1>3, <1>4, <1>5, <1>6, <2>1, MoveStep DEF PassPcs, RunningPass
<1>11. CASE PollDone(p) \/ Throw(p) \/ RepairPolled(p)
            \/ (FinishRefused(p) /\ Goto(p, "failed"))
  <2>1. PICK pc \in {"polled", "failed", "repair_polled"} :
          pass' = [pass EXCEPT ![p] = [@ EXCEPT !.pc = pc,
                     !.view = pass[p].view, !.result = pass[p].result]]
    BY <1>3, <1>11 DEF PollDone, Throw, RepairPolled, Goto, RunningPass
  <2>2. QED
    BY <1>2, <1>3, <1>5, <1>6, <2>1, MoveStep DEF PassPcs, RunningPass
<1>12. CASE Decide(p) \/ DecideReorgIncident(p) \/ TerminalReceiptUnavailable(p)
            \/ CatchError(p) \/ RepairUnavailable(p) \/ RepairReduce(p)
  <2>1. PICK r \in Results :
          /\ GotoResult(p, r) \/ CloseWith(p, r)
          /\ r = "completed" => Decide(p)
    <3>1. CASE Decide(p)
      BY <3>1 DEF Decide, Disposition, Results
    <3>2. CASE ~Decide(p)
      BY <1>12, <3>2 DEF DecideReorgIncident, TerminalReceiptUnavailable,
         CatchError, RepairUnavailable, RepairReduce, Results
    <3>3. QED
      BY <3>1, <3>2
  <2>2. PICK pc \in {"finishing", "closing"} :
          pass' = [pass EXCEPT ![p].pc = pc, ![p].result = r]
    BY <2>1 DEF GotoResult, CloseWith
  <2>3. pass' = [pass EXCEPT ![p] = [@ EXCEPT !.pc = pc,
                   !.view = pass[p].view, !.result = r]]
    BY <1>3, <2>2 DEF RunningPass
  <2>4. r = "completed" => MayComplete(p)
    BY <2>1 DEF Decide, MayComplete
  <2>5. QED
    BY <1>2, <1>3, <1>5, <1>6, <2>3, <2>4, MoveStep DEF PassPcs, RunningPass
<1>13. CASE Crash(p)
  BY <1>7, <1>13 DEF Crash
<1>14. CASE FinishRefused(p)
  BY <1>7, <1>11, <1>14 DEF FinishRefused
<1>15. QED
  BY <1>1, <1>9, <1>10, <1>11, <1>12, <1>13, <1>14 DEF Advance, Fault

\* The steps that record evidence, escalate or cancel.
LEMMA OptionalStep ==
  ASSUME IInv, NEW p \in Passes, Optional(p)
  PROVE  IInv'
<1> USE DEF At
<1>1. ~Idle(p)
  BY DEF Optional, CloseExpiredPreparations, ExpireUnbroadcastWait,
     PollEvidence, DecideTimeout, CatchTimeout, RepairEvidence, Idle
<1> DEFINE o == pass[p].op
<1>2. pass[p] \in RunningPass /\ o \in Operations
  BY <1>1, RunningPassIs
<1>3. CASE PollEvidence(p) \/ RepairEvidence(p)
  <2>1. PICK v \in Verdicts : Record(o, v, "quiet")
    BY <1>3 DEF PollEvidence, RepairEvidence
  <2>2. UNCHANGED <<cached, expired, pass, failures>>
    BY <1>3 DEF PollEvidence, RepairEvidence
  <2>3. QED
    BY <1>2, <2>1, <2>2, RecordStep
<1>4. CASE CloseExpiredPreparations(p)
  <2>1. pass' = [pass EXCEPT ![p] = pass[p]] /\ MayComplete(p)' = MayComplete(p)
    BY <1>4 DEF CloseExpiredPreparations, IInv, TypeOK, MayComplete
  <2>2. Settles(o) /\ job' = job /\ expired' = expired
        /\ failures' \in 0..MaxFailures
    BY <1>2, <1>4, SettlingSteps DEF CloseExpiredPreparations, IInv, TypeOK
  <2>3. QED
    BY <1>1, <1>2, <2>1, <2>2, PassStep
<1>5. CASE ExpireUnbroadcastWait(p)
  <2>1. Settles(o) /\ UNCHANGED <<job, expired>> /\ failures' \in 0..MaxFailures
    BY <1>2, <1>5, SettlingSteps
       DEF ExpireUnbroadcastWait, IInv, TypeOK, Verdicts
  <2>2. pending'[o] = "none"
    BY <1>2, <1>5 DEF ExpireUnbroadcastWait, ReducedTo, IInv, TypeOK
  <2>3. CASE pass' = [pass EXCEPT ![p].view = "terminal"]
    <3>1. pass' = [pass EXCEPT ![p] = [@ EXCEPT !.pc = pass[p].pc,
                     !.view = "terminal", !.result = pass[p].result]]
      BY <1>2, <2>3 DEF RunningPass
    <3>2. QED
      BY <1>1, <1>2, <2>1, <2>2, <3>1, MoveStep DEF RunningPass, Verdicts
  <2>4. CASE GotoResult(p, "completed")
    <3>1. pass' = [pass EXCEPT ![p] = [@ EXCEPT !.pc = "finishing",
                     !.view = pass[p].view, !.result = "completed"]]
      BY <1>2, <2>4 DEF RunningPass, GotoResult
    <3>2. QED
      BY <1>1, <1>2, <2>1, <2>2, <3>1, MoveStep
         DEF RunningPass, PassPcs, Results
  <2>5. QED
    BY <1>5, <2>3, <2>4 DEF ExpireUnbroadcastWait
<1>6. CASE DecideTimeout(p) \/ CatchTimeout(p)
  <2>1. Settles(o) /\ UNCHANGED <<job, expired>> /\ failures' \in 0..MaxFailures
    BY <1>2, <1>6, SettlingSteps DEF DecideTimeout, CatchTimeout, IInv, TypeOK
  <2>2. PICK pc \in {"finishing", "closing"} :
          pass' = [pass EXCEPT ![p].pc = pc, ![p].result = "requeue"]
    BY <1>6 DEF DecideTimeout, CatchTimeout, GotoResult, CloseWith
  <2>3. pass' = [pass EXCEPT ![p] = [@ EXCEPT !.pc = pc,
                   !.view = pass[p].view, !.result = "requeue"]]
    BY <1>2, <2>2 DEF RunningPass
  <2>4. QED
    BY <1>1, <1>2, <2>1, <2>3, MoveStep DEF RunningPass, PassPcs, Results
<1>7. QED
  BY <1>3, <1>4, <1>5, <1>6 DEF Optional

LEMMA EnvironmentStep ==
  ASSUME IInv, NEW o \in Operations, Environment(o)
  PROVE  IInv'
<1>1. CASE Report(o)
  <2>1. PICK v \in Verdicts :
          Record(o, v, "loud") /\ cached' = [cached EXCEPT ![o] = v]
    BY <1>1 DEF Report
  <2>2. QED
    BY <1>1, <2>1, RecordStep DEF Report
<1>2. CASE ScanDestination(o)
  <2>1. PICK v \in Verdicts : Record(o, v, "quiet")
    BY <1>2 DEF ScanDestination
  <2>2. QED
    BY <1>2, <2>1, RecordStep DEF ScanDestination
<1>3. CASE OperationExpires(o)
  BY <1>3 DEF OperationExpires, IInv, TypeOK, operationVars,
     ScheduledJobsCanBeClaimed, LiveRowsAreLeased, RunningTokensDiffer, Idle,
     HolderHasReducedLoudEvidence, Holds, MayComplete,
     LoudEvidenceKeepsItsJob, ReducedCacheIsCurrent
<1>4. CASE LeaseRunsOut(o) \/ ComesDue(o)
  <2>1. PICK row \in Job :
          /\ job' = [job EXCEPT ![o] = row]
          /\ row.token = job[o].token /\ row.status = job[o].status
          /\ row.due = "infinity" => job[o].due = "infinity"
          /\ row.live => job[o].live
    <3>1. [job[o] EXCEPT !.live = FALSE] \in Job
          /\ [job[o] EXCEPT !.due = "past"] \in Job
      BY DEF IInv, TypeOK, Job, DueTimes
    <3>2. QED
      BY <1>4, <3>1 DEF LeaseRunsOut, ComesDue, IInv, TypeOK, Job
  <2>2. UNCHANGED <<verdict, cached, pending, expired, pass, failures>>
    BY <1>4 DEF LeaseRunsOut, ComesDue, operationVars
  <2>3. QED
    BY <2>1, <2>2 DEF IInv, TypeOK, ScheduledJobsCanBeClaimed,
       LiveRowsAreLeased, RunningTokensDiffer, Idle,
       HolderHasReducedLoudEvidence, Holds, MayComplete,
       LoudEvidenceKeepsItsJob, ReducedCacheIsCurrent
<1>5. QED
  BY <1>1, <1>2, <1>3, <1>4 DEF Environment

LEMMA NextIInv == IInv /\ [Next]_vars => IInv'
<1> SUFFICES ASSUME IInv, [Next]_vars PROVE IInv'
  OBVIOUS
<1>1. CASE UNCHANGED vars
  BY <1>1 DEF vars, IInv, TypeOK, ScheduledJobsCanBeClaimed,
     LiveRowsAreLeased, RunningTokensDiffer, Idle,
     HolderHasReducedLoudEvidence, Holds, MayComplete,
     LoudEvidenceKeepsItsJob, ReducedCacheIsCurrent
<1>2. ASSUME NEW o \in Operations, NEW p \in Passes,
             Claim(p, o) \/ RepairClaim(p, o)
      PROVE  IInv'
  <2>1. PICK t \in Tokens, pc \in {"claimed", "repairing"} :
          /\ FreshToken(t)
          /\ job' = [job EXCEPT ![o] = Leased(t)]
          /\ Start(p, o, t, pc)
    BY <1>2 DEF Claim, RepairClaim
  <2>2. Idle(p) /\ UNCHANGED <<operationVars, expired, failures>>
    BY <1>2 DEF Claim, RepairClaim
  <2>3. QED
    BY <2>1, <2>2, ClaimStep
<1>3. QED
  BY <1>1, <1>2, AdvanceStep, OptionalStep, EnvironmentStep DEF Next

-----------------------------------------------------------------------------
(* The theorems.                                                           *)

\* The invariant holds in every state of the queue.
THEOREM InductiveInvariant == Spec => []IInv
BY InitIInv, NextIInv, PTL DEF Spec

\* Type correctness of the row, of the operation facts and of the passes.
THEOREM TypeCorrect == Spec => []TypeOK
<1>1. IInv => TypeOK
  BY DEF IInv
<1>2. QED
  BY <1>1, InductiveInvariant, PTL

\* Every scheduled job has a finite due time and a lease token is held exactly
\* by leased rows (claim, wake and finish of funding-operation-repository).
THEOREM JobsCanBeClaimed == Spec => []ScheduledJobsCanBeClaimed
<1>1. IInv => ScheduledJobsCanBeClaimed
  BY DEF IInv
<1>2. QED
  BY <1>1, InductiveInvariant, PTL

\* However many passes work on an operation, one at most can finish its lease.
THEOREM OneHolder == Spec => []LeaseHolderIsUnique
<1>1. IInv => LeaseHolderIsUnique
  BY DEF IInv, RunningTokensDiffer, LeaseHolderIsUnique, Holds
<1>2. QED
  BY <1>1, InductiveInvariant, PTL

\* A completed job owes no evidence that was recorded with a wake.
THEOREM LoudEvidenceIsKept == Spec => []LoudEvidenceKeepsItsJob
<1>1. IInv => LoudEvidenceKeepsItsJob
  BY DEF IInv
<1>2. QED
  BY <1>1, InductiveInvariant, PTL

\* With nothing left to reduce, the operation row shows the facts' verdict.
THEOREM CacheIsCurrent == Spec => []ReducedCacheIsCurrent
<1>1. IInv => ReducedCacheIsCurrent
  BY DEF IInv
<1>2. QED
  BY <1>1, InductiveInvariant, PTL

-----------------------------------------------------------------------------
(* What a step does to the row and to the evidence of each operation.       *)

LEMMA SettlingKeepsOthers ==
  ASSUME IInv, NEW o \in Operations, Settles(o)
  PROVE  /\ \A o1 \in Operations \ {o} : pending'[o1] = pending[o1]
         /\ pending'[o] \in {pending[o], "none"}
BY DEF Settles, IInv, TypeOK

\* A step settles one operation and leaves the jobs alone, or is one of the
\* row statements.
LEMMA StepKinds ==
  ASSUME IInv, Next
  PROVE  \E o \in Operations :
           \/ Settles(o) /\ job' = job
           \/ \E v \in Verdicts, kind \in {"quiet", "loud"} : Record(o, v, kind)
           \/ \E p \in Passes : Claim(p, o) \/ RepairClaim(p, o)
           \/ \E p \in Passes : Finish(p) /\ o = pass[p].op /\ Holds(p, o)
           \/ LeaseRunsOut(o) \/ ComesDue(o)
<1>1. ASSUME NEW o \in Operations, Environment(o)
      PROVE  \/ Settles(o) /\ job' = job
             \/ \E v \in Verdicts, kind \in {"quiet", "loud"} : Record(o, v, kind)
             \/ LeaseRunsOut(o) \/ ComesDue(o)
  BY <1>1, SettlingSteps
     DEF Environment, Report, ScanDestination, OperationExpires
<1>2. ASSUME NEW p \in Passes, Advance(p) \/ Optional(p) \/ Fault(p)
      PROVE  pass[p].op \in Operations
  <2>1. ~Idle(p)
    BY <1>2 DEF Advance, Fault, Optional, At, Load, PollDone, Reduce, Decide,
       CatchError, Finish, FinishRefused, RepairPolled, RepairReduce, Throw,
       Crash, TerminalReceiptUnavailable, DecideReorgIncident,
       RepairUnavailable, CloseExpiredPreparations, ExpireUnbroadcastWait,
       PollEvidence, DecideTimeout, CatchTimeout, RepairEvidence, Idle
  <2>2. QED
    BY <2>1, RunningPassIs
<1>3. ASSUME NEW p \in Passes, Advance(p) \/ Fault(p)
      PROVE  \/ Settles(pass[p].op) /\ job' = job
             \/ Finish(p) /\ Holds(p, pass[p].op)
  BY <1>2, <1>3, SettlingSteps
     DEF Advance, Fault, Load, PollDone, Reduce, Decide, CatchError, Finish,
     FinishRefused, RepairPolled, RepairReduce, Throw, Crash,
     TerminalReceiptUnavailable, DecideReorgIncident, RepairUnavailable
<1>4. ASSUME NEW p \in Passes, Optional(p)
      PROVE  \/ Settles(pass[p].op) /\ job' = job
             \/ \E v \in Verdicts, kind \in {"quiet", "loud"} :
                  Record(pass[p].op, v, kind)
  <2>1. "terminal" \in Verdicts
    BY DEF Verdicts
  <2>2. QED
    BY <1>2, <1>4, <2>1, SettlingSteps
       DEF Optional, CloseExpiredPreparations, ExpireUnbroadcastWait,
       PollEvidence, DecideTimeout, CatchTimeout, RepairEvidence
<1>5. QED
  BY <1>1, <1>2, <1>3, <1>4 DEF Next

LEMMA LeaseStep ==
  ASSUME IInv, [Next]_vars, NEW o \in Operations,
         LeaseIsLive(job[o]), job'[o].token # job[o].token
  PROVE  \E p \in Passes : Holds(p, o) /\ pass'[p].pc = "idle"
<1>1. Next
  BY DEF vars
<1>2. PICK o1 \in Operations :
           \/ Settles(o1) /\ job' = job
           \/ \E v \in Verdicts, kind \in {"quiet", "loud"} : Record(o1, v, kind)
           \/ \E p \in Passes : Claim(p, o1) \/ RepairClaim(p, o1)
           \/ \E p \in Passes : Finish(p) /\ o1 = pass[p].op /\ Holds(p, o1)
           \/ LeaseRunsOut(o1) \/ ComesDue(o1)
  BY <1>1, StepKinds
<1>3. ASSUME NEW v \in Verdicts, NEW kind \in {"quiet", "loud"},
             Record(o1, v, kind)
      PROVE  FALSE
  <2>1. o1 = o /\ job'[o] = Woken(job[o], kind = "loud")
    BY <1>3 DEF Record, IInv, TypeOK
  <2>2. job[o] \in Job /\ (kind = "loud") \in BOOLEAN
    BY DEF IInv, TypeOK
  <2>3. Woken(job[o], kind = "loud").token = job[o].token
    BY <2>2, WokenRow
  <2>4. QED
    BY <2>1, <2>3
<1>4. ASSUME NEW p \in Passes, Claim(p, o1) \/ RepairClaim(p, o1)
      PROVE  FALSE
  <2>1. o1 = o
    BY <1>4 DEF Claim, RepairClaim, IInv, TypeOK
  <2>2. QED
    BY <1>4, <2>1 DEF Claim, RepairClaim, Claimable, Repairable, LeaseIsLive
<1>5. ASSUME LeaseRunsOut(o1) \/ ComesDue(o1)
      PROVE  FALSE
  BY <1>5 DEF LeaseRunsOut, ComesDue, IInv, TypeOK, Job
<1>6. PICK p \in Passes : Finish(p) /\ o1 = pass[p].op /\ Holds(p, o1)
  BY <1>2, <1>3, <1>4, <1>5
<1>7. o1 = o
  BY <1>6 DEF Finish, IInv, TypeOK
<1>8. pass'[p].pc = "idle"
  BY <1>6 DEF Finish, IInv, TypeOK, IdlePass
<1>9. QED
  BY <1>6, <1>7, <1>8

\* No claim, wake or stale worker ever takes a live lease from its holder.
THEOREM LeasesAreFenced == Spec => LiveLeaseEndsByItsHolder
<1>1. IInv /\ [Next]_vars =>
        [\A o \in Operations :
           LeaseIsLive(job[o]) /\ job'[o].token # job[o].token =>
             \E p \in Passes : Holds(p, o) /\ pass'[p].pc = "idle"]_vars
  BY LeaseStep
<1>2. QED
  BY <1>1, InductiveInvariant, PTL DEF Spec, LiveLeaseEndsByItsHolder

-----------------------------------------------------------------------------
(* The queue implements EvidencePromise (its safety part).                 *)

LEMMA RefinementStep ==
  ASSUME IInv, [Next]_vars
  PROVE  [Promise!Next]_Promise!vars
<1> DEFINE owes == [o \in Operations |-> pending[o] = "loud"]
           phase == [o \in Operations |->
                       CASE job[o].status = "completed" -> "retired"
                         [] job[o].status = "dead_letter" -> "stopped"
                         [] OTHER -> "working"]
<1>1. CASE UNCHANGED vars
  BY <1>1 DEF vars, Promise!vars
<1>2. CASE Next
  <2>1. PICK o \in Operations :
           \/ Settles(o) /\ job' = job
           \/ \E v \in Verdicts, kind \in {"quiet", "loud"} : Record(o, v, kind)
           \/ \E p \in Passes : Claim(p, o) \/ RepairClaim(p, o)
           \/ \E p \in Passes : Finish(p) /\ o = pass[p].op /\ Holds(p, o)
           \/ LeaseRunsOut(o) \/ ComesDue(o)
    BY <1>2, StepKinds
  <2>2. SUFFICES
          \/ owes' = owes /\ phase' = phase
          \/ owes' = [owes EXCEPT ![o] = TRUE]
             /\ phase' = [phase EXCEPT ![o] = "working"]
          \/ owes[o] /\ owes' = [owes EXCEPT ![o] = FALSE] /\ phase' = phase
          \/ phase[o] = "working" /\ ~owes[o] /\ owes' = owes
             /\ phase' = [phase EXCEPT ![o] = "retired"]
          \/ phase[o] = "working" /\ phase' = [phase EXCEPT ![o] = "stopped"]
             /\ owes' \in {owes, [owes EXCEPT ![o] = FALSE]}
          \/ phase[o] # "working" /\ owes' = owes
             /\ phase' = [phase EXCEPT ![o] = "working"]
    BY DEF Promise!Next, Promise!vars, Promise!Record, Promise!Handle,
       Promise!Retire, Promise!Stop, Promise!Revive
  <2>3. CASE Settles(o) /\ job' = job
    BY <2>3, SettlingKeepsOthers
  <2>4. ASSUME NEW v \in Verdicts, NEW kind \in {"quiet", "loud"},
               Record(o, v, kind)
        PROVE  \/ owes' = owes /\ phase' = phase
               \/ owes' = [owes EXCEPT ![o] = TRUE]
                  /\ phase' = [phase EXCEPT ![o] = "working"]
               \/ phase[o] # "working" /\ owes' = owes
                  /\ phase' = [phase EXCEPT ![o] = "working"]
    <3>1. job[o] \in Job /\ (kind = "loud") \in BOOLEAN
      BY DEF IInv, TypeOK
    <3>2. job'[o] = Woken(job[o], kind = "loud")
          /\ \A o1 \in Operations \ {o} : job'[o1] = job[o1]
      BY <2>4 DEF Record, IInv, TypeOK
    <3>a. Woken(job[o], kind = "loud").status \in {"scheduled", "leased"}
      BY <3>1, WokenRow
    <3>3. phase' = [phase EXCEPT ![o] = "working"]
      BY <3>2, <3>a
    <3>4. CASE kind = "loud"
      <4>1. owes' = [owes EXCEPT ![o] = TRUE]
        BY <2>4, <3>4 DEF Record, IInv, TypeOK
      <4>2. QED
        BY <3>3, <4>1
    <3>5. CASE kind = "quiet"
      <4>1. owes' = owes
        BY <2>4, <3>5 DEF Record, IInv, TypeOK
      <4>2. QED
        BY <3>3, <4>1
    <3>6. QED
      BY <3>4, <3>5
  <2>5. ASSUME NEW p \in Passes, Claim(p, o) \/ RepairClaim(p, o)
        PROVE  \/ owes' = owes /\ phase' = phase
               \/ phase[o] # "working" /\ owes' = owes
                  /\ phase' = [phase EXCEPT ![o] = "working"]
    <3>1. owes' = owes
      BY <2>5 DEF Claim, RepairClaim, operationVars
    <3>2. phase' = [phase EXCEPT ![o] = "working"]
      BY <2>5, LeasedRow DEF Claim, RepairClaim, IInv, TypeOK
    <3>3. QED
      BY <3>1, <3>2
  <2>6. ASSUME NEW p \in Passes, Finish(p), o = pass[p].op, Holds(p, o)
        PROVE  \/ owes' = owes /\ phase' = phase
               \/ phase[o] = "working" /\ ~owes[o] /\ owes' = owes
                  /\ phase' = [phase EXCEPT ![o] = "retired"]
               \/ phase[o] = "working" /\ phase' = [phase EXCEPT ![o] = "stopped"]
                  /\ owes' \in {owes, [owes EXCEPT ![o] = FALSE]}
    <3>1. pass[p] \in RunningPass /\ job[o] \in Job
      BY <2>6, RunningPassIs DEF Holds, IInv, TypeOK
    <3>2. job[o].status = "leased"
      BY <2>6, <3>1, TokenAssumption
         DEF Holds, RunningPass, IInv, ScheduledJobsCanBeClaimed
    <3>3. phase[o] = "working"
      BY <3>2
    <3>4. /\ job'[o] = Finished(job[o], pass[p].result)
          /\ \A o1 \in Operations \ {o} : job'[o1] = job[o1]
      BY <2>6 DEF Finish, IInv, TypeOK
    <3>5. CASE pass[p].result # "dead_letter"
      <4>1. owes' = owes
        BY <2>6, <3>5 DEF Finish, operationVars
      <4>2. CASE Finished(job[o], pass[p].result).status = "completed"
        <5>1. job[o].due = "infinity" /\ MayComplete(p)
          BY <2>6, <3>1, <4>2, FinishedRowIs DEF Finish, MayComplete, RunningPass
        <5>2. ~owes[o]
          BY <2>6, <5>1 DEF IInv, HolderHasReducedLoudEvidence
        <5>3. phase' = [phase EXCEPT ![o] = "retired"]
          BY <3>4, <4>2
        <5>4. QED
          BY <3>3, <4>1, <5>2, <5>3
      <4>3. CASE Finished(job[o], pass[p].result).status = "dead_letter"
        <5>1. phase' = [phase EXCEPT ![o] = "stopped"]
          BY <3>4, <4>3
        <5>2. QED
          BY <3>3, <4>1, <5>1
      <4>4. CASE Finished(job[o], pass[p].result).status = "scheduled"
        <5>1. phase' = phase
          BY <3>2, <3>4, <4>4
        <5>2. QED
          BY <4>1, <5>1
      <4>5. Finished(job[o], pass[p].result) \in Job
            /\ Finished(job[o], pass[p].result).status # "leased"
        BY <3>1, FinishedRowIs DEF RunningPass
      <4>6. QED
        BY <4>2, <4>3, <4>4, <4>5 DEF Job, Statuses
    <3>6. CASE pass[p].result = "dead_letter"
      <4>1. Finished(job[o], pass[p].result).status = "dead_letter"
        BY <3>6 DEF Finished, FinishedRow
      <4>2. phase' = [phase EXCEPT ![o] = "stopped"]
        BY <3>4, <4>1
      <4>3. Settles(o)
        BY <2>6, <3>6, SettlingSteps DEF Finish
      <4>4. owes' \in {owes, [owes EXCEPT ![o] = FALSE]}
        BY <4>3, SettlingKeepsOthers
      <4>5. QED
        BY <3>3, <4>2, <4>4
    <3>7. QED
      BY <3>5, <3>6
  <2>7. ASSUME LeaseRunsOut(o) \/ ComesDue(o)
        PROVE  owes' = owes /\ phase' = phase
    <3>1. \A o1 \in Operations :
            job'[o1].status = job[o1].status /\ pending' = pending
      BY <2>7 DEF LeaseRunsOut, ComesDue, operationVars, IInv, TypeOK, Job
    <3>2. QED
      BY <3>1
  <2>8. QED
    BY <2>1, <2>3, <2>4, <2>5, <2>6, <2>7
<1>3. QED
  BY <1>1, <1>2

\* The queue implements the promise: evidence that woke a job is owed until it
\* is reduced or its operation is stopped, and no job retires owing any.
THEOREM QueueImplementsPromise == Spec => Promise!Spec
<1>1. Init => Promise!Init
  <2> SUFFICES ASSUME Init PROVE Promise!Init
    OBVIOUS
  <2>1. \A o \in Operations : pending[o] = "none" /\ job[o].status = "scheduled"
    BY DEF Init
  <2>2. \A o \in Operations : (pending[o] = "loud") = FALSE
    BY <2>1
  <2>3. QED
    BY <2>1, <2>2 DEF Promise!Init
<1>2. IInv /\ [Next]_vars => [Promise!Next]_Promise!vars
  BY RefinementStep
<1>3. QED
  BY <1>1, <1>2, InductiveInvariant, PTL DEF Spec, Promise!Spec
=============================================================================

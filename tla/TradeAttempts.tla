--------------------------- MODULE TradeAttempts ---------------------------
(***************************************************************************)
(* The trade that a settled funding reservation was prepared for: table    *)
(* funding_trade_attempts, the settled_for_consumer row of                 *)
(* balance_reservations it spends, and the requests and reconciler passes  *)
(* that submit the trade to a venue.  One reservation is modelled, because *)
(* every transaction here locks the operation and the reservation first.   *)
(*                                                                         *)
(* A trade is one exact signed order, so it is also an idempotency key and *)
(* at most one attempt row.  A claim token (gen_random_uuid) is            *)
(* represented by the request that drew it, and the lease field holds it   *)
(* only while claim_lease_until is in the future: every statement that     *)
(* compares the token requires a live lease too.  An unaccepted row with   *)
(* broadcast_may_have_occurred is started or ambiguous, or its failure     *)
(* released the reservation in the same transaction, so the flag is not    *)
(* kept apart from the state.                                              *)
(***************************************************************************)
EXTENDS Naturals

CONSTANTS
  Requests,         \* running request handlers and reconciler passes
  Trades,           \* exact signed orders that may spend the reservation
  LimitlessTrades,  \* execution_path limitless_clob
  AmmTrades,        \* execution_path limitless_amm; the rest: polymarket_clob
  SlowRequests,     \* requests that may stay claimed beyond the 15 s lease
  NoRequest, NoTrade,
  MaxFailures       \* bound: requests that die half way, or outlive the
                    \* lease of a reconciliation, in one behaviour

ASSUME NullAssumption == NoRequest \notin Requests /\ NoTrade \notin Trades
ASSUME PathAssumption ==
  /\ LimitlessTrades \subseteq Trades
  /\ AmmTrades \subseteq Trades
  /\ LimitlessTrades \cap AmmTrades = {}
ASSUME SlowAssumption == SlowRequests \subseteq Requests
ASSUME FailureAssumption == MaxFailures \in Nat

VARIABLES
  attempt,      \* funding_trade_attempts: state and live lease of each trade
  reservation,  \* balance_reservations.state of the settled reservation
  consumer,     \* its consumer_ref: the order of a trade, or NoTrade
  expired,      \* the reservation has passed expires_at
  venue,        \* what the venue made of the order
  flight,       \* orders sent and not yet decided by the venue
  aged,         \* ambiguous for longer than the absence age (5 min)
  req,          \* the running requests (volatile)
  failures

vars == <<attempt, reservation, consumer, expired, venue, flight, aged, req,
          failures>>
rows == <<attempt, reservation, consumer>>
external == <<venue, flight>>
clock == <<expired, aged>>

-----------------------------------------------------------------------------
States == {"none", "claimed", "submission_started", "ambiguous",
           "definitive_failure", "accepted"}

\* claimed: about to prepare; starting: marked, nothing sent; submitting:
\* sent, waiting; accepted, rejected: the venue's answer; uncertain: in the
\* catch block; checking .. refused: a Limitless exact-status lookup;
\* evidence, evidence_found: a Polymarket orphan lookup.
Pcs == {"idle", "claimed", "starting", "submitting", "accepted", "rejected",
        "uncertain", "checking", "absent", "found", "refused",
        "evidence", "evidence_found"}

Checking == {"checking", "absent", "found", "refused",
             "evidence", "evidence_found"}

IdleRequest == [pc |-> "idle", trade |-> NoTrade]

TypeOK ==
  /\ attempt \in [Trades -> [state : States, lease : Requests \cup {NoRequest}]]
  /\ reservation \in {"active", "consumed", "released"}
  /\ consumer \in Trades \cup {NoTrade}
  /\ expired \in BOOLEAN
  /\ venue \in [Trades -> {"none", "live", "refused"}]
  /\ flight \subseteq Trades
  /\ aged \subseteq Trades
  /\ req \in [Requests -> [pc : Pcs, trade : Trades \cup {NoTrade}]]
  /\ \A r \in Requests : req[r].pc # "idle" => req[r].trade \in Trades
  /\ failures \in 0..MaxFailures

State(k) == attempt[k].state
At(r, pc) == req[r].pc = pc
Trade(r) == req[r].trade
Leased(r) == attempt[Trade(r)].lease = r
Goto(r, pc) == req' = [req EXCEPT ![r].pc = pc]
Return(r) == req' = [req EXCEPT ![r] = IdleRequest]
Row(state, lease) == [state |-> state, lease |-> lease]

Unresolved(att) ==
  \E k \in Trades : att[k].state \in {"submission_started", "ambiguous"}

\* The states of the unique index on unresolved attempts of a reservation.
Open(k) == State(k) \in {"claimed", "submission_started", "ambiguous"}

Init ==
  /\ attempt = [k \in Trades |-> Row("none", NoRequest)]
  /\ reservation = "active"
  /\ consumer = NoTrade
  /\ expired = FALSE
  /\ venue = [k \in Trades |-> "none"]
  /\ flight = {}
  /\ aged = {}
  /\ req = [r \in Requests |-> IdleRequest]
  /\ failures = 0

-----------------------------------------------------------------------------
(* The transactions on the rows.                                           *)

\* The projector's ready/ready_for_consumer, once the reservation is settled.
LifecycleReady ==
  /\ reservation = "active"
  /\ \A k \in Trades : State(k) # "accepted"

\* releaseFundingReservationForAbandonedTradeInTransaction, given the rows as
\* the caller's transaction has left them: every claimed attempt is failed,
\* and an unresolved one refuses the release.  A released reservation keeps
\* what the caller wrote; a consumed one throws and rolls it back.
CancelClaims(att) ==
  [k \in Trades |->
     IF att[k].state = "claimed" THEN Row("definitive_failure", NoRequest)
     ELSE att[k]]

\* mutant: the release does not look for an unresolved attempt.
AbandonedRegardless(att) ==
  /\ consumer' = consumer
  /\ attempt' = CancelClaims(att)
  /\ reservation' = IF reservation = "active" THEN "released" ELSE reservation

Abandoned(att) ==
  /\ consumer' = consumer
  /\ \/ /\ reservation = "released"
        /\ attempt' = att
        /\ reservation' = reservation
     \/ /\ reservation = "active"
        /\ ~Unresolved(att)
        /\ attempt' = CancelClaims(att)
        /\ reservation' = "released"

\* mutant: a state the table does not have.
FailedAsCancelled(k) == [attempt EXCEPT ![k] = Row("cancelled", NoRequest)]

Failed(k) == [attempt EXCEPT ![k] = Row("definitive_failure", NoRequest)]

\* recordFundingTradeAttemptOutcomeInTransaction for a definitive failure and
\* the abandonment, in one transaction.  Note that no claim token is compared.
FailAndAbandon(k) ==
  /\ State(k) \in {"claimed", "submission_started", "definitive_failure"}
  /\ Abandoned(Failed(k))

\* consumeFundingReservationForLinkedConsumerInTransaction for the stored
\* order of k: accept the attempt, complete the operation, consume.
Consume(k) ==
  /\ State(k) \in {"claimed", "submission_started", "ambiguous", "accepted"}
  /\ attempt' = [attempt EXCEPT ![k] = Row("accepted", NoRequest)]
  /\ \/ reservation = "active"
     \/ reservation = "consumed" /\ consumer = k
  /\ reservation' = "consumed"
  /\ consumer' = k

-----------------------------------------------------------------------------
(* Claim, start, submit.                                                   *)

\* mutant: the claim does not look for the reservation's open attempt.
ClaimBesideOpen(r, k) ==
  /\ At(r, "idle")
  /\ LifecycleReady
  /\ ~expired
  /\ State(k) = "none"
  /\ attempt' = [attempt EXCEPT ![k] = Row("claimed", r)]
  /\ req' = [req EXCEPT ![r] = [pc |-> "claimed", trade |-> k]]
  /\ UNCHANGED <<reservation, consumer, external, clock, failures>>

\* A refused claim writes nothing; the caller may then abandon (Abandon).
ClaimNew(r, k) ==
  /\ At(r, "idle")
  /\ \A j \in Trades : ~Open(j)
  /\ LifecycleReady
  /\ ~expired
  /\ State(k) = "none"
  /\ attempt' = [attempt EXCEPT ![k] = Row("claimed", r)]
  /\ req' = [req EXCEPT ![r] = [pc |-> "claimed", trade |-> k]]
  /\ UNCHANGED <<reservation, consumer, external, clock, failures>>

\* Reclaim before submission: the reservation is not checked again here.
Reclaim(r, k) ==
  /\ At(r, "idle")
  /\ attempt[k] = Row("claimed", NoRequest)
  /\ attempt' = [attempt EXCEPT ![k].lease = r]
  /\ req' = [req EXCEPT ![r] = [pc |-> "claimed", trade |-> k]]
  /\ UNCHANGED <<reservation, consumer, external, clock, failures>>

StartAllowed(r) ==
  /\ State(Trade(r)) = "claimed"
  /\ Leased(r)
  /\ LifecycleReady
  /\ ~expired

MarkStarted(r) ==
  /\ At(r, "claimed")
  /\ StartAllowed(r)
  /\ attempt' = [attempt EXCEPT ![Trade(r)].state = "submission_started"]
  /\ Goto(r, "starting")
  /\ UNCHANGED <<reservation, consumer, external, clock, failures>>

\* The work between claim and send throws (onBeforeBroadcast, the copy record,
\* a FOK depth check that cannot fill) and the handler fails the attempt.
PreSubmitFailure(r) ==
  /\ req[r].pc \in {"claimed", "starting"}
  /\ Trade(r) \notin AmmTrades
  /\ FailAndAbandon(Trade(r))
  /\ Return(r)
  /\ UNCHANGED <<external, clock, failures>>

\* The AMM browser reports not_broadcast: failed without a release.
NotBroadcast(r) ==
  /\ req[r].pc \in {"claimed", "starting"}
  /\ Trade(r) \in AmmTrades
  /\ State(Trade(r)) \in {"claimed", "submission_started", "definitive_failure"}
  /\ attempt' = Failed(Trade(r))
  /\ Return(r)
  /\ UNCHANGED <<reservation, consumer, external, clock, failures>>

Send(r) ==
  /\ At(r, "starting")
  /\ flight' = flight \cup {Trade(r)}
  /\ Goto(r, "submitting")
  /\ UNCHANGED <<rows, venue, clock, failures>>

\* The venue takes an exact order once: FOK and terminal rejections refuse it.
VenueDecides(k) ==
  /\ k \in flight
  /\ flight' = flight \ {k}
  /\ venue[k] = "none"
  /\ \E v \in {"live", "refused"} : venue' = [venue EXCEPT ![k] = v]
  /\ UNCHANGED <<rows, clock, req, failures>>

Responds(r) ==
  /\ At(r, "submitting")
  /\ Trade(r) \notin flight
  /\ \/ venue[Trade(r)] = "live" /\ Goto(r, "accepted")
     \/ venue[Trade(r)] = "refused" /\ Trade(r) \notin AmmTrades
          /\ Goto(r, "rejected")
  /\ UNCHANGED <<rows, external, clock, failures>>

StoreOrder(r) ==
  /\ At(r, "accepted")
  /\ Consume(Trade(r))
  /\ Return(r)
  /\ UNCHANGED <<external, clock, failures>>

Rejected(r) ==
  /\ At(r, "rejected")
  /\ FailAndAbandon(Trade(r))
  /\ Return(r)
  /\ UNCHANGED <<external, clock, failures>>

\* A statement is refused, the response is lost or the order is not stored:
\* the handler is in its catch block.
Throws(r) ==
  /\ req[r].pc \in {"claimed", "starting", "submitting", "accepted", "rejected"}
  /\ Goto(r, "uncertain")
  /\ UNCHANGED <<rows, external, clock, failures>>

\* mutant: the outcome is written whatever the attempt's state is now.
RecordAmbiguousAlways(r) ==
  /\ At(r, "uncertain")
  /\ attempt' = [attempt EXCEPT ![Trade(r)].state = "ambiguous"]
  /\ Return(r)
  /\ UNCHANGED <<reservation, consumer, external, clock, failures>>

RecordAmbiguous(r) ==
  /\ At(r, "uncertain")
  /\ attempt' = IF State(Trade(r)) = "submission_started"
                THEN [attempt EXCEPT ![Trade(r)].state = "ambiguous"]
                ELSE attempt
  /\ Return(r)
  /\ UNCHANGED <<reservation, consumer, external, clock, failures>>

\* The trading service's catch block without an attempt, the cancellation of
\* a ready operation and that of its Telegram intent.
Abandon ==
  /\ reservation = "active"
  /\ Abandoned(attempt)
  /\ UNCHANGED <<external, clock, req, failures>>

-----------------------------------------------------------------------------
(* Reconciliation of a started or ambiguous submission.                    *)

\* Exact-status lease of Limitless, evidence-only lease of Polymarket.
Lease(r, k) ==
  /\ At(r, "idle")
  /\ k \notin AmmTrades
  /\ State(k) \in {"submission_started", "ambiguous"}
  /\ attempt[k].lease = NoRequest
  /\ IF k \in LimitlessTrades
     THEN /\ attempt' = [attempt EXCEPT ![k] = Row("ambiguous", r)]
          /\ req' = [req EXCEPT ![r] = [pc |-> "checking", trade |-> k]]
     ELSE /\ attempt' = [attempt EXCEPT ![k].lease = r]
          /\ req' = [req EXCEPT ![r] = [pc |-> "evidence", trade |-> k]]
  /\ UNCHANGED <<reservation, consumer, external, clock, failures>>

Lookup(r) ==
  /\ At(r, "checking")
  /\ \/ venue[Trade(r)] = "live" /\ Goto(r, "found")
     \/ venue[Trade(r)] = "refused" /\ Goto(r, "refused")
     \/ venue[Trade(r)] # "live" /\ Goto(r, "absent")
  /\ UNCHANGED <<rows, external, clock, failures>>

ProofAllowed(r) == State(Trade(r)) = "ambiguous" /\ Leased(r)

\* mutant: absence is proved by the first lookup, without the age fence.
ProveAbsentAtOnce(r) ==
  /\ At(r, "absent")
  /\ ProofAllowed(r)
  /\ Abandoned(Failed(Trade(r)))
  /\ Return(r)
  /\ UNCHANGED <<external, clock, failures>>

\* An order the exact lookup does not find is absent once it is old enough.
ProveAbsent(r) ==
  /\ At(r, "absent")
  /\ ProofAllowed(r)
  /\ Trade(r) \in aged
  /\ Abandoned(Failed(Trade(r)))
  /\ Return(r)
  /\ UNCHANGED <<external, clock, failures>>

\* A FOK without a fill, or a terminally rejected order.
ProveRefused(r) ==
  /\ At(r, "refused")
  /\ ProofAllowed(r)
  /\ Abandoned(Failed(Trade(r)))
  /\ Return(r)
  /\ UNCHANGED <<external, clock, failures>>

StoreFound(r) ==
  /\ At(r, "found")
  /\ Leased(r)
  /\ Consume(Trade(r))
  /\ Return(r)
  /\ UNCHANGED <<external, clock, failures>>

\* An order that is not found never closes a Polymarket attempt.
LookupEvidence(r) ==
  /\ At(r, "evidence")
  /\ IF venue[Trade(r)] = "live" THEN Goto(r, "evidence_found") ELSE Return(r)
  /\ UNCHANGED <<rows, external, clock, failures>>

\* mutant: only an attempt its own request recorded as ambiguous is attached.
AttachAmbiguous(r) ==
  /\ At(r, "evidence_found")
  /\ State(Trade(r)) = "ambiguous"
  /\ Leased(r)
  /\ attempt' = [attempt EXCEPT ![Trade(r)] = Row("accepted", NoRequest)]
  /\ Return(r)
  /\ UNCHANGED <<reservation, consumer, external, clock, failures>>

\* Accepted from status-only evidence: the reservation is not consumed.
Attach(r) ==
  /\ At(r, "evidence_found")
  /\ State(Trade(r)) \in {"submission_started", "ambiguous"}
  /\ Leased(r)
  /\ attempt' = [attempt EXCEPT ![Trade(r)] = Row("accepted", NoRequest)]
  /\ Return(r)
  /\ UNCHANGED <<reservation, consumer, external, clock, failures>>

\* A lookup fails, is still too young, or its lease has changed hands.
GiveUp(r) ==
  /\ req[r].pc \in Checking
  /\ \/ ~Leased(r)
     \/ At(r, "absent") /\ Trade(r) \notin aged
  /\ Return(r)
  /\ UNCHANGED <<rows, external, clock, failures>>

\* An order sync stores the order and recovers its attempt by reference; an
\* AMM attempt has a reference only once its hash was recorded as ambiguous.
OrderSync(k) ==
  /\ venue[k] = "live"
  /\ IF k \in AmmTrades THEN State(k) = "ambiguous" ELSE Open(k)
  /\ reservation = "active"
  /\ Consume(k)
  /\ UNCHANGED <<external, clock, req, failures>>

-----------------------------------------------------------------------------
(* The reservation's expiry, clocks and failures.                           *)

\* mutant: the expiry looks at the deadline alone.
ExpireByDeadline ==
  /\ reservation = "active"
  /\ expired
  /\ reservation' = "released"
  /\ UNCHANGED <<attempt, consumer, external, clock, req, failures>>

\* mutant: a claim keeps the reservation from expiring.
ExpireUnclaimed ==
  /\ reservation = "active"
  /\ expired
  /\ \A k \in Trades : State(k) # "accepted" /\ ~Open(k)
  /\ reservation' = "released"
  /\ UNCHANGED <<attempt, consumer, external, clock, req, failures>>

\* expireSettledConsumerReservation, in a reduction of the operation.
ExpireReservation ==
  /\ reservation = "active"
  /\ expired
  /\ ~Unresolved(attempt)
  /\ \A k \in Trades : State(k) # "accepted"
  /\ reservation' = "released"
  /\ UNCHANGED <<attempt, consumer, external, clock, req, failures>>

TimePasses ==
  /\ ~expired
  /\ expired' = TRUE
  /\ UNCHANGED <<rows, external, aged, req, failures>>

Holder(k) ==
  {r \in Requests : attempt[k].lease = r /\ req[r].trade = k}

\* Between claim and start a request that is not slow keeps its 15 s; a
\* started submission does not need its lease.
LeaseRunsOut(k) ==
  /\ attempt[k].lease # NoRequest
  /\ \A r \in Holder(k) :
       \/ At(r, "claimed") /\ r \in SlowRequests
       \/ req[r].pc \in {"starting", "submitting", "accepted", "rejected",
                         "uncertain"}
  /\ attempt' = [attempt EXCEPT ![k].lease = NoRequest]
  /\ UNCHANGED <<reservation, consumer, external, clock, req, failures>>

OutliveLease(k) ==
  /\ \E r \in Holder(k) : req[r].pc \in Checking
  /\ failures < MaxFailures
  /\ failures' = failures + 1
  /\ attempt' = [attempt EXCEPT ![k].lease = NoRequest]
  /\ UNCHANGED <<reservation, consumer, external, clock, req>>

\* The absence age is longer than a submission and its lookup can take.
Age(k) ==
  /\ k \in LimitlessTrades \ (aged \cup flight)
  /\ State(k) = "ambiguous"
  /\ \A r \in Requests :
       req[r].trade = k => req[r].pc \notin {"starting", "submitting", "absent"}
  /\ aged' = aged \cup {k}
  /\ UNCHANGED <<rows, external, expired, req, failures>>

Crash(r) ==
  /\ ~At(r, "idle")
  /\ failures < MaxFailures
  /\ failures' = failures + 1
  /\ Return(r)
  /\ UNCHANGED <<rows, external, clock>>

Claim(r) == \E k \in Trades : ClaimNew(r, k) \/ Reclaim(r, k)

Submission(r) ==
  \/ MarkStarted(r) \/ PreSubmitFailure(r) \/ NotBroadcast(r) \/ Send(r)
  \/ Responds(r) \/ StoreOrder(r) \/ Rejected(r)
  \/ Throws(r) \/ RecordAmbiguous(r)

Reconciliation(r) ==
  \/ Lookup(r) \/ ProveAbsent(r) \/ ProveRefused(r) \/ StoreFound(r)
  \/ LookupEvidence(r) \/ Attach(r) \/ GiveUp(r)

Environment ==
  \/ \E k \in Trades : VenueDecides(k) \/ OrderSync(k) \/ Age(k)
                         \/ LeaseRunsOut(k) \/ OutliveLease(k)
  \/ Abandon \/ ExpireReservation \/ TimePasses

Next ==
  \/ \E r \in Requests :
       \/ Claim(r) \/ Submission(r)
       \/ (\E k \in Trades : Lease(r, k)) \/ Reconciliation(r)
       \/ Crash(r)
  \/ Environment

Spec == Init /\ [][Next]_vars

\* Nobody has to trade: claims, abandonments and order syncs are not fair.  A
\* running handler takes its next step, the venue decides, clocks advance, and
\* the reconcilers of the finance worker lease every trade they select.
FairSpec ==
  /\ Spec
  /\ \A r \in Requests : WF_vars(Submission(r) \/ Reconciliation(r))
  /\ \A k \in Trades :
       /\ WF_vars(VenueDecides(k))
       /\ WF_vars(LeaseRunsOut(k))
       /\ SF_vars(Age(k))
       /\ SF_vars(\E r \in Requests : Lease(r, k))
  /\ WF_vars(TimePasses)
  /\ WF_vars(ExpireReservation)

-----------------------------------------------------------------------------
(* Properties.                                                             *)

\* At most one request of the server may be sending an order against the
\* reservation, however slow the others are: a claim that was cancelled,
\* expired or reclaimed never reaches the venue.
SubmitterIsUnique ==
  \A r, s \in Requests :
    /\ req[r].pc \in {"starting", "submitting"}
    /\ req[s].pc \in {"starting", "submitting"}
    /\ {req[r].trade, req[s].trade} \cap AmmTrades = {}
    => r = s

\* The reservation buys once: two of its trades are never both live or both
\* on their way to the venue.
OneOrderPerReservation ==
  \A j, k \in Trades :
    /\ j \in flight \/ venue[j] = "live"
    /\ k \in flight \/ venue[k] = "live"
    => j = k

\* An order that is on its way or live is never forgotten: its attempt is
\* started, ambiguous or accepted.
OrderIsTracked ==
  \A k \in Trades :
    k \in flight \/ venue[k] = "live" =>
      State(k) \in {"submission_started", "ambiguous", "accepted"}

\* While a submission is started or ambiguous no cancellation, expiry or
\* other trade releases or spends the reservation.
UncertainTradeKeepsReservation == Unresolved(attempt) => reservation = "active"

\* A consumed reservation was spent by an accepted trade that is live.
SpentMeansTraded ==
  reservation = "consumed" =>
    consumer \in Trades /\ State(consumer) = "accepted" /\ venue[consumer] = "live"

\* A resolved attempt keeps its outcome.
OutcomeIsFinal ==
  [][\A k \in Trades :
       State(k) \in {"accepted", "definitive_failure"} => State(k)' = State(k)]_vars

\* The promise of FundedPurchase, with the money seen through the rows: an
\* accepted trade has spent it, whatever AcceptedTradeIsNotReturned says.
Money ==
  IF \E k \in Trades : State(k) = "accepted" THEN "spent"
  ELSE IF reservation = "released" THEN "returned"
  ELSE IF Unresolved(attempt) THEN "trying" ELSE "held"

MoneyTrade ==
  IF Money \in {"spent", "trying"}
  THEN CHOOSE k \in Trades :
         State(k) \in {"submission_started", "ambiguous", "accepted"}
  ELSE NoTrade

Purchase ==
  INSTANCE FundedPurchase WITH money <- Money, trade <- MoneyTrade

\* The rows implement FundedPurchase: one purchase at most, and no return
\* before or after one.
ImplementsPurchase == Purchase!Spec

\* A live CLOB order whose response was lost, or whose request died, is found
\* and linked to its attempt.
LiveOrderIsLinked ==
  \A k \in Trades \ AmmTrades : venue[k] = "live" ~> State(k) = "accepted"

\* A started Limitless submission is resolved one way or the other.
LimitlessTradeIsResolved ==
  \A k \in LimitlessTrades :
    State(k) = "submission_started" ~>
      State(k) \in {"accepted", "definitive_failure"}

\* Settled funding is spent or given back, unless a Polymarket or AMM trade
\* against it stays uncertain or was linked without consuming it.
UnusedFundingIsReturned ==
  reservation = "active" ~>
    \/ reservation # "active"
    \/ \E k \in Trades \ LimitlessTrades :
         State(k) \in {"submission_started", "ambiguous", "accepted"}

\* Settled funding stays held while an order is on its way to the venue:
\* only a pre-submit claim may be released.  (The code does not keep this if a
\* request may outlive its claim lease.)
InFlightKeepsReservation == flight # {} => reservation = "active"

\* Money that bought something is not given back as venue cash.
AcceptedTradeIsNotReturned ==
  (\E k \in Trades : State(k) = "accepted") => reservation # "released"

\* Outside the status-only recovery of Polymarket the two agree: an accepted
\* Limitless or AMM trade is the one that consumed the reservation, in the
\* transaction that accepted it (consumeFundingReservationForLinkedConsumer).
LinkedTradeIsSpent ==
  \A k \in LimitlessTrades \cup AmmTrades :
    State(k) = "accepted" => reservation = "consumed" /\ consumer = k

=============================================================================

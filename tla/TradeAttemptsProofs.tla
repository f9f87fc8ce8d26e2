------------------------ MODULE TradeAttemptsProofs ------------------------
(***************************************************************************)
(* Proofs about TradeAttempts for every set of requests and trades:        *)
(* RowInv, SendInv and LinkInv hold whichever requests are slow, TrackInv  *)
(* needs that no request outlives its claim lease before it starts.        *)
(***************************************************************************)
EXTENDS TradeAttempts, TLAPS

LiveRow(k) ==
  State(k) \in {"claimed", "submission_started", "ambiguous", "accepted"}

\* The reservation has at most one attempt that is open or accepted.
RowIsUnique == \A j, k \in Trades : LiveRow(j) /\ LiveRow(k) => j = k

RowSafe == RowIsUnique /\ UncertainTradeKeepsReservation
RowInv == TypeOK /\ RowSafe

\* A trade nobody has started is untouched by requests and venue.
FreshIsUntouched ==
  \A k \in Trades : State(k) \in {"none", "claimed"} =>
    /\ venue[k] = "none" /\ k \notin flight
    /\ \A r \in Requests : req[r].trade = k =>
         req[r].pc \notin {"starting", "submitting", "accepted", "rejected"}

\* What a running request knows is so.
RequestKnows ==
  \A r \in Requests :
    /\ At(r, "starting") =>
         venue[req[r].trade] = "none" /\ req[r].trade \notin flight
    /\ req[r].pc \in {"accepted", "found", "evidence_found"} =>
         venue[req[r].trade] = "live"
    /\ req[r].pc \in {"rejected", "refused"} => venue[req[r].trade] = "refused"

StarterIsUnique ==
  \A r, s \in Requests :
    At(r, "starting") /\ At(s, "starting") /\ req[r].trade = req[s].trade => r = s

FlightIsUndecided == \A k \in flight : venue[k] = "none"

SendSafe ==
  /\ FreshIsUntouched /\ RequestKnows /\ StarterIsUnique /\ FlightIsUndecided
  /\ SpentMeansTraded

SendInv == RowInv /\ SendSafe

\* A request between claim and start holds its claim, or has lost it for good.
ClaimIsHeld ==
  \A r \in Requests : At(r, "claimed") =>
    \/ attempt[req[r].trade] = Row("claimed", r)
    \/ State(req[r].trade) = "definitive_failure"

StarterIsOpen ==
  \A r \in Requests : At(r, "starting") =>
    State(req[r].trade) \in {"submission_started", "ambiguous"}

\* An aged ambiguity is quiet, and a lookup that found nothing stays right.
AgedIsQuiet ==
  \A k \in aged :
    /\ k \notin flight
    /\ State(k) \notin {"none", "claimed", "submission_started"}
    /\ \A r \in Requests : req[r].trade = k =>
         /\ ~At(r, "starting")
         /\ At(r, "absent") => venue[k] # "live"

TrackSafe == ClaimIsHeld /\ StarterIsOpen /\ AgedIsQuiet /\ OrderIsTracked
TrackInv == SendInv /\ TrackSafe

\* What one step may do to the rows.
RowsMove ==
  /\ reservation = "released" => reservation' = "released"
  /\ \A k \in Trades :
       /\ State(k) \in {"accepted", "definitive_failure"} => State(k)' = State(k)
       /\ State(k)' = "accepted" =>
            State(k) \in {"submission_started", "ambiguous", "accepted"}
       /\ State(k)' \in {"submission_started", "ambiguous"} =>
            State(k) \in {"claimed", "submission_started", "ambiguous"}

\* A submission that may still become an order.
Trying(k) == State(k) \in {"submission_started", "ambiguous"}

Submits(r) == req[r].pc \in {"starting", "submitting"}

\* Who sends on a CLOB has an unresolved attempt, or nobody can start any more.
SubmitterIsOpen ==
  \A r \in Requests : Submits(r) /\ Trade(r) \notin AmmTrades =>
    Trying(Trade(r)) \/ ~LifecycleReady

SubmitMove ==
  /\ ~LifecycleReady => ~LifecycleReady'
  /\ \A k \in Trades \ AmmTrades : Trying(k) => Trying(k)' \/ ~LifecycleReady'
  /\ \A r \in Requests : Submits(r)' =>
       /\ Trade(r)' = Trade(r)
       /\ \/ Submits(r)
          \/ /\ StartAllowed(r)
             /\ Trying(Trade(r))'
             /\ \A s \in Requests : s # r => req'[s] = req[s]

-----------------------------------------------------------------------------
\* A failure that gives the reservation back fails its own attempt and the
\* claims, no other row.
LEMMA FailureEffect ==
  ASSUME TypeOK, NEW k \in Trades, Abandoned(Failed(k))
  PROVE  /\ \A j \in Trades :
              \/ attempt'[j] = attempt[j]
              \/ /\ attempt'[j].state = "definitive_failure"
                 /\ j = k \/ State(j) = "claimed"
         /\ reservation = "released" => reservation' = "released"
<1> DEFINE closed == Row("definitive_failure", NoRequest)
<1>1. \A j \in Trades : Failed(k)[j] = IF j = k THEN closed ELSE attempt[j]
  BY DEF TypeOK, Failed
<1>2. attempt' = Failed(k) \/ attempt' = CancelClaims(Failed(k))
  BY DEF Abandoned
<1>3. \A j \in Trades :
         \/ CancelClaims(Failed(k))[j] = Failed(k)[j]
         \/ /\ CancelClaims(Failed(k))[j].state = "definitive_failure"
            /\ Failed(k)[j].state = "claimed"
  BY DEF CancelClaims, Row
<1> QED
  BY <1>1, <1>2, <1>3 DEF State, Abandoned, Row

\* Such a failure leaves a reservation nobody can start on.
LEMMA GivenBack ==
  ASSUME TypeOK, NEW k \in Trades, State(k) # "accepted", Abandoned(Failed(k))
  PROVE  /\ reservation' = "released"
         /\ \A j \in Trades : State(j) = "accepted" => State(j)' = "accepted"
<1>1. reservation' = "released"
  BY DEF Abandoned
<1>2. \A j \in Trades : State(j) = "accepted" => State(j)' = "accepted"
  BY FailureEffect DEF State
<1> QED
  BY <1>1, <1>2

\* Every step of a request, a reconciler, the venue or a clock keeps types.
LEMMA TypeStep == TypeOK /\ [Next]_vars => TypeOK'
<1> SUFFICES ASSUME TypeOK, [Next]_vars PROVE TypeOK'
  OBVIOUS
<1> USE DEF TypeOK, States, Pcs, State, At, Trade, Leased, Goto, Return, Row,
   external, clock, rows, IdleRequest, Checking
<1>1. ASSUME NEW r \in Requests, NEW k \in Trades, ClaimNew(r, k)
       PROVE TypeOK'
  BY <1>1 DEF ClaimNew, Open, LifecycleReady
<1>2. ASSUME NEW r \in Requests, NEW k \in Trades, Reclaim(r, k) PROVE TypeOK'
  BY <1>2 DEF Reclaim
<1>3. ASSUME NEW r \in Requests, MarkStarted(r) PROVE TypeOK'
  BY <1>3 DEF MarkStarted, StartAllowed, LifecycleReady
<1>4. ASSUME NEW r \in Requests, PreSubmitFailure(r) PROVE TypeOK'
    BY <1>4 DEF PreSubmitFailure, FailAndAbandon, Abandoned, Failed,
     CancelClaims, Unresolved
<1>5. ASSUME NEW r \in Requests, NotBroadcast(r) PROVE TypeOK'
  BY <1>5 DEF NotBroadcast, Failed
<1>6. ASSUME NEW r \in Requests, Send(r) PROVE TypeOK'
  BY <1>6 DEF Send
<1>7. ASSUME NEW r \in Requests, Responds(r) PROVE TypeOK'
  <2>1. CASE Goto(r, "accepted")
    BY <2>1, <1>7 DEF Responds
  <2>2. CASE Goto(r, "rejected")
    BY <2>2, <1>7 DEF Responds
  <2> QED
    BY <2>1, <2>2, <1>7 DEF Responds
<1>8. ASSUME NEW r \in Requests, StoreOrder(r) PROVE TypeOK'
  BY <1>8 DEF StoreOrder, Consume
<1>9. ASSUME NEW r \in Requests, Rejected(r) PROVE TypeOK'
    BY <1>9 DEF Rejected, FailAndAbandon, Abandoned, Failed, CancelClaims,
     Unresolved
<1>10. ASSUME NEW r \in Requests, Throws(r) PROVE TypeOK'
  BY <1>10 DEF Throws
<1>11. ASSUME NEW r \in Requests, RecordAmbiguous(r) PROVE TypeOK'
  BY <1>11 DEF RecordAmbiguous
<1>12. ASSUME NEW r \in Requests, NEW k \in Trades, Lease(r, k) PROVE TypeOK'
  <2>1. attempt' \in [Trades -> [state : States, lease : Requests \cup {NoRequest}]]
    BY <1>12 DEF Lease
  <2>2. PICK pc \in {"checking", "evidence"} :
          req' = [req EXCEPT ![r] = [pc |-> pc, trade |-> k]]
    BY <1>12 DEF Lease
  <2>3. /\ req' \in [Requests -> [pc : Pcs, trade : Trades \cup {NoTrade}]]
        /\ \A s \in Requests : req'[s].pc # "idle" => req'[s].trade \in Trades
    BY <2>2
  <2> QED
    BY <2>1, <2>3, <1>12 DEF Lease
<1>13. ASSUME NEW r \in Requests, Lookup(r) PROVE TypeOK'
  BY <1>13 DEF Lookup
<1>14. ASSUME NEW r \in Requests, ProveAbsent(r) PROVE TypeOK'
    BY <1>14 DEF ProveAbsent, ProofAllowed, Abandoned, Failed, CancelClaims,
     Unresolved
<1>15. ASSUME NEW r \in Requests, ProveRefused(r) PROVE TypeOK'
    BY <1>15 DEF ProveRefused, ProofAllowed, Abandoned, Failed, CancelClaims,
     Unresolved
<1>16. ASSUME NEW r \in Requests, StoreFound(r) PROVE TypeOK'
  BY <1>16 DEF StoreFound, Consume
<1>17. ASSUME NEW r \in Requests, LookupEvidence(r) PROVE TypeOK'
  BY <1>17 DEF LookupEvidence
<1>18. ASSUME NEW r \in Requests, Attach(r) PROVE TypeOK'
  BY <1>18 DEF Attach
<1>19. ASSUME NEW r \in Requests, GiveUp(r) PROVE TypeOK'
  BY <1>19 DEF GiveUp
<1>20. ASSUME NEW r \in Requests, Crash(r) PROVE TypeOK'
  <2>1. failures' \in 0..MaxFailures
    BY <1>20, FailureAssumption DEF Crash
  <2> QED
    BY <2>1, <1>20 DEF Crash
<1>21. ASSUME NEW k \in Trades, VenueDecides(k) PROVE TypeOK'
  BY <1>21 DEF VenueDecides
<1>22. ASSUME NEW k \in Trades, OrderSync(k) PROVE TypeOK'
  BY <1>22 DEF OrderSync, Consume, Open
<1>23. ASSUME NEW k \in Trades, Age(k) PROVE TypeOK'
  BY <1>23 DEF Age
<1>24. ASSUME NEW k \in Trades, LeaseRunsOut(k) PROVE TypeOK'
  BY <1>24 DEF LeaseRunsOut, Holder
<1>25. ASSUME NEW k \in Trades, OutliveLease(k) PROVE TypeOK'
  <2>1. failures' \in 0..MaxFailures
    BY <1>25, FailureAssumption DEF OutliveLease
  <2> QED
    BY <2>1, <1>25 DEF OutliveLease
<1>26. ASSUME Abandon PROVE TypeOK'
  BY <1>26 DEF Abandon, Abandoned, CancelClaims, Unresolved
<1>27. ASSUME ExpireReservation PROVE TypeOK'
  BY <1>27 DEF ExpireReservation, Unresolved
<1>28. ASSUME TimePasses PROVE TypeOK'
  BY <1>28 DEF TimePasses
<1>29. CASE UNCHANGED vars
  BY <1>29 DEF vars, rows, external, clock, IdleRequest
<1> QED
    BY <1>1, <1>2, <1>3, <1>4, <1>5, <1>6, <1>7, <1>8, <1>9, <1>10, <1>11,
     <1>12, <1>13, <1>14, <1>15, <1>16, <1>17, <1>18, <1>19, <1>20, <1>21,
     <1>22, <1>23, <1>24, <1>25, <1>26, <1>27, <1>28, <1>29 DEF Next,
     Environment, Claim, Submission, Reconciliation

\* A failure that gives the reservation back leaves no trade to wait for.
LEMMA RowsAfterFailure ==
  ASSUME RowInv, NEW k \in Trades, Abandoned(Failed(k))
  PROVE  RowSafe'
<1>1. \A j \in Trades : attempt'[j] = attempt[j]
                         \/ attempt'[j].state = "definitive_failure"
  BY FailureEffect DEF RowInv
<1>2. RowIsUnique'
  BY <1>1 DEF RowInv, RowSafe, RowIsUnique, LiveRow, State
<1>3. ~Unresolved(attempt)'
  <2>1. CASE reservation = "active" /\ ~Unresolved(Failed(k))
             /\ attempt' = CancelClaims(Failed(k))
    <3>1. \A j \in Trades : ~(Failed(k)[j].state \in {"submission_started", "ambiguous"})
      BY <2>1 DEF Unresolved
    <3>2. \A j \in Trades : attempt'[j] = Failed(k)[j]
                             \/ attempt'[j].state = "definitive_failure"
      BY <2>1 DEF CancelClaims, Row
    <3> QED
      BY <3>1, <3>2 DEF Unresolved
  <2>2. CASE reservation = "released"
    BY <2>2, <1>1 DEF RowInv, RowSafe, UncertainTradeKeepsReservation, Unresolved
  <2> QED
    BY <2>1, <2>2 DEF Abandoned
<1>4. UncertainTradeKeepsReservation'
  BY <1>3 DEF UncertainTradeKeepsReservation
<1> QED
  BY <1>2, <1>4 DEF RowSafe

\* No transaction makes a second open attempt or drops an uncertain one.
LEMMA RowStep == RowInv /\ [Next]_vars => RowSafe'
<1> SUFFICES ASSUME RowInv, [Next]_vars PROVE RowSafe'
  OBVIOUS
<1> USE DEF TypeOK, RowInv, RowSafe, RowIsUnique, LiveRow,
   UncertainTradeKeepsReservation, Unresolved, State, At, Trade, Leased,
   Goto, Return, Row, external, clock, rows, IdleRequest, Checking
<1>1. ASSUME NEW r \in Requests, NEW k \in Trades, ClaimNew(r, k)
       PROVE RowSafe'
  BY <1>1 DEF ClaimNew, Open, LifecycleReady
<1>2. ASSUME NEW r \in Requests, NEW k \in Trades, Reclaim(r, k)
       PROVE RowSafe'
  BY <1>2 DEF Reclaim
<1>3. ASSUME NEW r \in Requests, MarkStarted(r) PROVE RowSafe'
  BY <1>3 DEF MarkStarted, StartAllowed, LifecycleReady
<1>4. ASSUME NEW r \in Requests, PreSubmitFailure(r) PROVE RowSafe'
  BY <1>4, RowsAfterFailure DEF PreSubmitFailure, FailAndAbandon
<1>5. ASSUME NEW r \in Requests, NotBroadcast(r) PROVE RowSafe'
  BY <1>5 DEF NotBroadcast, Failed
<1>6. ASSUME NEW r \in Requests, Send(r) PROVE RowSafe'
  BY <1>6 DEF Send
<1>7. ASSUME NEW r \in Requests, Responds(r) PROVE RowSafe'
  BY <1>7 DEF Responds
<1>8. ASSUME NEW r \in Requests, StoreOrder(r) PROVE RowSafe'
  BY <1>8 DEF StoreOrder, Consume
<1>9. ASSUME NEW r \in Requests, Rejected(r) PROVE RowSafe'
  BY <1>9, RowsAfterFailure DEF Rejected, FailAndAbandon
<1>10. ASSUME NEW r \in Requests, Throws(r) PROVE RowSafe'
  BY <1>10 DEF Throws
<1>11. ASSUME NEW r \in Requests, RecordAmbiguous(r) PROVE RowSafe'
  BY <1>11 DEF RecordAmbiguous
<1>12. ASSUME NEW r \in Requests, NEW k \in Trades, Lease(r, k) PROVE RowSafe'
  BY <1>12 DEF Lease
<1>13. ASSUME NEW r \in Requests, Lookup(r) PROVE RowSafe'
  BY <1>13 DEF Lookup
<1>14. ASSUME NEW r \in Requests, ProveAbsent(r) PROVE RowSafe'
    BY <1>14 DEF ProveAbsent, ProofAllowed, Abandoned, Failed, CancelClaims,
     Unresolved
<1>15. ASSUME NEW r \in Requests, ProveRefused(r) PROVE RowSafe'
    BY <1>15 DEF ProveRefused, ProofAllowed, Abandoned, Failed, CancelClaims,
     Unresolved
<1>16. ASSUME NEW r \in Requests, StoreFound(r) PROVE RowSafe'
  BY <1>16 DEF StoreFound, Consume
<1>17. ASSUME NEW r \in Requests, LookupEvidence(r) PROVE RowSafe'
  BY <1>17 DEF LookupEvidence
<1>18. ASSUME NEW r \in Requests, Attach(r) PROVE RowSafe'
  BY <1>18 DEF Attach
<1>19. ASSUME NEW r \in Requests, GiveUp(r) PROVE RowSafe'
  BY <1>19 DEF GiveUp
<1>20. ASSUME NEW r \in Requests, Crash(r) PROVE RowSafe'
  BY <1>20 DEF Crash
<1>21. ASSUME NEW k \in Trades, VenueDecides(k) PROVE RowSafe'
  BY <1>21 DEF VenueDecides
<1>22. ASSUME NEW k \in Trades, OrderSync(k) PROVE RowSafe'
  BY <1>22 DEF OrderSync, Consume, Open
<1>23. ASSUME NEW k \in Trades, Age(k) PROVE RowSafe'
  BY <1>23 DEF Age
<1>24. ASSUME NEW k \in Trades, LeaseRunsOut(k) PROVE RowSafe'
  BY <1>24 DEF LeaseRunsOut, Holder
<1>25. ASSUME NEW k \in Trades, OutliveLease(k) PROVE RowSafe'
  BY <1>25 DEF OutliveLease, Holder
<1>26. ASSUME Abandon PROVE RowSafe'
  BY <1>26 DEF Abandon, Abandoned, CancelClaims, Unresolved
<1>27. ASSUME ExpireReservation PROVE RowSafe'
  BY <1>27 DEF ExpireReservation, Unresolved
<1>28. ASSUME TimePasses PROVE RowSafe'
  BY <1>28 DEF TimePasses
<1>29. CASE UNCHANGED vars
  BY <1>29 DEF vars, rows, external, clock, IdleRequest
<1> QED
    BY <1>1, <1>2, <1>3, <1>4, <1>5, <1>6, <1>7, <1>8, <1>9, <1>10, <1>11,
     <1>12, <1>13, <1>14, <1>15, <1>16, <1>17, <1>18, <1>19, <1>20, <1>21,
     <1>22, <1>23, <1>24, <1>25, <1>26, <1>27, <1>28, <1>29 DEF Next,
     Environment, Claim, Submission, Reconciliation

\* What requests believe of the venue stays true, and so does a consumption.
LEMMA SendStep == SendInv /\ [Next]_vars => SendSafe'
<1> SUFFICES ASSUME SendInv, [Next]_vars PROVE SendSafe'
  OBVIOUS
<1> USE DEF TypeOK, RowInv, RowSafe, RowIsUnique, LiveRow, SendInv, SendSafe,
   FreshIsUntouched, RequestKnows, StarterIsUnique, FlightIsUndecided,
   SpentMeansTraded, State, At, Trade, Leased, Goto, Return, Row, external,
   clock, rows, IdleRequest, Checking
<1>1. ASSUME NEW r \in Requests, NEW k \in Trades, ClaimNew(r, k)
       PROVE SendSafe'
  BY <1>1 DEF ClaimNew, Open, LifecycleReady
<1>2. ASSUME NEW r \in Requests, NEW k \in Trades, Reclaim(r, k)
       PROVE SendSafe'
  BY <1>2 DEF Reclaim
<1>3. ASSUME NEW r \in Requests, MarkStarted(r) PROVE SendSafe'
  BY <1>3 DEF MarkStarted, StartAllowed, LifecycleReady
<1>4. ASSUME NEW r \in Requests, PreSubmitFailure(r) PROVE SendSafe'
    BY <1>4 DEF PreSubmitFailure, FailAndAbandon, Abandoned, Failed,
     CancelClaims, Unresolved
<1>5. ASSUME NEW r \in Requests, NotBroadcast(r) PROVE SendSafe'
  BY <1>5 DEF NotBroadcast, Failed
<1>6. ASSUME NEW r \in Requests, Send(r) PROVE SendSafe'
  BY <1>6 DEF Send
<1>7. ASSUME NEW r \in Requests, Responds(r) PROVE SendSafe'
  <2>1. CASE venue[Trade(r)] = "live" /\ Goto(r, "accepted")
    BY <2>1, <1>7 DEF Responds
  <2>2. CASE venue[Trade(r)] = "refused" /\ Goto(r, "rejected")
    BY <2>2, <1>7 DEF Responds
  <2> QED
    BY <2>1, <2>2, <1>7 DEF Responds
<1>8. ASSUME NEW r \in Requests, StoreOrder(r) PROVE SendSafe'
  BY <1>8 DEF StoreOrder, Consume
<1>9. ASSUME NEW r \in Requests, Rejected(r) PROVE SendSafe'
    BY <1>9 DEF Rejected, FailAndAbandon, Abandoned, Failed, CancelClaims,
     Unresolved
<1>10. ASSUME NEW r \in Requests, Throws(r) PROVE SendSafe'
  BY <1>10 DEF Throws
<1>11. ASSUME NEW r \in Requests, RecordAmbiguous(r) PROVE SendSafe'
  BY <1>11 DEF RecordAmbiguous
<1>12. ASSUME NEW r \in Requests, NEW k \in Trades, Lease(r, k)
       PROVE SendSafe'
  <2>1. PICK pc \in {"checking", "evidence"} :
          req' = [req EXCEPT ![r] = [pc |-> pc, trade |-> k]]
    BY <1>12 DEF Lease
  <2>2. /\ \A j \in Trades : j # k => attempt'[j] = attempt[j]
        /\ attempt'[k].state \in {"submission_started", "ambiguous"}
        /\ State(k) = "ambiguous" => attempt'[k].state = "ambiguous"
    BY <1>12 DEF Lease
  <2> QED
    BY <2>1, <2>2, <1>12 DEF Lease
<1>13. ASSUME NEW r \in Requests, Lookup(r) PROVE SendSafe'
  <2>1. CASE venue[Trade(r)] = "live" /\ Goto(r, "found")
    BY <2>1, <1>13 DEF Lookup
  <2>2. CASE venue[Trade(r)] = "refused" /\ Goto(r, "refused")
    BY <2>2, <1>13 DEF Lookup
  <2>3. CASE venue[Trade(r)] # "live" /\ Goto(r, "absent")
    BY <2>3, <1>13 DEF Lookup
  <2> QED
    BY <2>1, <2>2, <2>3, <1>13 DEF Lookup
<1>14. ASSUME NEW r \in Requests, ProveAbsent(r) PROVE SendSafe'
    BY <1>14 DEF ProveAbsent, ProofAllowed, Abandoned, Failed, CancelClaims,
     Unresolved
<1>15. ASSUME NEW r \in Requests, ProveRefused(r) PROVE SendSafe'
    BY <1>15 DEF ProveRefused, ProofAllowed, Abandoned, Failed, CancelClaims,
     Unresolved
<1>16. ASSUME NEW r \in Requests, StoreFound(r) PROVE SendSafe'
  BY <1>16 DEF StoreFound, Consume
<1>17. ASSUME NEW r \in Requests, LookupEvidence(r) PROVE SendSafe'
  <2>1. CASE venue[Trade(r)] = "live" /\ Goto(r, "evidence_found")
    BY <2>1, <1>17 DEF LookupEvidence
  <2>2. CASE Return(r)
    BY <2>2, <1>17 DEF LookupEvidence
  <2> QED
    BY <2>1, <2>2, <1>17 DEF LookupEvidence
<1>18. ASSUME NEW r \in Requests, Attach(r) PROVE SendSafe'
  BY <1>18 DEF Attach
<1>19. ASSUME NEW r \in Requests, GiveUp(r) PROVE SendSafe'
  BY <1>19 DEF GiveUp
<1>20. ASSUME NEW r \in Requests, Crash(r) PROVE SendSafe'
  BY <1>20 DEF Crash
<1>21. ASSUME NEW k \in Trades, VenueDecides(k) PROVE SendSafe'
  BY <1>21 DEF VenueDecides
<1>22. ASSUME NEW k \in Trades, OrderSync(k) PROVE SendSafe'
  BY <1>22 DEF OrderSync, Consume, Open
<1>23. ASSUME NEW k \in Trades, Age(k) PROVE SendSafe'
  BY <1>23 DEF Age
<1>24. ASSUME NEW k \in Trades, LeaseRunsOut(k) PROVE SendSafe'
  BY <1>24 DEF LeaseRunsOut, Holder
<1>25. ASSUME NEW k \in Trades, OutliveLease(k) PROVE SendSafe'
  BY <1>25 DEF OutliveLease, Holder
<1>26. ASSUME Abandon PROVE SendSafe'
  BY <1>26 DEF Abandon, Abandoned, CancelClaims, Unresolved
<1>27. ASSUME ExpireReservation PROVE SendSafe'
  BY <1>27 DEF ExpireReservation, Unresolved
<1>28. ASSUME TimePasses PROVE SendSafe'
  BY <1>28 DEF TimePasses
<1>29. CASE UNCHANGED vars
  BY <1>29 DEF vars, rows, external, clock, IdleRequest
<1> QED
    BY <1>1, <1>2, <1>3, <1>4, <1>5, <1>6, <1>7, <1>8, <1>9, <1>10, <1>11,
     <1>12, <1>13, <1>14, <1>15, <1>16, <1>17, <1>18, <1>19, <1>20, <1>21,
     <1>22, <1>23, <1>24, <1>25, <1>26, <1>27, <1>28, <1>29 DEF Next,
     Environment, Claim, Submission, Reconciliation

\* Without slow requests no outcome is written over an order that was sent.
LEMMA TrackStep == SlowRequests = {} /\ TrackInv /\ [Next]_vars => TrackSafe'
<1> SUFFICES ASSUME SlowRequests = {} /\ TrackInv, [Next]_vars
       PROVE TrackSafe'
  OBVIOUS
<1> USE DEF TypeOK, RowInv, RowSafe, RowIsUnique, LiveRow, SendInv, SendSafe,
   TrackSafe, FreshIsUntouched, RequestKnows, StarterIsUnique,
   FlightIsUndecided, TrackInv, ClaimIsHeld, StarterIsOpen, AgedIsQuiet,
   OrderIsTracked, State, At, Trade, Leased, Goto, Return, Row, external,
   clock, rows, IdleRequest, Checking
<1>1. ASSUME NEW r \in Requests, NEW k \in Trades, ClaimNew(r, k)
       PROVE TrackSafe'
  BY <1>1 DEF ClaimNew, Open, LifecycleReady
<1>2. ASSUME NEW r \in Requests, NEW k \in Trades, Reclaim(r, k)
       PROVE TrackSafe'
  <2>1. NoRequest \notin Requests
    BY NullAssumption
  <2>2. ASSUME NEW s \in Requests, At(s, "claimed"), Trade(s) = k PROVE FALSE
    <3>1. attempt[k].lease = NoRequest /\ attempt[k].state = "claimed"
      BY <1>2 DEF Reclaim
    <3>2. attempt[k] = Row("claimed", s) \/ State(k) = "definitive_failure"
      BY <2>2
    <3>3. attempt[k].lease = s
      BY <3>1, <3>2
    <3> QED
      BY <2>1, <3>1, <3>3
  <2>3. /\ attempt'[k] = Row("claimed", r)
        /\ \A j \in Trades : j # k => attempt'[j] = attempt[j]
    BY <1>2 DEF Reclaim
  <2> QED
    BY <2>2, <2>3, <1>2 DEF Reclaim
<1>3. ASSUME NEW r \in Requests, MarkStarted(r) PROVE TrackSafe'
  BY <1>3 DEF MarkStarted, StartAllowed, LifecycleReady
<1>4. ASSUME NEW r \in Requests, PreSubmitFailure(r) PROVE TrackSafe'
  <2>1. \A j \in Trades : \/ attempt'[j] = attempt[j]
                          \/ /\ attempt'[j].state = "definitive_failure"
                             /\ j = Trade(r) \/ State(j) = "claimed"
        BY <1>4 DEF PreSubmitFailure, FailAndAbandon, Abandoned, Failed,
       CancelClaims
  <2>2. /\ Trade(r) \in Trades /\ Trade(r) \notin flight
        /\ venue[Trade(r)] # "live"
        /\ \A s \in Requests : At(s, "starting") /\ Trade(s) = Trade(r) => s = r
    <3>1. CASE At(r, "starting")
      BY <3>1
    <3>2. CASE At(r, "claimed") /\ State(Trade(r)) = "claimed"
      BY <3>2
    <3>3. CASE At(r, "claimed") /\ State(Trade(r)) = "definitive_failure"
      BY <3>3
    <3>4. At(r, "claimed") =>
            State(Trade(r)) \in {"claimed", "definitive_failure"}
      <4>1. attempt[Trade(r)] = Row("claimed", r) => State(Trade(r)) = "claimed"
        OBVIOUS
      <4> QED
        BY <4>1
    <3> QED
      BY <3>1, <3>2, <3>3, <3>4, <1>4 DEF PreSubmitFailure
  <2>3. Return(r) /\ UNCHANGED <<external, clock>>
    BY <1>4 DEF PreSubmitFailure
  <2>4. ClaimIsHeld'
    BY <2>1, <2>3
  <2>5. StarterIsOpen'
    BY <2>1, <2>2, <2>3
  <2>6. AgedIsQuiet'
    BY <2>1, <2>2, <2>3
  <2>7. OrderIsTracked'
    BY <2>1, <2>2, <2>3
  <2> QED
    BY <2>4, <2>5, <2>6, <2>7
<1>5. ASSUME NEW r \in Requests, NotBroadcast(r) PROVE TrackSafe'
  <2>1. \A j \in Trades : \/ attempt'[j] = attempt[j]
                          \/ /\ attempt'[j].state = "definitive_failure"
                             /\ j = Trade(r) \/ State(j) = "claimed"
    BY <1>5 DEF NotBroadcast, Failed
  <2>2. /\ Trade(r) \in Trades /\ Trade(r) \notin flight
        /\ venue[Trade(r)] # "live"
        /\ \A s \in Requests : At(s, "starting") /\ Trade(s) = Trade(r) => s = r
    <3>1. CASE At(r, "starting")
      BY <3>1
    <3>2. CASE At(r, "claimed") /\ State(Trade(r)) = "claimed"
      BY <3>2
    <3>3. CASE At(r, "claimed") /\ State(Trade(r)) = "definitive_failure"
      BY <3>3
    <3>4. At(r, "claimed") =>
            State(Trade(r)) \in {"claimed", "definitive_failure"}
      <4>1. attempt[Trade(r)] = Row("claimed", r) => State(Trade(r)) = "claimed"
        OBVIOUS
      <4> QED
        BY <4>1
    <3> QED
      BY <3>1, <3>2, <3>3, <3>4, <1>5 DEF NotBroadcast
  <2>3. Return(r) /\ UNCHANGED <<external, clock>>
    BY <1>5 DEF NotBroadcast
  <2>4. ClaimIsHeld'
    BY <2>1, <2>3
  <2>5. StarterIsOpen'
    BY <2>1, <2>2, <2>3
  <2>6. AgedIsQuiet'
    BY <2>1, <2>2, <2>3
  <2>7. OrderIsTracked'
    BY <2>1, <2>2, <2>3
  <2> QED
    BY <2>4, <2>5, <2>6, <2>7
<1>6. ASSUME NEW r \in Requests, Send(r) PROVE TrackSafe'
  BY <1>6 DEF Send
<1>7. ASSUME NEW r \in Requests, Responds(r) PROVE TrackSafe'
  <2>1. CASE venue[Trade(r)] = "live" /\ Goto(r, "accepted")
    BY <2>1, <1>7 DEF Responds
  <2>2. CASE venue[Trade(r)] = "refused" /\ Goto(r, "rejected")
    BY <2>2, <1>7 DEF Responds
  <2> QED
    BY <2>1, <2>2, <1>7 DEF Responds
<1>8. ASSUME NEW r \in Requests, StoreOrder(r) PROVE TrackSafe'
  BY <1>8 DEF StoreOrder, Consume
<1>9. ASSUME NEW r \in Requests, Rejected(r) PROVE TrackSafe'
  <2>1. \A j \in Trades : \/ attempt'[j] = attempt[j]
                          \/ /\ attempt'[j].state = "definitive_failure"
                             /\ j = Trade(r) \/ State(j) = "claimed"
    BY <1>9 DEF Rejected, FailAndAbandon, Abandoned, Failed, CancelClaims
  <2>2. /\ Trade(r) \in Trades /\ Trade(r) \notin flight
        /\ venue[Trade(r)] # "live"
        /\ \A s \in Requests : At(s, "starting") /\ Trade(s) = Trade(r) => s = r
    BY <1>9 DEF Rejected
  <2>3. Return(r) /\ UNCHANGED <<external, clock>>
    BY <1>9 DEF Rejected
  <2>4. ClaimIsHeld'
    BY <2>1, <2>3
  <2>5. StarterIsOpen'
    BY <2>1, <2>2, <2>3
  <2>6. AgedIsQuiet'
    BY <2>1, <2>2, <2>3
  <2>7. OrderIsTracked'
    BY <2>1, <2>2, <2>3
  <2> QED
    BY <2>4, <2>5, <2>6, <2>7
<1>10. ASSUME NEW r \in Requests, Throws(r) PROVE TrackSafe'
  BY <1>10 DEF Throws
<1>11. ASSUME NEW r \in Requests, RecordAmbiguous(r) PROVE TrackSafe'
  BY <1>11 DEF RecordAmbiguous
<1>12. ASSUME NEW r \in Requests, NEW k \in Trades, Lease(r, k)
       PROVE TrackSafe'
  <2>1. PICK pc \in {"checking", "evidence"} :
          req' = [req EXCEPT ![r] = [pc |-> pc, trade |-> k]]
    BY <1>12 DEF Lease
  <2>2. /\ \A j \in Trades : j # k => attempt'[j] = attempt[j]
        /\ attempt'[k].state \in {"submission_started", "ambiguous"}
        /\ State(k) = "ambiguous" => attempt'[k].state = "ambiguous"
    BY <1>12 DEF Lease
  <2> QED
    BY <2>1, <2>2, <1>12 DEF Lease
<1>13. ASSUME NEW r \in Requests, Lookup(r) PROVE TrackSafe'
  <2>1. CASE venue[Trade(r)] = "live" /\ Goto(r, "found")
    BY <2>1, <1>13 DEF Lookup
  <2>2. CASE venue[Trade(r)] = "refused" /\ Goto(r, "refused")
    BY <2>2, <1>13 DEF Lookup
  <2>3. CASE venue[Trade(r)] # "live" /\ Goto(r, "absent")
    BY <2>3, <1>13 DEF Lookup
  <2> QED
    BY <2>1, <2>2, <2>3, <1>13 DEF Lookup
<1>14. ASSUME NEW r \in Requests, ProveAbsent(r) PROVE TrackSafe'
    BY <1>14 DEF ProveAbsent, ProofAllowed, Abandoned, Failed, CancelClaims,
     Unresolved
<1>15. ASSUME NEW r \in Requests, ProveRefused(r) PROVE TrackSafe'
  <2>1. \A j \in Trades : \/ attempt'[j] = attempt[j]
                          \/ /\ attempt'[j].state = "definitive_failure"
                             /\ j = Trade(r) \/ State(j) = "claimed"
    BY <1>15 DEF ProveRefused, Abandoned, Failed, CancelClaims
  <2>2. /\ Trade(r) \in Trades /\ Trade(r) \notin flight
        /\ venue[Trade(r)] # "live"
        /\ \A s \in Requests : At(s, "starting") /\ Trade(s) = Trade(r) => s = r
    BY <1>15 DEF ProveRefused
  <2>3. Return(r) /\ UNCHANGED <<external, clock>>
    BY <1>15 DEF ProveRefused
  <2>4. ClaimIsHeld'
    BY <2>1, <2>3
  <2>5. StarterIsOpen'
    BY <2>1, <2>2, <2>3
  <2>6. AgedIsQuiet'
    BY <2>1, <2>2, <2>3
  <2>7. OrderIsTracked'
    BY <2>1, <2>2, <2>3
  <2> QED
    BY <2>4, <2>5, <2>6, <2>7
<1>16. ASSUME NEW r \in Requests, StoreFound(r) PROVE TrackSafe'
  BY <1>16 DEF StoreFound, Consume
<1>17. ASSUME NEW r \in Requests, LookupEvidence(r) PROVE TrackSafe'
  <2>1. CASE venue[Trade(r)] = "live" /\ Goto(r, "evidence_found")
    BY <2>1, <1>17 DEF LookupEvidence
  <2>2. CASE Return(r)
    BY <2>2, <1>17 DEF LookupEvidence
  <2> QED
    BY <2>1, <2>2, <1>17 DEF LookupEvidence
<1>18. ASSUME NEW r \in Requests, Attach(r) PROVE TrackSafe'
  BY <1>18 DEF Attach
<1>19. ASSUME NEW r \in Requests, GiveUp(r) PROVE TrackSafe'
  BY <1>19 DEF GiveUp
<1>20. ASSUME NEW r \in Requests, Crash(r) PROVE TrackSafe'
  BY <1>20 DEF Crash
<1>21. ASSUME NEW k \in Trades, VenueDecides(k) PROVE TrackSafe'
  BY <1>21 DEF VenueDecides
<1>22. ASSUME NEW k \in Trades, OrderSync(k) PROVE TrackSafe'
  BY <1>22 DEF OrderSync, Consume, Open
<1>23. ASSUME NEW k \in Trades, Age(k) PROVE TrackSafe'
  BY <1>23 DEF Age
<1>24. ASSUME NEW k \in Trades, LeaseRunsOut(k) PROVE TrackSafe'
  BY <1>24 DEF LeaseRunsOut, Holder
<1>25. ASSUME NEW k \in Trades, OutliveLease(k) PROVE TrackSafe'
  BY <1>25 DEF OutliveLease, Holder
<1>26. ASSUME Abandon PROVE TrackSafe'
  BY <1>26 DEF Abandon, Abandoned, CancelClaims, Unresolved
<1>27. ASSUME ExpireReservation PROVE TrackSafe'
  BY <1>27 DEF ExpireReservation, Unresolved
<1>28. ASSUME TimePasses PROVE TrackSafe'
  BY <1>28 DEF TimePasses
<1>29. CASE UNCHANGED vars
  BY <1>29 DEF vars, rows, external, clock, IdleRequest
<1> QED
    BY <1>1, <1>2, <1>3, <1>4, <1>5, <1>6, <1>7, <1>8, <1>9, <1>10, <1>11,
     <1>12, <1>13, <1>14, <1>15, <1>16, <1>17, <1>18, <1>19, <1>20, <1>21,
     <1>22, <1>23, <1>24, <1>25, <1>26, <1>27, <1>28, <1>29 DEF Next,
     Environment, Claim, Submission, Reconciliation

\* What any step may do to the rows: outcomes are final, nothing is accepted
\* that was not started, and a released reservation stays released.
LEMMA RowsMoveForward == SendInv /\ [Next]_vars => RowsMove
<1> SUFFICES ASSUME SendInv, [Next]_vars PROVE RowsMove
  OBVIOUS
<1> USE DEF RowsMove, TypeOK, RowInv, RowSafe, RowIsUnique, LiveRow, SendInv,
   SendSafe, FreshIsUntouched, RequestKnows, State, At, Trade, Leased, Goto,
   Return, Row, external, clock, rows, IdleRequest, Checking
<1>1. ASSUME NEW r \in Requests, NEW k \in Trades, ClaimNew(r, k)
       PROVE RowsMove
  BY <1>1 DEF ClaimNew, Open, LifecycleReady
<1>2. ASSUME NEW r \in Requests, NEW k \in Trades, Reclaim(r, k)
       PROVE RowsMove
  BY <1>2 DEF Reclaim
<1>3. ASSUME NEW r \in Requests, MarkStarted(r) PROVE RowsMove
  BY <1>3 DEF MarkStarted, StartAllowed, LifecycleReady
<1>4. ASSUME NEW r \in Requests, PreSubmitFailure(r) PROVE RowsMove
  <2>1. Trade(r) \in Trades /\ State(Trade(r)) # "accepted"
    BY <1>4 DEF PreSubmitFailure, FailAndAbandon
  <2>2. Abandoned(Failed(Trade(r)))
    BY <1>4 DEF PreSubmitFailure, FailAndAbandon
  <2> QED
    BY <2>1, <2>2, FailureEffect
<1>5. ASSUME NEW r \in Requests, NotBroadcast(r) PROVE RowsMove
  BY <1>5 DEF NotBroadcast, Failed
<1>6. ASSUME NEW r \in Requests, Send(r) PROVE RowsMove
  BY <1>6 DEF Send
<1>7. ASSUME NEW r \in Requests, Responds(r) PROVE RowsMove
  BY <1>7 DEF Responds
<1>8. ASSUME NEW r \in Requests, StoreOrder(r) PROVE RowsMove
  BY <1>8 DEF StoreOrder, Consume
<1>9. ASSUME NEW r \in Requests, Rejected(r) PROVE RowsMove
  <2>1. Trade(r) \in Trades /\ State(Trade(r)) # "accepted"
    BY <1>9 DEF Rejected, FailAndAbandon
  <2>2. Abandoned(Failed(Trade(r)))
    BY <1>9 DEF Rejected, FailAndAbandon
  <2> QED
    BY <2>1, <2>2, FailureEffect
<1>10. ASSUME NEW r \in Requests, Throws(r) PROVE RowsMove
  BY <1>10 DEF Throws
<1>11. ASSUME NEW r \in Requests, RecordAmbiguous(r) PROVE RowsMove
  BY <1>11 DEF RecordAmbiguous
<1>12. ASSUME NEW r \in Requests, NEW k \in Trades, Lease(r, k) PROVE RowsMove
  BY <1>12 DEF Lease
<1>13. ASSUME NEW r \in Requests, Lookup(r) PROVE RowsMove
  BY <1>13 DEF Lookup
<1>14. ASSUME NEW r \in Requests, ProveAbsent(r) PROVE RowsMove
  <2>1. Trade(r) \in Trades /\ State(Trade(r)) # "accepted"
    BY <1>14 DEF ProveAbsent, ProofAllowed
  <2>2. Abandoned(Failed(Trade(r)))
    BY <1>14 DEF ProveAbsent, ProofAllowed
  <2> QED
    BY <2>1, <2>2, FailureEffect
<1>15. ASSUME NEW r \in Requests, ProveRefused(r) PROVE RowsMove
  <2>1. Trade(r) \in Trades /\ State(Trade(r)) # "accepted"
    BY <1>15 DEF ProveRefused, ProofAllowed
  <2>2. Abandoned(Failed(Trade(r)))
    BY <1>15 DEF ProveRefused, ProofAllowed
  <2> QED
    BY <2>1, <2>2, FailureEffect
<1>16. ASSUME NEW r \in Requests, StoreFound(r) PROVE RowsMove
  BY <1>16 DEF StoreFound, Consume
<1>17. ASSUME NEW r \in Requests, LookupEvidence(r) PROVE RowsMove
  BY <1>17 DEF LookupEvidence
<1>18. ASSUME NEW r \in Requests, Attach(r) PROVE RowsMove
  BY <1>18 DEF Attach
<1>19. ASSUME NEW r \in Requests, GiveUp(r) PROVE RowsMove
  BY <1>19 DEF GiveUp
<1>20. ASSUME NEW r \in Requests, Crash(r) PROVE RowsMove
  BY <1>20 DEF Crash
<1>21. ASSUME NEW k \in Trades, VenueDecides(k) PROVE RowsMove
  BY <1>21 DEF VenueDecides
<1>22. ASSUME NEW k \in Trades, OrderSync(k) PROVE RowsMove
  BY <1>22 DEF OrderSync, Consume, Open
<1>23. ASSUME NEW k \in Trades, Age(k) PROVE RowsMove
  BY <1>23 DEF Age
<1>24. ASSUME NEW k \in Trades, LeaseRunsOut(k) PROVE RowsMove
  BY <1>24 DEF LeaseRunsOut, Holder
<1>25. ASSUME NEW k \in Trades, OutliveLease(k) PROVE RowsMove
  BY <1>25 DEF OutliveLease, Holder
<1>26. ASSUME Abandon PROVE RowsMove
  BY <1>26 DEF Abandon, Abandoned, CancelClaims, Unresolved
<1>27. ASSUME ExpireReservation PROVE RowsMove
  BY <1>27 DEF ExpireReservation, Unresolved
<1>28. ASSUME TimePasses PROVE RowsMove
  BY <1>28 DEF TimePasses
<1>29. CASE UNCHANGED vars
  BY <1>29 DEF vars, rows, external, clock, IdleRequest
<1> QED
    BY <1>1, <1>2, <1>3, <1>4, <1>5, <1>6, <1>7, <1>8, <1>9, <1>10, <1>11,
     <1>12, <1>13, <1>14, <1>15, <1>16, <1>17, <1>18, <1>19, <1>20, <1>21,
     <1>22, <1>23, <1>24, <1>25, <1>26, <1>27, <1>28, <1>29 DEF Next,
     Environment, Claim, Submission, Reconciliation

\* What any step may do to the requests that are sending: one that was not
\* sending has just been allowed to start, and a CLOB trade that stops being
\* unresolved leaves a reservation nobody can start on.
LEMMA SubmittersMove == SendInv /\ [Next]_vars => SubmitMove
<1> SUFFICES ASSUME SendInv, [Next]_vars PROVE SubmitMove
  OBVIOUS
<1> USE DEF SubmitMove, Submits, Trying, LifecycleReady, TypeOK, RowInv, RowSafe, RowIsUnique, LiveRow, SendInv,
   SendSafe, FreshIsUntouched, RequestKnows, State, At, Trade, Leased, Goto,
   Return, Row, external, clock, rows, IdleRequest, Checking
<1>1. ASSUME NEW r \in Requests, NEW k \in Trades, ClaimNew(r, k)
       PROVE SubmitMove
  BY <1>1 DEF ClaimNew, Open, LifecycleReady
<1>2. ASSUME NEW r \in Requests, NEW k \in Trades, Reclaim(r, k)
       PROVE SubmitMove
  BY <1>2 DEF Reclaim
<1>3. ASSUME NEW r \in Requests, MarkStarted(r) PROVE SubmitMove
  BY <1>3 DEF MarkStarted, StartAllowed, LifecycleReady
<1>4. ASSUME NEW r \in Requests, PreSubmitFailure(r) PROVE SubmitMove
  <2>1. Trade(r) \in Trades /\ State(Trade(r)) # "accepted"
    BY <1>4 DEF PreSubmitFailure, FailAndAbandon
  <2>2. Abandoned(Failed(Trade(r)))
    BY <1>4 DEF PreSubmitFailure, FailAndAbandon
  <2> QED
    BY <2>1, <2>2, GivenBack, <1>4 DEF PreSubmitFailure
<1>5. ASSUME NEW r \in Requests, NotBroadcast(r) PROVE SubmitMove
  BY <1>5 DEF NotBroadcast, Failed
<1>6. ASSUME NEW r \in Requests, Send(r) PROVE SubmitMove
  BY <1>6 DEF Send
<1>7. ASSUME NEW r \in Requests, Responds(r) PROVE SubmitMove
  BY <1>7 DEF Responds
<1>8. ASSUME NEW r \in Requests, StoreOrder(r) PROVE SubmitMove
  BY <1>8 DEF StoreOrder, Consume
<1>9. ASSUME NEW r \in Requests, Rejected(r) PROVE SubmitMove
  <2>1. Trade(r) \in Trades /\ State(Trade(r)) # "accepted"
    BY <1>9 DEF Rejected, FailAndAbandon
  <2>2. Abandoned(Failed(Trade(r)))
    BY <1>9 DEF Rejected, FailAndAbandon
  <2> QED
    BY <2>1, <2>2, GivenBack, <1>9 DEF Rejected
<1>10. ASSUME NEW r \in Requests, Throws(r) PROVE SubmitMove
  BY <1>10 DEF Throws
<1>11. ASSUME NEW r \in Requests, RecordAmbiguous(r) PROVE SubmitMove
  BY <1>11 DEF RecordAmbiguous
<1>12. ASSUME NEW r \in Requests, NEW k \in Trades, Lease(r, k) PROVE SubmitMove
  BY <1>12 DEF Lease
<1>13. ASSUME NEW r \in Requests, Lookup(r) PROVE SubmitMove
  <2>1. PICK pc \in {"found", "refused", "absent"} : Goto(r, pc)
    BY <1>13 DEF Lookup
  <2> QED
    BY <2>1, <1>13 DEF Lookup
<1>14. ASSUME NEW r \in Requests, ProveAbsent(r) PROVE SubmitMove
  <2>1. Trade(r) \in Trades /\ State(Trade(r)) # "accepted"
    BY <1>14 DEF ProveAbsent, ProofAllowed
  <2>2. Abandoned(Failed(Trade(r)))
    BY <1>14 DEF ProveAbsent, ProofAllowed
  <2> QED
    BY <2>1, <2>2, GivenBack, <1>14 DEF ProveAbsent
<1>15. ASSUME NEW r \in Requests, ProveRefused(r) PROVE SubmitMove
  <2>1. Trade(r) \in Trades /\ State(Trade(r)) # "accepted"
    BY <1>15 DEF ProveRefused, ProofAllowed
  <2>2. Abandoned(Failed(Trade(r)))
    BY <1>15 DEF ProveRefused, ProofAllowed
  <2> QED
    BY <2>1, <2>2, GivenBack, <1>15 DEF ProveRefused
<1>16. ASSUME NEW r \in Requests, StoreFound(r) PROVE SubmitMove
  BY <1>16 DEF StoreFound, Consume
<1>17. ASSUME NEW r \in Requests, LookupEvidence(r) PROVE SubmitMove
  BY <1>17 DEF LookupEvidence
<1>18. ASSUME NEW r \in Requests, Attach(r) PROVE SubmitMove
  BY <1>18 DEF Attach
<1>19. ASSUME NEW r \in Requests, GiveUp(r) PROVE SubmitMove
  BY <1>19 DEF GiveUp
<1>20. ASSUME NEW r \in Requests, Crash(r) PROVE SubmitMove
  BY <1>20 DEF Crash
<1>21. ASSUME NEW k \in Trades, VenueDecides(k) PROVE SubmitMove
  BY <1>21 DEF VenueDecides
<1>22. ASSUME NEW k \in Trades, OrderSync(k) PROVE SubmitMove
  BY <1>22 DEF OrderSync, Consume, Open
<1>23. ASSUME NEW k \in Trades, Age(k) PROVE SubmitMove
  BY <1>23 DEF Age
<1>24. ASSUME NEW k \in Trades, LeaseRunsOut(k) PROVE SubmitMove
  BY <1>24 DEF LeaseRunsOut, Holder
<1>25. ASSUME NEW k \in Trades, OutliveLease(k) PROVE SubmitMove
  BY <1>25 DEF OutliveLease, Holder
<1>26. ASSUME Abandon PROVE SubmitMove
  BY <1>26 DEF Abandon, Abandoned, CancelClaims, Unresolved
<1>27. ASSUME ExpireReservation PROVE SubmitMove
  BY <1>27 DEF ExpireReservation, Unresolved
<1>28. ASSUME TimePasses PROVE SubmitMove
  BY <1>28 DEF TimePasses
<1>29. CASE UNCHANGED vars
  BY <1>29 DEF vars, rows, external, clock, IdleRequest
<1> QED
    BY <1>1, <1>2, <1>3, <1>4, <1>5, <1>6, <1>7, <1>8, <1>9, <1>10, <1>11,
     <1>12, <1>13, <1>14, <1>15, <1>16, <1>17, <1>18, <1>19, <1>20, <1>21,
     <1>22, <1>23, <1>24, <1>25, <1>26, <1>27, <1>28, <1>29 DEF Next,
     Environment, Claim, Submission, Reconciliation

-----------------------------------------------------------------------------
\* The invariants hold when the reservation is settled and no trade was tried.
LEMMA InitInvariant == Init => TrackInv
<1> SUFFICES ASSUME Init PROVE TrackInv
  OBVIOUS
<1> USE DEF Init, State, Row
<1>1. TypeOK
  <2>1. failures \in 0..MaxFailures
    BY FailureAssumption
  <2>2. attempt \in [Trades -> [state : States, lease : Requests \cup {NoRequest}]]
    BY DEF States
  <2>3. req \in [Requests -> [pc : Pcs, trade : Trades \cup {NoTrade}]]
    BY DEF Pcs, IdleRequest
  <2>4. \A r \in Requests : req[r].pc # "idle" => req[r].trade \in Trades
    BY DEF IdleRequest
  <2> QED
    BY <2>1, <2>2, <2>3, <2>4 DEF TypeOK
<1>2. RowIsUnique /\ UncertainTradeKeepsReservation
  BY DEF RowIsUnique, LiveRow, UncertainTradeKeepsReservation, Unresolved
<1>3. FreshIsUntouched /\ RequestKnows /\ StarterIsUnique
  BY DEF FreshIsUntouched, RequestKnows, StarterIsUnique, At, IdleRequest
<1>4. FlightIsUndecided /\ SpentMeansTraded
  BY DEF FlightIsUndecided, SpentMeansTraded
<1>5. ClaimIsHeld /\ StarterIsOpen /\ AgedIsQuiet /\ OrderIsTracked
    BY DEF ClaimIsHeld, StarterIsOpen, AgedIsQuiet, OrderIsTracked, At,
     IdleRequest
<1> QED
    BY <1>1, <1>2, <1>3, <1>4, <1>5 DEF TrackInv, TrackSafe, SendInv,
     SendSafe, RowInv, RowSafe

\* The inductive invariant of rows, requests and venue, slow requests or not.
THEOREM SendInvariant == Spec => []SendInv
<1>1. Init => SendInv
  BY InitInvariant DEF TrackInv, TrackSafe
<1>2. SendInv /\ [Next]_vars => SendInv'
  BY TypeStep, RowStep, SendStep DEF SendInv, SendSafe, RowInv, RowSafe
<1> QED
  BY <1>1, <1>2, PTL DEF Spec

\* Requests, rows and the venue's answers keep their types.
THEOREM TypeCorrect == Spec => []TypeOK
<1>1. SendInv => TypeOK
  BY DEF SendInv, SendSafe, RowInv, RowSafe
<1> QED
  BY <1>1, SendInvariant, PTL

\* No release or purchase takes the reservation from an uncertain trade.
THEOREM UncertainTradeIsKept == Spec => []UncertainTradeKeepsReservation
<1>1. SendInv => UncertainTradeKeepsReservation
  BY DEF SendInv, SendSafe, RowInv, RowSafe
<1> QED
  BY <1>1, SendInvariant, PTL

\* Consumed funding is the consumption of a live order's accepted attempt.
THEOREM SpentFundingBought == Spec => []SpentMeansTraded
<1>1. SendInv => SpentMeansTraded
  BY DEF SendInv, SendSafe
<1> QED
  BY <1>1, SendInvariant, PTL

\* At most one request sends on a CLOB, however slow the requests are.
THEOREM OneSubmitter == Spec => []SubmitterIsUnique
<1> DEFINE I == SendInv /\ SubmitterIsOpen /\ SubmitterIsUnique
<1>1. Init => I
  <2>1. Init => SendInv
    BY InitInvariant DEF TrackInv, TrackSafe
  <2>2. Init => SubmitterIsOpen /\ SubmitterIsUnique
    BY DEF Init, SubmitterIsOpen, SubmitterIsUnique, Submits, IdleRequest
  <2> QED
    BY <2>1, <2>2
<1>2. I /\ [Next]_vars => I'
  <2> SUFFICES ASSUME I, [Next]_vars PROVE I'
    OBVIOUS
  <2>1. SendInv'
    BY TypeStep, RowStep, SendStep DEF SendInv, SendSafe, RowInv, RowSafe
  <2>2. SubmitMove
    BY SubmittersMove
  <2>3. \A r \in Requests : Submits(r)' => Trade(r) \in Trades
    BY <2>1, <2>2 DEF SendInv, RowInv, TypeOK, SubmitMove, Submits, Trade
  <2>4. SubmitterIsOpen'
    BY <2>2, <2>3 DEF SubmitMove, SubmitterIsOpen
  <2>5. ASSUME NEW r \in Requests, NEW s \in Requests, r # s, Submits(r)',
               Submits(s)', Trade(r) \notin AmmTrades, Trade(s) \notin AmmTrades
        PROVE  Submits(r) /\ Submits(s)
    <3>1. ASSUME NEW t \in Requests, NEW u \in Requests, Submits(u),
                 Trade(u) \in Trades \ AmmTrades, StartAllowed(t),
                 Trade(t) \in Trades
          PROVE  FALSE
      <4>1. Trying(Trade(u)) /\ State(Trade(t)) = "claimed"
        BY <3>1 DEF SubmitterIsOpen, StartAllowed
      <4>2. Trade(t) = Trade(u)
        BY <4>1, <3>1 DEF SendInv, RowInv, RowSafe, RowIsUnique, LiveRow, Trying
      <4> QED
        BY <4>1, <4>2 DEF Trying
    <3>2. Submits(r) \/ Submits(s)
      BY <2>2, <2>5 DEF SubmitMove, Submits
    <3> QED
      BY <3>1, <3>2, <2>2, <2>3, <2>5 DEF SubmitMove
  <2>6. SubmitterIsUnique'
    BY <2>2, <2>5 DEF SubmitMove, Submits, Trade, SubmitterIsUnique
  <2> QED
    BY <2>1, <2>4, <2>6
<1>3. I => SubmitterIsUnique
  OBVIOUS
<1> QED
  BY <1>1, <1>2, <1>3, PTL DEF Spec

\* No late outcome overwrites a resolved attempt.
THEOREM OutcomesAreFinal == Spec => OutcomeIsFinal
<1>1. SendInv /\ [Next]_vars =>
        [\A k \in Trades : State(k) \in {"accepted", "definitive_failure"}
           => State(k)' = State(k)]_vars
  BY RowsMoveForward DEF RowsMove
<1> QED
  BY <1>1, SendInvariant, PTL DEF Spec, OutcomeIsFinal

\* Without slow requests an order on its way or live is never forgotten.
THEOREM OrdersAreTracked == ASSUME SlowRequests = {}
       PROVE Spec => []OrderIsTracked
<1>1. TrackInv /\ [Next]_vars => TrackInv'
    BY TypeStep, RowStep, SendStep, TrackStep DEF TrackInv, TrackSafe,
     SendInv, SendSafe, RowInv, RowSafe
<1>2. TrackInv => OrderIsTracked
  BY DEF TrackInv, TrackSafe
<1> QED
  BY <1>1, <1>2, InitInvariant, PTL DEF Spec

\* Without slow requests the reservation buys at most once.
THEOREM ReservationBuysOnce ==
  ASSUME SlowRequests = {} PROVE Spec => []OneOrderPerReservation
<1>1. SendInv /\ OrderIsTracked => OneOrderPerReservation
    BY DEF SendInv, SendSafe, RowInv, RowSafe, RowIsUnique, LiveRow,
     OrderIsTracked,
     OneOrderPerReservation
<1> QED
  BY <1>1, SendInvariant, OrdersAreTracked, PTL

-----------------------------------------------------------------------------
(* What an accepted attempt stands for.                                    *)

\* The reconciler of Polymarket orphans works on Polymarket attempts.
Polymarket(k) == k \notin LimitlessTrades \cup AmmTrades

EvidenceIsPolymarket ==
  \A r \in Requests :
    req[r].pc \in {"evidence", "evidence_found"} => Polymarket(Trade(r))

AcceptedIsLive ==
  \A k \in Trades : State(k) = "accepted" => venue[k] = "live"

LinkInv ==
  SendInv /\ EvidenceIsPolymarket /\ AcceptedIsLive /\ LinkedTradeIsSpent

\* What one step may do to orders, to spent funding and to an acceptance.
LinkMove ==
  /\ \A k \in Trades : venue[k] = "live" => venue'[k] = "live"
  /\ reservation = "consumed" => UNCHANGED <<reservation, consumer>>
  /\ \A k \in Trades : State(k)' = "accepted" /\ State(k) # "accepted" =>
       /\ venue[k] = "live"
       /\ Polymarket(k) \/ (reservation' = "consumed" /\ consumer' = k)
  /\ EvidenceIsPolymarket'

\* A failure that gives the reservation back accepts nothing, and does not
\* happen to spent funding.
LEMMA FailureLinksNothing ==
  ASSUME TypeOK, NEW k \in Trades, Abandoned(Failed(k)), NEW r \in Requests,
         Return(r), UNCHANGED venue, EvidenceIsPolymarket
  PROVE  LinkMove
<1>1. \A j \in Trades : State(j)' = "accepted" => State(j) = "accepted"
  BY FailureEffect DEF State
<1>2. reservation # "consumed"
  BY DEF Abandoned
<1>3. EvidenceIsPolymarket'
  BY DEF EvidenceIsPolymarket, Return, IdleRequest, TypeOK, Trade
<1> QED
  BY <1>1, <1>2, <1>3 DEF LinkMove

LEMMA LinksMove == LinkInv /\ [Next]_vars => LinkMove
<1> SUFFICES ASSUME LinkInv, [Next]_vars PROVE LinkMove
  OBVIOUS
<1>a. TypeOK /\ SpentMeansTraded /\ RequestKnows /\ RowIsUnique
  BY DEF LinkInv, SendInv, SendSafe, RowInv, RowSafe
<1>b. EvidenceIsPolymarket /\ AcceptedIsLive /\ LinkedTradeIsSpent
  BY DEF LinkInv
<1> USE <1>a, <1>b DEF LinkMove, EvidenceIsPolymarket, Polymarket, TypeOK,
   RequestKnows, State, At, Trade, Leased, Goto, Return, Row, external, clock,
   rows, IdleRequest, Checking
<1>1. ASSUME NEW r \in Requests, NEW k \in Trades, ClaimNew(r, k)
       PROVE LinkMove
  BY <1>1 DEF ClaimNew, Open, LifecycleReady
<1>2. ASSUME NEW r \in Requests, NEW k \in Trades, Reclaim(r, k)
       PROVE LinkMove
  BY <1>2 DEF Reclaim
<1>3. ASSUME NEW r \in Requests, MarkStarted(r) PROVE LinkMove
  BY <1>3 DEF MarkStarted, StartAllowed, LifecycleReady
<1>4. ASSUME NEW r \in Requests, PreSubmitFailure(r) PROVE LinkMove
  <2>1. Trade(r) \in Trades /\ Abandoned(Failed(Trade(r)))
    BY <1>4 DEF PreSubmitFailure, FailAndAbandon
  <2> QED
    BY <2>1, <1>4, FailureLinksNothing DEF PreSubmitFailure
<1>5. ASSUME NEW r \in Requests, NotBroadcast(r) PROVE LinkMove
  BY <1>5 DEF NotBroadcast, Failed
<1>6. ASSUME NEW r \in Requests, Send(r) PROVE LinkMove
  BY <1>6 DEF Send
<1>7. ASSUME NEW r \in Requests, Responds(r) PROVE LinkMove
  BY <1>7 DEF Responds
<1>8. ASSUME NEW r \in Requests, StoreOrder(r) PROVE LinkMove
  BY <1>8 DEF StoreOrder, Consume
<1>9. ASSUME NEW r \in Requests, Rejected(r) PROVE LinkMove
  <2>1. Trade(r) \in Trades /\ Abandoned(Failed(Trade(r)))
    BY <1>9 DEF Rejected, FailAndAbandon
  <2> QED
    BY <2>1, <1>9, FailureLinksNothing DEF Rejected
<1>10. ASSUME NEW r \in Requests, Throws(r) PROVE LinkMove
  BY <1>10 DEF Throws
<1>11. ASSUME NEW r \in Requests, RecordAmbiguous(r) PROVE LinkMove
  BY <1>11 DEF RecordAmbiguous
<1>12. ASSUME NEW r \in Requests, NEW k \in Trades, Lease(r, k) PROVE LinkMove
  <2>1. /\ \A j \in Trades : State(j)' = "accepted" => State(j) = "accepted"
        /\ UNCHANGED <<reservation, consumer, venue>>
    BY <1>12 DEF Lease
  <2>2. PICK pc \in {"checking", "evidence"} :
          /\ req' = [req EXCEPT ![r] = [pc |-> pc, trade |-> k]]
          /\ pc = "evidence" => Polymarket(k)
    BY <1>12 DEF Lease
  <2>3. EvidenceIsPolymarket'
    BY <2>2
  <2> QED
    BY <2>1, <2>3
<1>13. ASSUME NEW r \in Requests, Lookup(r) PROVE LinkMove
  BY <1>13 DEF Lookup
<1>14. ASSUME NEW r \in Requests, ProveAbsent(r) PROVE LinkMove
  <2>1. Trade(r) \in Trades /\ Abandoned(Failed(Trade(r)))
    BY <1>14 DEF ProveAbsent, ProofAllowed
  <2> QED
    BY <2>1, <1>14, FailureLinksNothing DEF ProveAbsent
<1>15. ASSUME NEW r \in Requests, ProveRefused(r) PROVE LinkMove
  <2>1. Trade(r) \in Trades /\ Abandoned(Failed(Trade(r)))
    BY <1>15 DEF ProveRefused, ProofAllowed
  <2> QED
    BY <2>1, <1>15, FailureLinksNothing DEF ProveRefused
<1>16. ASSUME NEW r \in Requests, StoreFound(r) PROVE LinkMove
  BY <1>16 DEF StoreFound, Consume
<1>17. ASSUME NEW r \in Requests, LookupEvidence(r) PROVE LinkMove
  BY <1>17 DEF LookupEvidence
<1>18. ASSUME NEW r \in Requests, Attach(r) PROVE LinkMove
  BY <1>18 DEF Attach
<1>19. ASSUME NEW r \in Requests, GiveUp(r) PROVE LinkMove
  BY <1>19 DEF GiveUp
<1>20. ASSUME NEW r \in Requests, Crash(r) PROVE LinkMove
  BY <1>20 DEF Crash
<1>21. ASSUME NEW k \in Trades, VenueDecides(k) PROVE LinkMove
  BY <1>21 DEF VenueDecides
<1>22. ASSUME NEW k \in Trades, OrderSync(k) PROVE LinkMove
  BY <1>22 DEF OrderSync, Consume, Open
<1>23. ASSUME NEW k \in Trades, Age(k) PROVE LinkMove
  BY <1>23 DEF Age
<1>24. ASSUME NEW k \in Trades, LeaseRunsOut(k) PROVE LinkMove
  BY <1>24 DEF LeaseRunsOut, Holder
<1>25. ASSUME NEW k \in Trades, OutliveLease(k) PROVE LinkMove
  BY <1>25 DEF OutliveLease, Holder
<1>26. ASSUME Abandon PROVE LinkMove
  BY <1>26 DEF Abandon, Abandoned, CancelClaims, Unresolved
<1>27. ASSUME ExpireReservation PROVE LinkMove
  BY <1>27 DEF ExpireReservation, Unresolved
<1>28. ASSUME TimePasses PROVE LinkMove
  BY <1>28 DEF TimePasses
<1>29. CASE UNCHANGED vars
  BY <1>29 DEF vars, rows, external, clock, IdleRequest
<1> QED
    BY <1>1, <1>2, <1>3, <1>4, <1>5, <1>6, <1>7, <1>8, <1>9, <1>10, <1>11,
     <1>12, <1>13, <1>14, <1>15, <1>16, <1>17, <1>18, <1>19, <1>20, <1>21,
     <1>22, <1>23, <1>24, <1>25, <1>26, <1>27, <1>28, <1>29 DEF Next,
     Environment, Claim, Submission, Reconciliation

\* The invariant of acceptances, slow requests or not.
THEOREM LinkInvariant == Spec => []LinkInv
<1>1. Init => LinkInv
  BY InitInvariant, PathAssumption DEF TrackInv, TrackSafe, LinkInv, Init,
     EvidenceIsPolymarket, AcceptedIsLive, LinkedTradeIsSpent, State, Row,
     IdleRequest
<1>2. LinkInv /\ [Next]_vars => LinkInv'
  <2> SUFFICES ASSUME LinkInv, [Next]_vars PROVE LinkInv'
    OBVIOUS
  <2>1. SendInv'
    BY TypeStep, RowStep, SendStep DEF LinkInv, SendInv, SendSafe, RowInv, RowSafe
  <2>2. LinkMove
    BY LinksMove
  <2>3. EvidenceIsPolymarket' /\ AcceptedIsLive'
    BY <2>2 DEF LinkMove, LinkInv, AcceptedIsLive
  <2>4. ASSUME NEW k \in LimitlessTrades \cup AmmTrades, State(k)' = "accepted"
        PROVE  reservation' = "consumed" /\ consumer' = k
    <3>1. k \in Trades /\ ~Polymarket(k)
      BY PathAssumption DEF Polymarket
    <3>2. CASE State(k) = "accepted"
      BY <2>2, <3>2 DEF LinkInv, LinkedTradeIsSpent, LinkMove
    <3>3. CASE State(k) # "accepted"
      BY <2>2, <2>4, <3>1, <3>3 DEF LinkMove
    <3> QED
      BY <3>2, <3>3
  <2>5. LinkedTradeIsSpent'
    BY <2>4 DEF LinkedTradeIsSpent
  <2> QED
    BY <2>1, <2>3, <2>5 DEF LinkInv
<1> QED
  BY <1>1, <1>2, PTL DEF Spec

\* An accepted Limitless or AMM trade is the one that consumed the
\* reservation: only the status-only recovery of Polymarket accepts without.
THEOREM LinkedTradesAreSpent == Spec => []LinkedTradeIsSpent
<1>1. LinkInv => LinkedTradeIsSpent
  BY DEF LinkInv
<1> QED
  BY <1>1, LinkInvariant, PTL

\* Without slow requests no cancellation, expiry or failure gives the
\* reservation back while an order is on its way to the venue.
THEOREM InFlightIsKept ==
  ASSUME SlowRequests = {} PROVE Spec => []InFlightKeepsReservation
<1>1. LinkInv /\ OrderIsTracked => InFlightKeepsReservation
  <2> SUFFICES ASSUME LinkInv, OrderIsTracked, NEW k \in flight
               PROVE  reservation = "active"
    BY DEF InFlightKeepsReservation
  <2>1. k \in Trades /\ venue[k] = "none"
    BY DEF LinkInv, SendInv, SendSafe, RowInv, TypeOK, FlightIsUndecided
  <2>2. State(k) \in {"submission_started", "ambiguous"}
    BY <2>1 DEF OrderIsTracked, LinkInv, AcceptedIsLive
  <2> QED
    BY <2>1, <2>2 DEF LinkInv, SendInv, RowInv, RowSafe,
       UncertainTradeKeepsReservation, Unresolved, State
<1> QED
  BY <1>1, LinkInvariant, OrdersAreTracked, PTL

-----------------------------------------------------------------------------
(* Refinement of FundedPurchase.                                           *)

\* The cases of Money and MoneyTrade, without CHOOSE.
MoneyShape ==
  /\ \A k \in Trades : State(k) = "accepted" => Money = "spent" /\ MoneyTrade = k
  /\ (\A k \in Trades : State(k) # "accepted") /\ reservation = "released"
       => Money = "returned" /\ MoneyTrade = NoTrade
  /\ \A k \in Trades : Trying(k) => Money = "trying" /\ MoneyTrade = k
  /\ (\A k \in Trades : State(k) # "accepted" /\ ~Trying(k))
       /\ reservation # "released"
       => Money = "held" /\ MoneyTrade = NoTrade

\* The money of FundedPurchase can be read off the rows: at most one attempt
\* is uncertain or accepted, and the reservation is then not released.
LEMMA MoneyOfRows == SendInv => MoneyShape
<1> SUFFICES ASSUME SendInv PROVE MoneyShape
  OBVIOUS
<1> USE DEF SendInv, SendSafe, RowInv, RowSafe, RowIsUnique, LiveRow,
   UncertainTradeKeepsReservation,
            Unresolved, State, Trying
<1>1. ASSUME NEW k \in Trades,
             State(k) \in {"submission_started", "ambiguous", "accepted"}
      PROVE  (CHOOSE j \in Trades :
                State(j) \in {"submission_started", "ambiguous", "accepted"}) = k
  BY <1>1
<1>2. ASSUME NEW k \in Trades, State(k) = "accepted"
      PROVE  Money = "spent" /\ MoneyTrade = k
  BY <1>1, <1>2 DEF Money, MoneyTrade
<1>3. ASSUME \A k \in Trades : State(k) # "accepted", reservation = "released"
      PROVE  Money = "returned" /\ MoneyTrade = NoTrade
  BY <1>3 DEF Money, MoneyTrade
<1>4. ASSUME NEW k \in Trades, Trying(k)
      PROVE  Money = "trying" /\ MoneyTrade = k
  <2>1. reservation = "active" /\ \A j \in Trades : State(j) # "accepted"
    BY <1>4
  <2>2. Money = "trying"
    BY <1>4, <2>1 DEF Money
  <2> QED
    BY <1>1, <1>4, <2>2 DEF MoneyTrade
<1>5. ASSUME \A k \in Trades : State(k) # "accepted" /\ ~Trying(k),
             reservation # "released"
      PROVE  Money = "held" /\ MoneyTrade = NoTrade
  BY <1>5 DEF Money, MoneyTrade
<1> QED
  BY <1>2, <1>3, <1>4, <1>5 DEF MoneyShape

\* A step of the rows is a step of the money, or none.
LEMMA MoneyStep ==
  SendInv /\ MoneyShape /\ MoneyShape' /\ UncertainTradeKeepsReservation' /\ RowsMove
    => [Purchase!Next]_<<Money, MoneyTrade>>
<1> SUFFICES ASSUME SendInv, MoneyShape, MoneyShape',
                    UncertainTradeKeepsReservation', RowsMove
             PROVE  [Purchase!Next]_<<Money, MoneyTrade>>
  OBVIOUS
<1> USE DEF MoneyShape, RowsMove
<1>1. RowIsUnique /\ UncertainTradeKeepsReservation
  BY DEF SendInv, SendSafe, RowInv, RowSafe
<1>2. ASSUME NEW k \in Trades, State(k) = "accepted"
      PROVE  UNCHANGED <<Money, MoneyTrade>>
  <2>1. State(k)' = "accepted"
    BY <1>2
  <2> QED
    BY <1>2, <2>1
<1>3. ASSUME \A k \in Trades : State(k) # "accepted", reservation = "released"
      PROVE  UNCHANGED <<Money, MoneyTrade>>
  <2>1. \A k \in Trades : ~Trying(k)
        BY <1>1, <1>3 DEF UncertainTradeKeepsReservation, Unresolved, Trying,
       State
  <2>2. \A k \in Trades : State(k)' # "accepted"
    BY <1>3, <2>1 DEF Trying
  <2> QED
    BY <1>3, <2>2
<1>4. ASSUME NEW k \in Trades, Trying(k)
      PROVE  [Purchase!Next]_<<Money, MoneyTrade>>
  <2>1. Money = "trying" /\ MoneyTrade = k /\ \A j \in Trades : State(j) # "accepted"
    BY <1>1, <1>4 DEF RowIsUnique, LiveRow, Trying
  <2>2. CASE \E j \in Trades : State(j)' = "accepted"
    <3>1. PICK j \in Trades : State(j)' = "accepted"
      BY <2>2
    <3>2. j = k
      BY <3>1, <2>1, <1>1, <1>4 DEF RowIsUnique, LiveRow, Trying
    <3> QED
      BY <2>1, <3>1, <3>2 DEF Purchase!Next, Purchase!Buy
  <2>3. CASE \E j \in Trades : Trying(j)'
    <3>1. PICK j \in Trades : Trying(j)'
      BY <2>3
    <3>2. j = k
      BY <3>1, <1>1, <1>4 DEF RowIsUnique, LiveRow, Trying
    <3> QED
      BY <2>1, <3>1, <3>2
  <2>4. CASE \A j \in Trades : State(j)' # "accepted" /\ ~Trying(j)'
    <3>1. Money' \in {"held", "returned"} /\ MoneyTrade' = NoTrade
      BY <2>4
    <3> QED
      BY <2>1, <3>1 DEF Purchase!Next, Purchase!Fail
  <2> QED
    BY <2>2, <2>3, <2>4
<1>5. ASSUME \A k \in Trades : State(k) # "accepted" /\ ~Trying(k),
             reservation # "released"
      PROVE  [Purchase!Next]_<<Money, MoneyTrade>>
  <2>1. Money = "held" /\ MoneyTrade = NoTrade
    BY <1>5
  <2>2. \A k \in Trades : State(k)' # "accepted"
    BY <1>5 DEF Trying
  <2>3. CASE \E j \in Trades : Trying(j)'
    BY <2>1, <2>3 DEF Purchase!Next, Purchase!Try
  <2>4. CASE \A j \in Trades : ~Trying(j)'
    <3>1. Money' \in {"held", "returned"} /\ MoneyTrade' = NoTrade
      BY <2>2, <2>4
    <3> QED
      BY <2>1, <3>1 DEF Purchase!Next, Purchase!Return
  <2> QED
    BY <2>3, <2>4
<1> QED
  BY <1>2, <1>3, <1>4, <1>5

\* The rows implement FundedPurchase: the money buys once or comes back.
THEOREM RowsImplementPurchase == Spec => ImplementsPurchase
<1>1. Init => Purchase!Init
  <2>1. ASSUME Init PROVE SendInv /\ \A k \in Trades : State(k) = "none"
    BY <2>1, InitInvariant DEF TrackInv, Init, Row, State
  <2>2. ASSUME Init PROVE Money = "held" /\ MoneyTrade = NoTrade
    BY <2>1, <2>2, MoneyOfRows DEF MoneyShape, Trying, Init
  <2> QED
    BY <2>2 DEF Purchase!Init
<1>2. SendInv /\ [Next]_vars => RowsMove
  BY RowsMoveForward
<1>3. SendInv => MoneyShape /\ UncertainTradeKeepsReservation
  BY MoneyOfRows DEF SendInv, SendSafe, RowInv, RowSafe
<1>4. SendInv /\ SendInv' /\ [Next]_vars => [Purchase!Next]_<<Money, MoneyTrade>>
  <2>1. SendInv' => MoneyShape' /\ UncertainTradeKeepsReservation'
    BY <1>3, PTL
  <2> QED
    BY <1>2, <1>3, <2>1, MoneyStep
<1> QED
    BY <1>1, <1>4, SendInvariant, PTL DEF Spec, ImplementsPurchase,
     Purchase!Spec
=============================================================================

-------------------------- MODULE ReceiveSessions --------------------------
(***************************************************************************)
(* Receive sessions: the addresses shown to one user for one destination,  *)
(* the scanner that reads the chain behind them block range by block       *)
(* range, and the allocation of every external deposit it finds to exactly *)
(* one session.  Each action is one database transaction, run under the    *)
(* lock of the user's destination scope.                                   *)
(* All sessions show the same physical address, so a deposit can match     *)
(* several of them.  Transfers the program itself made to that address are *)
(* module CreditClassification's subject; what the router does with a      *)
(* receipt is module ReceiptRouting's, and enters here as the changes of   *)
(* receipt status it commits.                                              *)
(***************************************************************************)
EXTENDS Naturals, FiniteSets

CONSTANTS
  Sessions,   \* receive sessions that may be opened
  Deposits,   \* external transfers to the address
  Kind,       \* Kind[d]: direct, conversion or review (the variant it matches)
  Channel,    \* Channel[s]: web or telegram
  Workers,    \* observer processes
  MaxHead,    \* chain height explored
  NoSession

ASSUME KindAssumption == Kind \in [Deposits -> {"direct", "conversion", "review"}]
ASSUME ChannelAssumption == Channel \in [Sessions -> {"web", "telegram"}]
ASSUME HeadAssumption == MaxHead \in Nat
ASSUME NoSessionAssumption == NoSession \notin Sessions

VARIABLES
  head,       \* height of the last final block
  at,         \* at[d]: the block of deposit d, 0 while it is not on chain
  status,     \* funding_receive_sessions.status; asked: the request runs
  closed,     \* sessions whose closed_at is set
  window,     \* live until expires_at, grace until observe_until, then over
  born,       \* born[s]: place of the request in time (opened_at, created_at)
  start,      \* start[s]: block the session's scan began after
  cursor,     \* cursor[s]: last block scanned for s
  receipt,    \* the receipt of a deposit, with the session it is credited to
  poll        \* what each observer is polling (volatile)

vars == <<head, at, status, closed, window, born, start, cursor, receipt, poll>>

-----------------------------------------------------------------------------
Active == {"open", "processing", "review", "recovery"}
Ended == {"completed", "expired", "cancelled"}

NoReceipt == [status |-> "none", session |-> NoSession, late |-> FALSE]
Idle == [session |-> NoSession, fresh |-> FALSE]

TypeOK ==
  /\ head \in 0..MaxHead
  /\ at \in [Deposits -> 0..MaxHead]
  /\ status \in [Sessions -> {"none", "asked"} \cup Active \cup Ended]
  /\ closed \subseteq {s \in Sessions : status[s] \notin {"none", "asked"}}
  /\ \A s \in Sessions : status[s] \in Ended => s \in closed
  /\ window \in [Sessions -> {"live", "grace", "over"}]
  /\ born \in [Sessions -> Nat]
  /\ start \in [Sessions -> 0..MaxHead]
  /\ cursor \in [Sessions -> 0..MaxHead]
  /\ receipt \in [Deposits ->
       [status : {"none", "ready", "observed", "routing", "review", "recovery"},
        session : Sessions \cup {NoSession}, late : BOOLEAN]]
  /\ poll \in [Workers -> [session : Sessions \cup {NoSession}, fresh : BOOLEAN]]

Init ==
  /\ head = 0
  /\ at = [d \in Deposits |-> 0]
  /\ status = [s \in Sessions |-> "none"]
  /\ closed = {}
  /\ window = [s \in Sessions |-> "live"]
  /\ born = [s \in Sessions |-> 0]
  /\ start = [s \in Sessions |-> 0]
  /\ cursor = [s \in Sessions |-> 0]
  /\ receipt = [d \in Deposits |-> NoReceipt]
  /\ poll = [w \in Workers |-> Idle]

-----------------------------------------------------------------------------
(* What the rows say.                                                      *)

Opened == {s \in Sessions : status[s] \notin {"none", "asked"}}

InFlight(s) ==
  \E d \in Deposits : /\ receipt[d].session = s
                      /\ receipt[d].status \in {"observed", "routing"}

\* A session with money on its way keeps the address to itself.
HoldsLease(s) == InFlight(s) /\ window[s] # "over"

Superseded(s) == \E t \in Opened : born[t] > born[s]

\* The status of a session with receipts r, before it may be reopened.
Derived(s, r) ==
  LET has(st) == \E d \in Deposits : r[d].session = s /\ r[d].status = st
  IN  IF has("recovery") THEN "recovery"
      ELSE IF has("review") THEN "review"
      ELSE IF has("observed") \/ has("routing") THEN "processing"
      ELSE "open"

\* mutant: a released address may become active again.
EffectiveForgettingClose(s, r) ==
  IF /\ Derived(s, r) = "open"
     /\ \/ \E d \in Deposits : r[d].session = s /\ r[d].late
        \/ Superseded(s)
  THEN "completed" ELSE Derived(s, r)

\* An address that was released, paid late or superseded is never active again.
Effective(s, r) ==
  IF /\ Derived(s, r) = "open"
     /\ \/ s \in closed
        \/ \E d \in Deposits : r[d].session = s /\ r[d].late
        \/ Superseded(s)
  THEN "completed" ELSE Derived(s, r)

\* Every change of the session's row makes the polls that read it stale.
Outdated(S) ==
  [w \in Workers |-> IF poll[w].session \in S
                     THEN [poll[w] EXCEPT !.fresh = FALSE] ELSE poll[w]]

\* Sessions that could own deposit d, and the one that does: the session that
\* was the last to begin scanning before the deposit.
Covering(d) == {s \in Opened : window[s] # "over" /\ start[s] < at[d]}

\* mutant: the oldest session owns the deposit, whatever it has scanned.
IsFirstTarget(s, d) ==
  /\ s \in Covering(d)
  /\ \A t \in Covering(d) \ {s} :
       \/ start[t] > start[s]
       \/ start[t] = start[s] /\ born[t] > born[s]

IsTarget(s, d) ==
  /\ s \in Covering(d)
  /\ \A t \in Covering(d) \ {s} :
       \/ start[t] < start[s]
       \/ start[t] = start[s] /\ born[t] < born[s]

-----------------------------------------------------------------------------
(* Opening and closing an address.                                         *)

\* The request reads the clock and the height of every chain before it takes
\* the scope lock.
Ask(s) ==
  /\ status[s] = "none"
  /\ status' = [status EXCEPT ![s] = "asked"]
  /\ born' = [born EXCEPT ![s] =
       Cardinality({t \in Sessions : status[t] # "none"}) + 1]
  /\ start' = [start EXCEPT ![s] = head]
  /\ cursor' = [cursor EXCEPT ![s] = head]
  /\ UNCHANGED <<head, at, closed, window, receipt, poll>>

\* What becomes of the other sessions of the scope when s is inserted.  One
\* whose work is paused keeps its status and gives up the address.
Replaced(s, t) ==
  CASE status[t] = "open" /\ window[t] = "live" /\ Channel[t] # Channel[s]
         -> "cancelled"
    [] status[t] = "open" /\ (window[t] # "live" \/ Channel[t] = Channel[s])
         -> "expired"
    [] status[t] = "processing" -> "expired"
    [] OTHER -> status[t]

Paused == {t \in Sessions : status[t] \in {"review", "recovery"} /\ ~InFlight(t)}

\* mutant: paused sessions are left as they are.
OpenWithoutRelease(s) ==
  /\ status[s] = "asked"
  /\ \A t \in Opened : ~HoldsLease(t)
  /\ status' = [t \in Sessions |-> IF t = s THEN "open" ELSE Replaced(s, t)]
  /\ closed' = closed \cup {t \in Opened : status[t] \in {"open", "processing"}}
  /\ poll' = Outdated({t \in Opened : status[t] \in {"open", "processing"}})
  /\ UNCHANGED <<head, at, window, born, start, cursor, receipt>>

\* A request that is answered with an open session, or with a conflict because
\* another one holds the lease, writes nothing.
Open(s) ==
  /\ status[s] = "asked"
  /\ \A t \in Opened : ~HoldsLease(t)
  /\ status' = [t \in Sessions |-> IF t = s THEN "open" ELSE Replaced(s, t)]
  /\ LET left == {t \in Opened : status[t] \in {"open", "processing"}}
                   \cup (Paused \ closed)
     IN  closed' = closed \cup left /\ poll' = Outdated(left)
  /\ UNCHANGED <<head, at, window, born, start, cursor, receipt>>

\* mutant: closed_at is not set.
ExpireWithoutClosing(s) ==
  /\ status[s] \in Active
  /\ window[s] # "live"
  /\ status' = [status EXCEPT ![s] = "expired"]
  /\ poll' = Outdated({s})
  /\ UNCHANGED <<head, at, closed, window, born, start, cursor, receipt>>

\* The first statement of every poll pass.
Expire(s) ==
  /\ status[s] \in Active
  /\ window[s] # "live"
  /\ status' = [status EXCEPT ![s] = "expired"]
  /\ closed' = closed \cup {s}
  /\ poll' = Outdated({s})
  /\ UNCHANGED <<head, at, window, born, start, cursor, receipt>>

Cancel(s) ==
  /\ status[s] = "open"
  /\ \A d \in Deposits : receipt[d].session = s => receipt[d].status = "ready"
  /\ status' = [status EXCEPT ![s] = "cancelled"]
  /\ closed' = closed \cup {s}
  /\ poll' = Outdated({s})
  /\ UNCHANGED <<head, at, window, born, start, cursor, receipt>>

\* All windows have the same length, a day and then a week: they end in the
\* order of the requests, and no request or poll takes that long.
Elapse(s) ==
  /\ s \in Opened
  /\ window[s] # "over"
  /\ \A t \in Sessions : born[t] \in 1..(born[s] - 1) =>
       /\ status[t] # "asked"
       /\ window[t] # "live"
       /\ window[s] = "grace" => window[t] = "over"
  /\ window[s] = "grace" => \A w \in Workers : poll[w] = Idle
  /\ window' = [window EXCEPT ![s] = IF @ = "live" THEN "grace" ELSE "over"]
  /\ UNCHANGED <<head, at, status, closed, born, start, cursor, receipt, poll>>

-----------------------------------------------------------------------------
(* The chain and the observer.                                             *)

\* A block becomes final, with the deposits D in it.
Mine(D) ==
  /\ head < MaxHead
  /\ \A d \in D : at[d] = 0
  /\ head' = head + 1
  /\ at' = [d \in Deposits |-> IF d \in D THEN head + 1 ELSE at[d]]
  /\ UNCHANGED <<status, closed, window, born, start, cursor, receipt, poll>>

\* mutant: a closed address is no longer polled.
ObservableWhileActive(s) ==
  \/ status[s] \in {"open", "processing", "review"} /\ window[s] = "live"
  \/ status[s] = "recovery" /\ window[s] # "over"

Observable(s) ==
  \/ status[s] \in {"open", "processing", "review"} /\ window[s] = "live"
  \/ status[s] \in {"recovery"} \cup Ended /\ window[s] # "over"

Claim(w, s) ==
  /\ poll[w] = Idle
  /\ Observable(s)
  /\ poll' = [poll EXCEPT ![w] = [session |-> s, fresh |-> TRUE]]
  /\ UNCHANGED <<head, at, status, closed, window, born, start, cursor, receipt>>

\* The status a deposit is recorded with: unconverted money that arrives at a
\* closed address is kept out of automatic routing, and so is a conversion the
\* Telegram user did not consent to.
Disposition(d, isLate, refused) ==
  CASE Kind[d] = "direct" -> "ready"
    [] Kind[d] # "direct" /\ isLate -> "recovery"
    [] Kind[d] = "review" /\ ~isLate -> "review"
    [] Kind[d] = "conversion" /\ ~isLate ->
         IF d \in refused THEN "recovery" ELSE "observed"

Unallocated(s, to) ==
  {d \in Deposits : /\ at[d] \in (cursor[s] + 1)..to
                    /\ receipt[d].status = "none"
                    /\ IsTarget(s, d)}

\* The deposits found for s in the scanned range are recorded and the cursor
\* moves past the range, unless the row changed since it was claimed.  Another
\* session's deposit is left for that session; whoever meets it selects again.
\* Final blocks do not change, so the range may be fixed here.
Persist(w, to) ==
  LET s == poll[w].session
      isLate == status[s] \in Ended
  IN  /\ poll[w].session \in Sessions
      /\ poll[w].fresh
      /\ to \in (cursor[s] + 1)..head
      /\ \E refused \in SUBSET {d \in Deposits : Channel[s] = "telegram"} :
           receipt' = [d \in Deposits |->
             IF d \in Unallocated(s, to)
             THEN [status |-> Disposition(d, isLate, refused), session |-> s,
                   late |-> isLate]
             ELSE receipt[d]]
      /\ IF isLate THEN UNCHANGED <<status, closed>>
         ELSE /\ status' = [status EXCEPT ![s] = Effective(s, receipt')]
              /\ closed' = closed \cup {t \in {s} : status'[t] = "completed"}
      /\ cursor' = [cursor EXCEPT ![s] = to]
      /\ poll' = [Outdated({s}) EXCEPT ![w] = Idle]
      /\ UNCHANGED <<head, at, window, born, start>>

\* Nothing new, a failed scan, a stale row, or the end of the process.
Abandon(w) ==
  /\ poll[w] # Idle
  /\ poll' = [poll EXCEPT ![w] = Idle]
  /\ UNCHANGED <<head, at, status, closed, window, born, start, cursor, receipt>>

-----------------------------------------------------------------------------
(* What the router commits.                                                *)

\* The receipt changes and the status of an active session is derived again.
Refreshed(d, new) ==
  LET s == receipt[d].session IN
  /\ receipt' = [receipt EXCEPT ![d].status = new]
  /\ IF status[s] \in Active
     THEN /\ status' = [status EXCEPT ![s] = Effective(s, receipt')]
          /\ closed' = closed \cup {t \in {s} : status'[t] = "completed"}
          /\ poll' = Outdated({s})
     ELSE UNCHANGED <<status, closed, poll>>
  /\ UNCHANGED <<head, at, window, born, start, cursor>>

\* A child operation is created for the receipt, at once or after a review.
Link(d) ==
  /\ receipt[d].status \in {"observed", "review"}
  /\ Refreshed(d, "routing")

\* The router refuses a receipt, or finds a reviewed one already spent.
Refuse(d) ==
  \/ receipt[d].status = "observed" /\ \E new \in {"review", "recovery"} : Refreshed(d, new)
  \/ receipt[d].status = "review" /\ Refreshed(d, "recovery")

\* The child operation ended.
Settle(d) ==
  /\ receipt[d].status = "routing"
  /\ \E new \in {"ready", "review", "recovery"} : Refreshed(d, new)

Next ==
  \/ \E s \in Sessions : Ask(s) \/ Open(s) \/ Expire(s) \/ Cancel(s) \/ Elapse(s)
  \/ \E D \in SUBSET Deposits : Mine(D)
  \/ \E w \in Workers : \/ \E s \in Sessions : Claim(w, s)
                        \/ \E to \in 1..MaxHead : Persist(w, to)
                        \/ Abandon(w)
  \/ \E d \in Deposits : Link(d) \/ Refuse(d) \/ Settle(d)

Spec == Init /\ [][Next]_vars

\* Every poll pass expires what has lapsed; the session that waited longest is
\* polled first; a poll ends, and sooner or later one reaches the head before
\* its row changes.
Reach(s) == \E w \in Workers : poll[w].session = s /\ Persist(w, head)

FairSpec ==
  /\ Spec
  /\ \A s \in Sessions : /\ WF_vars(Expire(s))
                         /\ SF_vars(\E w \in Workers : Claim(w, s))
                         /\ SF_vars(Reach(s))
  /\ \A w \in Workers : WF_vars(Abandon(w))

-----------------------------------------------------------------------------
(* At most one address is open at a time: whatever order concurrent        *)
(* requests are inserted in, and whatever paused work of an old session is *)
(* settled meanwhile.                                                      *)
OneOpenAddress ==
  \A s, t \in Sessions : status[s] = "open" /\ status[t] = "open" => s = t

(* An address that was given up is not opened again when the work left on  *)
(* it is settled; it only goes back to the receipts it still has.          *)
ClosedAddressStaysClosed ==
  [][\A s \in closed : status'[s] # "open"]_vars

(* A deposit that is not credited yet and that some observed session       *)
(* covers lies ahead of the cursor of one of them: no interleaving of      *)
(* openings, closings, polls and scans of several sessions over the same   *)
(* address leaves a deposit behind everybody's cursor.                     *)
NothingIsPassedOver ==
  \A d \in Deposits :
    at[d] > 0 /\ receipt[d].status = "none" /\ Covering(d) # {} =>
      \E s \in Covering(d) : cursor[s] < at[d]

(* A deposit to an address that is still observed is credited, or every    *)
(* session that covers it runs out of its week first.                      *)
DepositIsCredited ==
  \A d \in Deposits :
    Covering(d) # {} ~> receipt[d].status # "none" \/ Covering(d) = {}

=============================================================================

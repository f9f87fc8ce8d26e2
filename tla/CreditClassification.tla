----------------------- MODULE CreditClassification -----------------------
(***************************************************************************)
(* Telling deposits from the program's own transfers.  Several sessions    *)
(* show the same address; each scans it on its own and re-reads what the   *)
(* others have recorded.  Before an event is credited it is matched with   *)
(* the handoffs of the user (transfers out of the deposit wallet, matched  *)
(* by their envelope until the transaction is known, or until the operation *)
(* has ended otherwise) and with the routes that end at the address (whose *)
(* provider names the delivering transaction late).  A poll is one transaction that either decides its   *)
(* whole batch or is rolled back; module ReceiveSessions shows that the    *)
(* version of the session row makes it atomic.                             *)
(* All events are of one asset.  One route ends at the address; the        *)
(* sessions are opened before the model starts, and their windows end in   *)
(* the order of their starts.                                              *)
(***************************************************************************)
EXTENDS Naturals, FiniteSets

CONSTANTS
  Sessions,    \* sessions that show the address
  Start,       \* Start[s]: block the session's scan begins after
  Handoffs,    \* handoff attempts
  Sent,        \* those whose wallet does send; each is the event of its transfer
  Joined,      \* those whose operation has other actions
  Deposits,    \* external transfers
  Deliveries,  \* transfers the provider makes for the route
  Envelope,    \* sender, token and amount of an attempt or event
  MaxHead, NoSession

Events == Sent \cup Deposits \cup Deliveries

ASSUME KindAssumption ==
  /\ Sent \subseteq Handoffs /\ Joined \subseteq Handoffs
  /\ Handoffs \cap (Deposits \cup Deliveries) = {}
  /\ Deposits \cap Deliveries = {}
ASSUME StartAssumption ==
  /\ MaxHead \in Nat
  /\ Start \in [Sessions -> 0..MaxHead]
  /\ \A s, t \in Sessions : Start[s] = Start[t] => s = t
ASSUME NoSessionAssumption == NoSession \notin Sessions
ASSUME HandoffsAssumption == IsFiniteSet(Handoffs)

VARIABLES
  head,      \* last final block
  at,        \* at[e]: block of event e, 0 while it is not on chain
  attempt,   \* the attempt row of a handoff
  ended,     \* whether its operation was terminal while it was only started
  route,     \* the route: idle, moving, known (delivery named) or failed
  verdict,   \* allocation_status and allocation_error_code of the event's row
  owner,     \* allocated_receive_session_id
  cursor,    \* last block scanned for a session
  visible,   \* sessions whose observe_until has not passed
  paused     \* sessions put into recovery by an event nobody may credit

vars == <<head, at, attempt, ended, route, verdict, owner, cursor, visible, paused>>

-----------------------------------------------------------------------------
Phases == {"idle", "started", "unknown", "referenced", "enriched", "dropped"}
Held == {"manycandidates", "manyevents"}
Internal == {"suppressed", "delivered"}
\* Rows that may still be decided: new, waiting for the session they belong to,
\* waiting for the provider to name its delivery.
Retryable == {"unseen", "pending", "correlating"}

TypeOK ==
  /\ head \in 0..MaxHead
  /\ at \in [Events -> 0..MaxHead]
  /\ attempt \in [Handoffs -> Phases]
  /\ ended \in [Handoffs -> {"never", "now", "before"}]
  /\ route \in {"idle", "moving", "known", "failed"}
  /\ verdict \in [Events -> Retryable \cup Held \cup Internal \cup {"allocated"}]
  /\ owner \in [Events -> Sessions \cup {NoSession}]
  /\ \A e \in Events : owner[e] # NoSession <=> verdict[e] = "allocated"
  /\ cursor \in [Sessions -> 0..MaxHead]
  /\ visible \subseteq Sessions
  /\ paused \subseteq Sessions

Init ==
  /\ head = 0
  /\ at = [e \in Events |-> 0]
  /\ attempt = [x \in Handoffs |-> "idle"]
  /\ ended = [x \in Handoffs |-> "never"]
  /\ route = "idle"
  /\ verdict = [e \in Events |-> "unseen"]
  /\ owner = [e \in Events |-> NoSession]
  /\ cursor = Start
  /\ visible = Sessions
  /\ paused = {}

-----------------------------------------------------------------------------
(* Handoffs, the route and the chain.                                      *)

rest == <<ended, route, verdict, owner, cursor, visible, paused>>

BeginHandoff(x) ==
  /\ attempt[x] = "idle"
  /\ attempt' = [attempt EXCEPT ![x] = "started"]
  /\ UNCHANGED <<head, at, rest>>

\* The client names the transaction, cannot tell whether the wallet sent it,
\* or knows it did not.
Report(x) ==
  /\ attempt[x] \in {"started", "unknown"}
  /\ \E new \in {"referenced", "unknown", "enriched", "dropped"} :
       /\ new \in {"referenced", "unknown", "dropped"} <=> attempt[x] = "started"
       /\ new \in {"referenced", "enriched"} => x \in Sent
       /\ new = "dropped" => x \notin {y \in Sent : at[y] > 0}
       /\ attempt' = [attempt EXCEPT ![x] = new]
  /\ ended' = [ended EXCEPT ![x] = IF @ = "now" THEN "before" ELSE @]
  /\ UNCHANGED <<head, at, route, verdict, owner, cursor, visible, paused>>

\* Another action stops before any money is known to have moved: the operation is
\* terminal although the wallet may still be about to send, or have sent.
OperationEnds(x) ==
  /\ x \in Joined
  /\ attempt[x] = "started"
  /\ ended[x] # "now"
  /\ ended' = [ended EXCEPT ![x] = "now"]
  /\ UNCHANGED <<head, at, attempt, route, verdict, owner, cursor, visible,
                 paused>>

\* Evidence of a movement takes the operation into recovery.
OperationResumes(x) ==
  /\ ended[x] = "now"
  /\ ended' = [ended EXCEPT ![x] = "before"]
  /\ UNCHANGED <<head, at, attempt, route, verdict, owner, cursor, visible,
                 paused>>

RouteStarts ==
  /\ route = "idle"
  /\ route' = "moving"
  /\ UNCHANGED <<head, at, attempt, ended, verdict, owner, cursor, visible, paused>>

\* The provider reports the delivery, or a refund when it delivered nothing.
RouteEnds ==
  /\ route = "moving"
  /\ \/ route' = "known"
     \/ route' = "failed" /\ \A c \in Deliveries : at[c] = 0
  /\ UNCHANGED <<head, at, attempt, ended, verdict, owner, cursor, visible, paused>>

CanHappen(e) ==
  /\ at[e] = 0
  /\ e \in Handoffs => attempt[e] \notin {"idle", "dropped"}
  /\ e \in Deliveries => route \in {"moving", "known"}

Mine(E) ==
  /\ head < MaxHead
  /\ \A e \in E : CanHappen(e)
  /\ head' = head + 1
  /\ at' = [e \in Events |-> IF e \in E THEN head + 1 ELSE at[e]]
  /\ UNCHANGED <<attempt, rest>>

Close(s) ==
  /\ s \in visible
  /\ \A t \in visible : Start[s] <= Start[t]
  /\ visible' = visible \ {s}
  /\ UNCHANGED <<head, at, attempt, ended, route, verdict, owner, cursor, paused>>

-----------------------------------------------------------------------------
(* Classification of the events U of one batch.                            *)

\* Attempts an event may come from: a started one by its envelope, unless its
\* operation is terminal at the time; one whose transaction is known by that
\* transaction only.
Candidates(e) ==
  {x \in Handoffs :
     \/ attempt[x] = "started" /\ ended[x] # "now" /\ Envelope[x] = Envelope[e]
     \/ attempt[x] \in {"referenced", "enriched"} /\ x = e}

Matched(x, U) == {e \in U : x \in Candidates(e)}

\* An attempt that alone explains two events of the batch explains neither.
ManyEvents(e, U) ==
  \E x \in Candidates(e) :
    /\ Cardinality(Matched(x, U)) > 1
    /\ \E o \in Matched(x, U) : Candidates(o) = {x}

\* A route that moves without a named delivery may explain anything.
RouteClass(e) ==
  IF e \in Deliveries /\ route = "known" THEN "delivered"
  ELSE IF route = "moving" THEN "correlating"
  ELSE "external"

\* mutant: a transfer whose attempt is not certain is credited.
ClassWhenReferenced(e, U) ==
  IF ManyEvents(e, U) THEN "manyevents"
  ELSE IF e \in Handoffs /\ attempt[e] = "referenced" THEN "suppressed"
  ELSE RouteClass(e)

Class(e, U) ==
  IF ManyEvents(e, U) THEN "manyevents"
  ELSE LET n == Cardinality(Candidates(e))
       IN  IF n > 1 THEN "manycandidates"
           ELSE IF n = 1 THEN "suppressed"
           ELSE RouteClass(e)

-----------------------------------------------------------------------------
(* The poll of a session.                                                  *)

Covering(e) == {s \in visible : Start[s] < at[e]}
IsTarget(s, e) == s \in Covering(e) /\ \A t \in Covering(e) : Start[t] <= Start[s]

Backlog(s) == {e \in Events : verdict[e] = "correlating" /\ s \in Covering(e)}
Scanned(s, to) == {e \in Events : at[e] \in (cursor[s] + 1)..to}
\* mutant: correlated events are only read from the chain.
BatchWithoutBacklog(s, to) == Scanned(s, to)

Batch(s, to) == Backlog(s) \cup Scanned(s, to)

\* Events of the batch whose row was given another verdict: the poll throws.
Refused(s, to) ==
  LET U == Batch(s, to) IN
  {e \in U : /\ verdict[e] \notin Retryable
             /\ Class(e, U) \notin {"external", verdict[e]}}

\* mutant: a recorded verdict is replaced.
RulingAnew(s, e, class) ==
  IF class # "external" THEN class
  ELSE IF IsTarget(s, e) THEN "allocated"
  ELSE IF verdict[e] = "unseen" THEN "pending"
  ELSE verdict[e]

\* What becomes of the row of an event of this class when session s polls it.
Ruling(s, e, class) ==
  IF class # "external" THEN class
  ELSE IF verdict[e] \in Retryable /\ IsTarget(s, e) THEN "allocated"
  ELSE IF verdict[e] = "unseen" THEN "pending"
  ELSE verdict[e]

\* mutant: only a new row gets its session.
CreditedAtFirstSight(s, U) ==
  {e \in U : verdict[e] = "unseen" /\ Ruling(s, e, Class(e, U)) = "allocated"}

Credited(s, U) ==
  {e \in U : verdict[e] # "allocated" /\ Ruling(s, e, Class(e, U)) = "allocated"}

Poll(s, to) ==
  LET U == Batch(s, to)
      class == [e \in U |-> Class(e, U)]
      disputed == {e \in U : /\ class[e] = "external"
                             /\ verdict[e] \in Held \cup Internal}
  IN  /\ s \in visible
      /\ to \in cursor[s]..head
      /\ U # {} \/ to > cursor[s]
      /\ Refused(s, to) = {}
      /\ verdict' = [e \in Events |->
           IF e \in U THEN Ruling(s, e, class[e]) ELSE verdict[e]]
      /\ owner' = [e \in Events |-> IF e \in Credited(s, U) THEN s ELSE owner[e]]
      /\ cursor' = [cursor EXCEPT ![s] = to]
      /\ paused' = IF disputed = {} THEN paused ELSE paused \cup {s}
      /\ UNCHANGED <<head, at, attempt, ended, route, visible>>

Next ==
  \/ \E x \in Handoffs :
       BeginHandoff(x) \/ Report(x) \/ OperationEnds(x) \/ OperationResumes(x)
  \/ RouteStarts \/ RouteEnds
  \/ \E E \in SUBSET Events : Mine(E)
  \/ \E s \in Sessions : Close(s) \/ \E to \in 0..MaxHead : Poll(s, to)

Spec == Init /\ [][Next]_vars

\* Every session is polled again and again, to the head; the provider answers.
FairSpec ==
  /\ Spec
  /\ \A s \in Sessions : SF_vars(Poll(s, head))
  /\ WF_vars(RouteEnds)

-----------------------------------------------------------------------------
(* Properties.                                                             *)

(* Every transfer gets one verdict, given once: the sessions that read the *)
(* same event in different batches, before and after its handoff or route  *)
(* is identified, never credit it twice, never take a credit back, and     *)
(* never credit what a route delivered.                                    *)
Entry(e) ==
  [verdict |-> CASE verdict[e] \in Retryable -> "open"
                 [] verdict[e] \in Internal -> "internal"
                 [] verdict[e] \in Held -> "held"
                 [] verdict[e] = "allocated" -> "credited",
   session |-> owner[e]]
Entries == [e \in Events |-> Entry(e)]

Ledger == INSTANCE DepositLedger WITH entry <- Entries
ImplementsLedger == Ledger!Spec

(* The transfer of a handoff the program never lost sight of, because its  *)
(* answer was never lost and its operation never ended while it was        *)
(* started, is not credited as a deposit, whichever session meets it first *)
(* and whenever its transaction is reported.                               *)
KnownHandoffIsNotADeposit ==
  \A x \in Sent :
    ended[x] = "never" /\ attempt[x] \in {"started", "referenced"} =>
      verdict[x] # "allocated"

(* An event that a session in its window covers is decided in the end,     *)
(* unless that window runs out or the session's poll is refused because of *)
(* an event of the same batch.                                             *)
EventIsDecided ==
  \A e \in Events :
    Covering(e) # {} ~>
      \/ verdict[e] \notin Retryable
      \/ Covering(e) = {}
      \/ \E s \in visible : Refused(s, head) # {}

(* A handoff whose answer was lost is still a handoff: while its operation *)
(* has not ended, its transfer is not credited as a deposit either (the    *)
(* code does not keep this).                                               *)
HandoffIsNotADeposit ==
  \A x \in Sent : ended[x] = "never" => verdict[x] # "allocated"

(* A poll is refused only because an event of the batch is already a       *)
(* credited deposit (the code does not keep this).                         *)
RefusalMeansAllocated ==
  \A s \in visible : \A e \in Refused(s, head) : verdict[e] = "allocated"

=============================================================================

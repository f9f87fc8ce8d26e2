--------------------------- MODULE SourceCapacity ---------------------------
(***************************************************************************)
(* Committing funding quotes against the cash of one physical source.      *)
(* Each commit is one database transaction that takes three locks in       *)
(* order (idempotency key, quote row, source), reserves the quote's        *)
(* amount, and consumes the quote.  A source that is already held is       *)
(* shared only after its balance is collected again, over a second         *)
(* connection and through the process's balance memo.                      *)
(* All reservations of the source are of one component; what a committed   *)
(* operation then does with its cash is module SourceLanes' subject, and   *)
(* enters here as what LaneCash promises: released cash never moves later. *)
(* Nothing else spends or fills the source.                                *)
(***************************************************************************)
EXTENDS Naturals, FiniteSets, Functions

CONSTANTS
  Quotes,        \* quotes over the source
  FenceQuotes,   \* those that also reserve a credit still to come
  Withdrawals,   \* those that send the source's own asset straight out
  Amount,        \* Amount[q]: the cash q reserves
  Cash,          \* the source's balance at the start
  GasReserve,    \* native execution fee the source must keep
  Keys,          \* idempotency keys of the client
  Requests,      \* commit requests running at a time
  Connections,   \* database pool size
  QuickCredits,  \* TRUE: a credit may be final before the memo runs out
  NoQuote, NoKey

ASSUME QuotesAssumption == IsFiniteSet(Quotes)
ASSUME FenceAssumption == FenceQuotes \subseteq Quotes
ASSUME WithdrawalAssumption ==
  Withdrawals \subseteq Quotes /\ Withdrawals \cap FenceQuotes = {}
ASSUME AmountAssumption ==
  /\ Amount \in [Quotes -> Nat \ {0}]
  /\ Cash \in Nat
  /\ GasReserve \in Nat
ASSUME NullAssumption == NoQuote \notin Quotes /\ NoKey \notin Keys
ASSUME PoolAssumption == Connections \in Nat /\ QuickCredits \in BOOLEAN

VARIABLES
  op,        \* op[k]: the quote whose operation was committed under key k
  quote,     \* funding_quotes: open, lapsed (expired, invalidated), consumed
  hold,      \* the reservation of a committed quote
  landed,    \* quotes whose transfer left the source
  debited,   \* quotes with a finalized source_debit observation
  credited,  \* quotes with a finalized destination or refund credit
  memo,      \* the balance memo of the process
  req        \* running commit requests (volatile, with their locks)

vars == <<op, quote, hold, landed, debited, credited, memo, req>>

-----------------------------------------------------------------------------
Total(S) == SumFunctionOnSet(Amount, S)

\* What a balance read knows: the debits recorded when it was stamped, and the
\* transfers that had left when the chain answered.
Read == [noted : SUBSET Quotes, saw : SUBSET Quotes]
Unread == [noted |-> {}, saw |-> {}]

IdleRequest ==
  [pc |-> "idle", key |-> NoKey, quote |-> NoQuote, seen |-> {},
   read |-> Unread]

TypeOK ==
  /\ op \in [Keys -> Quotes \cup {NoQuote}]
  /\ quote \in [Quotes -> {"open", "lapsed", "consumed"}]
  /\ hold \in [Quotes -> {"none", "active", "released"}]
  /\ landed \subseteq Quotes
  /\ debited \subseteq landed
  /\ credited \subseteq landed
  /\ memo \in [phase : {"empty", "loading", "kept"}, read : Read]
  /\ req \in [Requests ->
       [pc : {"idle", "begun", "keyed", "quoted", "sharing", "collected",
              "cleared"},
        key : Keys \cup {NoKey}, quote : Quotes \cup {NoQuote},
        seen : SUBSET Quotes, read : Read]]

Init ==
  /\ op = [k \in Keys |-> NoQuote]
  /\ quote = [q \in Quotes |-> "open"]
  /\ hold = [q \in Quotes |-> "none"]
  /\ landed = {} /\ debited = {} /\ credited = {}
  /\ memo = [phase |-> "empty", read |-> Unread]
  /\ req = [r \in Requests |-> IdleRequest]

-----------------------------------------------------------------------------
(* What the account projection derives from the rows.                      *)

\* Reservations still counted against the source.
Holding == {q \in Quotes : hold[q] = "active"} \ debited

\* mutant: only debits whose reservation is still active.
DebitOfActiveHold(read) ==
  Total({q \in (debited \ credited) \ read.noted : hold[q] = "active"})

\* Debits not yet replaced by a credit count against a balance read that was
\* stamped before the latest of them; an older one then counts with it.
SubmittedDebit(read) ==
  IF debited \ credited \subseteq read.noted THEN 0
  ELSE Total(debited \ credited)

\* Truncated subtraction.
Less(m, n) == IF n >= m THEN 0 ELSE m - n

Raw(read) == Less(Cash, Total(read.saw))
Available(read) == Less(Raw(read), Total(Holding) + SubmittedDebit(read))

-----------------------------------------------------------------------------
(* The commit transaction.                                                 *)

Open(q) == quote[q] = "open"

\* Which requests hold which locks.
HoldsKey(r) == req[r].pc \notin {"idle", "begun"}
HoldsQuote(r) == req[r].pc \in {"quoted", "sharing", "collected", "cleared"}
HoldsSource(r) == req[r].pc \in {"sharing", "collected", "cleared"}

\* Every running transaction keeps one connection.
PoolFree == Cardinality({r \in Requests : req[r].pc # "idle"}) < Connections

Goto(r, pc) == req' = [req EXCEPT ![r].pc = pc]
Rollback(r) == req' = [req EXCEPT ![r] = IdleRequest]
rows == <<op, quote, hold, landed, debited, credited>>

Begin(r, k, q) ==
  /\ req[r].pc = "idle"
  /\ PoolFree
  /\ req' = [req EXCEPT ![r] = [IdleRequest EXCEPT !.pc = "begun", !.key = k,
                                                   !.quote = q]]
  /\ UNCHANGED <<rows, memo>>

\* mutant: the key is looked up without its lock.
LockKeyUnqueued(r) ==
  /\ req[r].pc = "begun"
  /\ \/ op[req[r].key] = NoQuote /\ Goto(r, "keyed")
     \/ op[req[r].key] # NoQuote /\ Rollback(r)
  /\ UNCHANGED <<rows, memo>>

\* A key that was used answers with its operation, or with a conflict; either
\* way the transaction ends and writes nothing.
LockKey(r) ==
  /\ req[r].pc = "begun"
  /\ \A s \in Requests \ {r} : HoldsKey(s) => req[s].key # req[r].key
  /\ \/ op[req[r].key] = NoQuote /\ Goto(r, "keyed")
     \/ op[req[r].key] # NoQuote /\ Rollback(r)
  /\ UNCHANGED <<rows, memo>>

LockQuote(r) ==
  /\ req[r].pc = "keyed"
  /\ \A s \in Requests \ {r} : HoldsQuote(s) => req[s].quote # req[r].quote
  /\ \/ Open(req[r].quote) /\ Goto(r, "quoted")
     \/ ~Open(req[r].quote) /\ Rollback(r)
  /\ UNCHANGED <<rows, memo>>

\* An unheld source needs no balance.  A held one is shared, unless the plan
\* counts on a credit still to come.
LockSource(r) ==
  /\ req[r].pc = "quoted"
  /\ \A s \in Requests \ {r} : ~HoldsSource(s)
  /\ \/ Holding = {} /\ Goto(r, "cleared")
     \/ /\ Holding # {}
        /\ req[r].quote \notin FenceQuotes
        /\ req' = [req EXCEPT ![r].pc = "sharing", ![r].seen = Holding]
     \/ /\ Holding # {}
        /\ req[r].quote \in FenceQuotes
        /\ Rollback(r)
  /\ UNCHANGED <<rows, memo>>

\* The collector reads through the memo, over a connection of its own.
Collect(r) ==
  /\ req[r].pc = "sharing"
  /\ PoolFree
  /\ memo.phase = "kept"
  /\ req' = [req EXCEPT ![r].pc = "collected", ![r].read = memo.read]
  /\ UNCHANGED <<rows, memo>>

\* The fee a quote must leave in the source.  A direct withdrawal was sized net
\* of its own costs when it was quoted, and is held to no reserve.
Fee(q) == IF q \in Withdrawals THEN 0 ELSE GasReserve

\* mutant: the balance is compared before what others hold is taken off.
CoversFromBalance(r) ==
  /\ Total(req[r].seen) <= Total(Holding)
  /\ Amount[req[r].quote] + Fee(req[r].quote) <= Raw(req[r].read)

\* The projection still counts every hold the lock saw, and what is left
\* covers the quote and its fee.
Covers(r) ==
  /\ Total(req[r].seen) <= Total(Holding)
  /\ Amount[req[r].quote] + Fee(req[r].quote) <= Available(req[r].read)

\* The rows are read after the balance, again over a second connection.
Verify(r) ==
  /\ req[r].pc = "collected"
  /\ PoolFree
  /\ \/ Covers(r) /\ Goto(r, "cleared")
     \/ ~Covers(r) /\ Rollback(r)
  /\ UNCHANGED <<rows, memo>>

\* mutant: pg's default, no timeout.
PoolTimeoutNever(r) == FALSE /\ UNCHANGED vars

\* connectionTimeoutMillis: no second connection came free.
PoolTimeout(r) ==
  /\ req[r].pc \in {"sharing", "collected"}
  /\ ~PoolFree
  /\ Rollback(r)
  /\ UNCHANGED <<rows, memo>>

\* funding_operations is unique in its key and in its quote.
Unique(r) == \A k \in Keys : op[k] # NoQuote =>
  k # req[r].key /\ op[k] # req[r].quote

\* The quote is checked again on the database clock.
Commit(r) ==
  LET q == req[r].quote IN
  /\ req[r].pc = "cleared"
  /\ \/ /\ Open(q) /\ Unique(r)
        /\ op' = [op EXCEPT ![req[r].key] = q]
        /\ quote' = [quote EXCEPT ![q] = "consumed"]
        /\ hold' = [hold EXCEPT ![q] = "active"]
     \/ ~(Open(q) /\ Unique(r)) /\ UNCHANGED <<op, quote, hold>>
  /\ Rollback(r)
  /\ UNCHANGED <<landed, debited, credited, memo>>

\* A failed query, a collector error or the death of the process.
Fail(r) ==
  /\ req[r].pc # "idle"
  /\ Rollback(r)
  /\ UNCHANGED <<rows, memo>>

-----------------------------------------------------------------------------
(* The balance memo, filled by any reader of the account.                  *)

\* The time of the observation is taken before the chain is asked.
Stamp ==
  /\ memo.phase = "empty"
  /\ memo' = [phase |-> "loading", read |-> [noted |-> debited, saw |-> {}]]
  /\ UNCHANGED <<rows, req>>

Load ==
  /\ memo.phase = "loading"
  /\ memo' = [memo EXCEPT !.phase = "kept", !.read.saw = landed]
  /\ UNCHANGED <<rows, req>>

Expire ==
  /\ memo.phase = "kept"
  /\ memo' = [phase |-> "empty", read |-> Unread]
  /\ UNCHANGED <<rows, req>>

-----------------------------------------------------------------------------
(* Everything else that writes the rows the commit reads.                  *)

Lapse(q) ==
  /\ quote[q] = "open"
  /\ quote' = [quote EXCEPT ![q] = "lapsed"]
  /\ UNCHANGED <<op, hold, landed, debited, credited, memo, req>>

\* The transfer of a committed operation leaves the source.  What a fence
\* quote spends is the credit it waits for, never the cash that is here.
Land(q) ==
  /\ hold[q] = "active"
  /\ q \notin landed \cup FenceQuotes
  /\ Total(landed) + Amount[q] <= Cash
  /\ landed' = landed \cup {q}
  /\ UNCHANGED <<op, quote, hold, debited, credited, memo, req>>

RecordDebit(q) ==
  /\ q \in landed \ debited
  /\ debited' = debited \cup {q}
  /\ UNCHANGED <<op, quote, hold, landed, credited, memo, req>>

\* A read in use that does not know q's transfer.
Outdated(q) ==
  \/ memo.phase = "kept" /\ q \notin memo.read.saw
  \/ \E r \in Requests : req[r].pc = "collected" /\ q \notin req[r].read.saw

\* mutant: a credit that no transfer of the operation explains.
RecordAnyCredit(q) ==
  /\ q \in Quotes \ credited
  /\ ~QuickCredits => ~Outdated(q)
  /\ credited' = credited \cup {q}
  /\ UNCHANGED <<op, quote, hold, landed, debited, memo, req>>

RecordCredit(q) ==
  /\ q \in landed \ credited
  /\ ~QuickCredits => ~Outdated(q)
  /\ credited' = credited \cup {q}
  /\ UNCHANGED <<op, quote, hold, landed, debited, memo, req>>

\* Evidence of the movement, or the end of an operation that never moved it.
Release(q) ==
  /\ hold[q] = "active"
  /\ q \in landed => q \in debited \cup credited
  /\ hold' = [hold EXCEPT ![q] = "released"]
  /\ UNCHANGED <<op, quote, landed, debited, credited, memo, req>>

-----------------------------------------------------------------------------
Work(r) ==
  \/ LockKey(r) \/ LockQuote(r) \/ LockSource(r)
  \/ Collect(r) \/ Verify(r) \/ PoolTimeout(r) \/ Commit(r)

RequestStep(r) ==
  \/ \E k \in Keys, q \in Quotes : Begin(r, k, q)
  \/ Work(r)
  \/ Fail(r)

Memo == Stamp \/ Load \/ Expire

Elsewhere(q) ==
  \/ Lapse(q) \/ Land(q) \/ RecordDebit(q) \/ RecordCredit(q) \/ Release(q)

Next ==
  \/ \E r \in Requests : RequestStep(r)
  \/ Memo
  \/ \E q \in Quotes : Elsewhere(q)

Spec == Init /\ [][Next]_vars

-----------------------------------------------------------------------------
(* Properties.                                                             *)

\* Cash that committed operations may still take from the source.
Outstanding == {q \in Quotes : hold[q] = "active"} \ landed
CashLeft == Cash - Total(landed)

\* The reserve is promised until the first direct withdrawal is admitted.
FeeKept == \A q \in Withdrawals : hold[q] = "none"
Reserve == IF FeeKept THEN GasReserve ELSE 0

\* Whenever two or more operations share the source, its cash pays for all of
\* them, in whatever order they take it, and also for the execution fee as long
\* as no direct withdrawal was admitted, which may use the fee up: the check
\* made under the locks (assertSharedFundingSourceCapacity) cannot be undone by
\* another commit, by evidence recorded meanwhile, or by a late balance.
SharedHoldsAreCovered ==
  Cardinality(Outstanding) > 1 => Total(Outstanding) + Reserve <= CashLeft

\* A collected balance never promises cash that has left the source or is
\* kept for another operation, at whatever point the transfer, its debit or
\* its credit is recorded (fundingAccountValueFacts and the memo's timestamp).
AvailabilityIsReal ==
  \A r \in Requests : req[r].pc = "collected" =>
    Available(req[r].read) <= Less(CashLeft, Total(Outstanding))

\* Requests that race for a key or a quote are settled by the locks, not by the
\* unique constraints: one that got past them is the first with its key and
\* the first with its quote, so a repeated call is answered with its
\* operation and never with an error (commitFundingOperationInTransaction).
AdmittedRequestIsFirst ==
  \A r \in Requests : HoldsQuote(r) =>
    Unique(r) /\ quote[req[r].quote] # "consumed"

\* A plan that counts on a credit still to come is admitted only to a source
\* no other operation holds (lockCommitSourceReservations).
FenceIsAdmittedAlone ==
  [][\A q \in FenceQuotes :
       hold[q] = "none" /\ hold'[q] = "active" => Holding = {}]_vars

\* Whether or not credits are quick, a collected balance promises too much only
\* by transfers it does not know whose credits are recorded already: nothing
\* else that may happen between its stamp and its use makes it wrong.
OverpromiseIsCredited ==
  \A r \in Requests : req[r].pc = "collected" =>
    Available(req[r].read) <= Less(CashLeft, Total(Outstanding))
                                + Total(credited \ req[r].read.saw)

\* Once the cash pays for everything outstanding, it does so until nothing is
\* outstanding: also for the last operation that shared the source, and through
\* any other that is admitted meanwhile.  So does cover with the fee, whatever
\* withdrawals there were before, until another one is admitted.
Covered == Total(Outstanding) <= CashLeft
CoveredWithFee == Total(Outstanding) + GasReserve <= CashLeft
AdmitsWithdrawal == \E q \in Withdrawals : hold[q] = "none" /\ hold'[q] = "active"
CoverLasts ==
  [][Outstanding # {} =>
       /\ Covered => Covered'
       /\ CoveredWithFee => CoveredWithFee' \/ AdmitsWithdrawal]_vars

\* The three locks are taken in an order that never closes a circle: while
\* commits run, one of them does not wait for a lock of another.  (One that
\* shares the source waits for a connection no longer than its timeout, and for
\* the memo no longer than a read of the chain.)
WaitsForNobody(r) ==
  /\ req[r].pc # "idle"
  /\ \A s \in Requests \ {r} :
       /\ req[r].pc = "begun" /\ HoldsKey(s) => req[s].key # req[r].key
       /\ req[r].pc = "keyed" /\ HoldsQuote(s) => req[s].quote # req[r].quote
       /\ req[r].pc = "quoted" => ~HoldsSource(s)

NoCommitIsStuck ==
  (\E r \in Requests : req[r].pc # "idle") =>
    \E r \in Requests : WaitsForNobody(r)

-----------------------------------------------------------------------------
(* Fairness: PostgreSQL grants locks, and the pool connections, in order   *)
(* of arrival, so a request whose next step is possible again and again is *)
(* not passed over for ever; a chain read ends.  Nothing makes a client    *)
(* begin, a quote lapse, a request fail or money move.                     *)

FairSpec ==
  Spec /\ WF_vars(Stamp) /\ WF_vars(Load) /\ \A r \in Requests : SF_vars(Work(r))

\* No commit hangs on a lock, on the pool or on a balance: requests that hold
\* every connection while each waits for one more are all ended.
CommitEnds == \A r \in Requests : req[r].pc # "idle" ~> req[r].pc = "idle"
=============================================================================

------------------------ MODULE SourceCapacityProofs ------------------------
(***************************************************************************)
(* Theorems of SourceCapacity for every finite set of quotes, every set of *)
(* keys and requests, every amount and every size of the pool.  CapInv is  *)
(* the inductive invariant of the locks: what they exclude, and what a     *)
(* transaction learnt under them and may rely on until it ends.  CashInv   *)
(* is that of the money: what the rows and a balance that was read say of  *)
(* the cash.  It needs sums over sets of quotes, which come from SumLaws.  *)
(***************************************************************************)
EXTENDS SourceCapacity, SumLaws, TLAPS

Pcs == {"idle", "begun", "keyed", "quoted", "sharing", "collected", "cleared"}
Row == [pc : Pcs, key : Keys \cup {NoKey}, quote : Quotes \cup {NoQuote},
        seen : SUBSET Quotes, read : Read]

\* A running request has chosen its key and its quote.
Chosen ==
  \A r \in Requests : req[r].pc # "idle" =>
    req[r].key \in Keys /\ req[r].quote \in Quotes

\* No two requests hold the same lock.
Exclusive ==
  \A r, s \in Requests : r # s =>
    /\ HoldsKey(r) /\ HoldsKey(s) => req[r].key # req[s].key
    /\ HoldsQuote(r) /\ HoldsQuote(s) => req[r].quote # req[s].quote
    /\ ~(HoldsSource(r) /\ HoldsSource(s))

\* What each lock has shown its holder still holds.
KeyIsNew ==
  \A r \in Requests : HoldsKey(r) => op[req[r].key] = NoQuote

QuoteIsNew ==
  \A r \in Requests : HoldsQuote(r) => quote[req[r].quote] # "consumed"

FenceIsClear ==
  \A r \in Requests :
    HoldsSource(r) /\ req[r].quote \in FenceQuotes => Holding = {}

\* The quote of every operation is consumed.
OperationsConsume ==
  \A k \in Keys : op[k] # NoQuote => quote[op[k]] = "consumed"

CapInv ==
  /\ TypeOK /\ Chosen /\ Exclusive
  /\ KeyIsNew /\ QuoteIsNew /\ FenceIsClear /\ OperationsConsume

-----------------------------------------------------------------------------
(* How a transaction moves.                                                *)

\* Request r moved to `row', no other did, and it wrote nothing.
Moved(r, row) ==
  /\ req' = [req EXCEPT ![r] = row]
  /\ UNCHANGED <<rows, memo>>

LEMMA RowTypes ==
  TypeOK <=> /\ op \in [Keys -> Quotes \cup {NoQuote}]
             /\ quote \in [Quotes -> {"open", "lapsed", "consumed"}]
             /\ hold \in [Quotes -> {"none", "active", "released"}]
             /\ landed \subseteq Quotes
             /\ debited \subseteq landed
             /\ credited \subseteq landed
             /\ memo \in [phase : {"empty", "loading", "kept"}, read : Read]
             /\ req \in [Requests -> Row]
BY DEF TypeOK, Row, Pcs

LEMMA IdleRow == IdleRequest \in Row
BY DEF IdleRequest, Row, Pcs, Read, Unread

\* A transaction that ends gives its locks back and leaves the invariant.
LEMMA EndKeeps ==
  ASSUME CapInv, NEW r \in Requests, Moved(r, IdleRequest)
  PROVE  CapInv'
PROOF
<1>1. req' \in [Requests -> Row]
  BY RowTypes, IdleRow DEF CapInv, Moved
<1>2. /\ req'[r].pc = "idle"
      /\ \A s \in Requests \ {r} : req'[s] = req[s]
  BY RowTypes, <1>1 DEF CapInv, Moved, IdleRequest
<1>3. UNCHANGED <<op, quote, hold, landed, debited, credited, memo>>
  BY DEF Moved, rows
<1>4. TypeOK'
  BY <1>1, <1>3, RowTypes DEF CapInv, TypeOK, Row, Pcs
<1>5. Chosen' /\ Exclusive'
  BY <1>2 DEF CapInv, Chosen, Exclusive, HoldsKey, HoldsQuote, HoldsSource
<1>6. KeyIsNew' /\ QuoteIsNew' /\ OperationsConsume'
  BY <1>2, <1>3 DEF CapInv, KeyIsNew, QuoteIsNew, OperationsConsume, HoldsKey,
                    HoldsQuote
<1>7. FenceIsClear'
  BY <1>2, <1>3 DEF CapInv, FenceIsClear, Holding, HoldsSource
<1> QED
  BY <1>4, <1>5, <1>6, <1>7 DEF CapInv

\* A transaction that goes on keeps its key and its quote, and has shown what
\* the lock it took last was taken for.
LEMMA AdvanceKeeps ==
  ASSUME CapInv, NEW r \in Requests, NEW row \in Row, Moved(r, row),
         row.key = req[r].key, row.quote = req[r].quote,
         req[r].pc # "idle", row.pc # "idle",
         row.pc \notin {"idle", "begun"} => \/ HoldsKey(r)
            \/ /\ op[row.key] = NoQuote
               /\ \A s \in Requests \ {r} : HoldsKey(s) => req[s].key # row.key,
         row.pc \in {"quoted", "sharing", "collected", "cleared"} =>
            \/ HoldsQuote(r)
            \/ /\ Open(row.quote)
               /\ \A s \in Requests \ {r} :
                    HoldsQuote(s) => req[s].quote # row.quote,
         row.pc \in {"sharing", "collected", "cleared"} =>
            \/ HoldsSource(r)
            \/ /\ row.quote \notin FenceQuotes \/ Holding = {}
               /\ \A s \in Requests \ {r} : ~HoldsSource(s)
  PROVE  CapInv'
PROOF
<1>1. req' \in [Requests -> Row]
  BY RowTypes DEF CapInv, Moved
<1>2. /\ req'[r] = row
      /\ \A s \in Requests \ {r} : req'[s] = req[s]
  BY RowTypes DEF CapInv, Moved
<1>3. UNCHANGED <<op, quote, hold, landed, debited, credited, memo>>
  BY DEF Moved, rows
<1>4. TypeOK'
  BY <1>1, <1>3, RowTypes DEF CapInv, TypeOK, Row, Pcs
<1>5. Chosen'
  BY <1>2 DEF CapInv, Chosen
<1>6. Exclusive'
  BY <1>2 DEF CapInv, Exclusive, HoldsKey, HoldsQuote, HoldsSource
<1>7. KeyIsNew'
  BY <1>2, <1>3 DEF CapInv, KeyIsNew, HoldsKey
<1>8. QuoteIsNew'
  BY <1>2, <1>3 DEF CapInv, QuoteIsNew, HoldsQuote, Open
<1>9. FenceIsClear' /\ OperationsConsume'
  BY <1>2, <1>3 DEF CapInv, FenceIsClear, OperationsConsume, Holding,
                    HoldsSource
<1> QED
  BY <1>4, <1>5, <1>6, <1>7, <1>8, <1>9 DEF CapInv

-----------------------------------------------------------------------------
(* Every step keeps the invariant.                                         *)

LEMMA BeginKeeps ==
  ASSUME CapInv, NEW r \in Requests, NEW k \in Keys, NEW q \in Quotes,
         Begin(r, k, q)
  PROVE  CapInv'
PROOF
<1> DEFINE row == [IdleRequest EXCEPT !.pc = "begun", !.key = k, !.quote = q]
<1>1. row \in Row
  BY DEF Row, Pcs, IdleRequest, Read, Unread
<1>2. row.pc = "begun" /\ row.key = k /\ row.quote = q
  BY DEF IdleRequest
<1>3. req' = [req EXCEPT ![r] = row]
  BY DEF Begin
<1>4. UNCHANGED <<op, quote, hold, landed, debited, credited, memo>>
  BY DEF Begin, rows
<1> HIDE DEF row
<1>5. /\ req' \in [Requests -> Row]
      /\ req'[r] = row
      /\ \A s \in Requests \ {r} : req'[s] = req[s]
  BY <1>1, <1>3, RowTypes DEF CapInv
<1>6. TypeOK'
  BY <1>4, <1>5, RowTypes DEF CapInv, TypeOK, Row, Pcs
<1>7. Chosen' /\ Exclusive'
  BY <1>2, <1>5 DEF CapInv, Chosen, Exclusive, HoldsKey, HoldsQuote,
                    HoldsSource
<1>8. KeyIsNew' /\ QuoteIsNew' /\ OperationsConsume'
  BY <1>2, <1>4, <1>5 DEF CapInv, KeyIsNew, QuoteIsNew, OperationsConsume,
                          HoldsKey, HoldsQuote
<1>9. FenceIsClear'
  BY <1>2, <1>4, <1>5 DEF CapInv, FenceIsClear, Holding, HoldsSource
<1> QED
  BY <1>6, <1>7, <1>8, <1>9 DEF CapInv

\* A step that only moves the transaction on.
LEMMA GotoRow ==
  ASSUME NEW r \in Requests, req[r] \in Row, NEW pc \in Pcs, Goto(r, pc)
  PROVE  \E row \in Row :
           /\ req' = [req EXCEPT ![r] = row]
           /\ row.pc = pc /\ row.key = req[r].key /\ row.quote = req[r].quote
PROOF
<1> DEFINE row == [req[r] EXCEPT !.pc = pc]
<1>1. row \in Row
  BY DEF Row
<1>2. row.pc = pc /\ row.key = req[r].key /\ row.quote = req[r].quote
  BY DEF Row
<1>3. req' = [req EXCEPT ![r] = row]
  BY DEF Goto
<1> QED
  BY <1>1, <1>2, <1>3

LEMMA LockKeyKeeps ==
  ASSUME CapInv, NEW r \in Requests, LockKey(r)
  PROVE  CapInv'
PROOF
<1>1. req[r] \in Row
  BY RowTypes DEF CapInv
<1>2. CASE Rollback(r)
  BY <1>2, EndKeeps DEF LockKey, Rollback, Moved
<1>3. CASE op[req[r].key] = NoQuote /\ Goto(r, "keyed")
  <2>1. PICK row \in Row :
          /\ req' = [req EXCEPT ![r] = row]
          /\ row.pc = "keyed" /\ row.key = req[r].key
          /\ row.quote = req[r].quote
    BY <1>1, <1>3, GotoRow DEF Pcs
  <2>2. Moved(r, row)
    BY <2>1 DEF LockKey, Moved
  <2>3. /\ req[r].pc = "begun"
        /\ \A s \in Requests \ {r} : HoldsKey(s) => req[s].key # row.key
    BY <2>1 DEF LockKey
  <2> QED
    BY <1>3, <2>1, <2>2, <2>3, AdvanceKeeps
<1> QED
  BY <1>2, <1>3 DEF LockKey

LEMMA LockQuoteKeeps ==
  ASSUME CapInv, NEW r \in Requests, LockQuote(r)
  PROVE  CapInv'
PROOF
<1>1. req[r] \in Row
  BY RowTypes DEF CapInv
<1>2. CASE Rollback(r)
  BY <1>2, EndKeeps DEF LockQuote, Rollback, Moved
<1>3. CASE Open(req[r].quote) /\ Goto(r, "quoted")
  <2>1. PICK row \in Row :
          /\ req' = [req EXCEPT ![r] = row]
          /\ row.pc = "quoted" /\ row.key = req[r].key
          /\ row.quote = req[r].quote
    BY <1>1, <1>3, GotoRow DEF Pcs
  <2>2. Moved(r, row)
    BY <2>1 DEF LockQuote, Moved
  <2>3. /\ req[r].pc = "keyed" /\ HoldsKey(r) /\ Open(row.quote)
        /\ \A s \in Requests \ {r} :
             HoldsQuote(s) => req[s].quote # row.quote
    BY <1>3, <2>1 DEF LockQuote, HoldsKey
  <2> QED
    BY <2>1, <2>2, <2>3, AdvanceKeeps
<1> QED
  BY <1>2, <1>3 DEF LockQuote

LEMMA LockSourceKeeps ==
  ASSUME CapInv, NEW r \in Requests, LockSource(r)
  PROVE  CapInv'
PROOF
<1>1. req[r] \in Row
  BY RowTypes DEF CapInv
<1>2. CASE Rollback(r)
  BY <1>2, EndKeeps DEF LockSource, Rollback, Moved
<1>3. /\ req[r].pc = "quoted" /\ HoldsKey(r) /\ HoldsQuote(r)
      /\ \A s \in Requests \ {r} : ~HoldsSource(s)
  BY DEF LockSource, HoldsKey, HoldsQuote
<1>4. CASE Holding = {} /\ Goto(r, "cleared")
  <2>1. PICK row \in Row :
          /\ req' = [req EXCEPT ![r] = row]
          /\ row.pc = "cleared" /\ row.key = req[r].key
          /\ row.quote = req[r].quote
    BY <1>1, <1>4, GotoRow DEF Pcs
  <2>2. Moved(r, row)
    BY <2>1 DEF LockSource, Moved
  <2> QED
    BY <1>3, <1>4, <2>1, <2>2, AdvanceKeeps
<1>5. CASE /\ req[r].quote \notin FenceQuotes
           /\ req' = [req EXCEPT ![r].pc = "sharing", ![r].seen = Holding]
  <2> DEFINE row == [req[r] EXCEPT !.pc = "sharing", !.seen = Holding,
                                   !.read = req[r].read]
  <2>1. /\ "sharing" \in Pcs /\ Holding \in SUBSET Quotes
        /\ req[r].read \in Read
    BY <1>1 DEF Pcs, Holding, Row
  <2>2. /\ row.pc = "sharing" /\ row.key = req[r].key
        /\ row.quote = req[r].quote
    BY <1>1 DEF Row
  <2>3. row \in Row
    BY <1>1, <2>1 DEF Row
  <2>4. Moved(r, row)
    BY <1>1, <1>5 DEF LockSource, Moved, Row
  <2>5. req[r].quote \notin FenceQuotes \/ Holding = {}
    BY <1>5
  <2> HIDE DEF row
  <2> QED
    BY <1>3, <2>2, <2>3, <2>4, <2>5, AdvanceKeeps
<1> QED
  BY <1>2, <1>4, <1>5 DEF LockSource

LEMMA CollectKeeps ==
  ASSUME CapInv, NEW r \in Requests, Collect(r)
  PROVE  CapInv'
PROOF
<1> DEFINE row == [req[r] EXCEPT !.pc = "collected", !.seen = req[r].seen,
                                 !.read = memo.read]
<1>1. req[r] \in Row
  BY RowTypes DEF CapInv
<1>2. /\ "collected" \in Pcs /\ req[r].seen \in SUBSET Quotes
      /\ memo.read \in Read
  BY <1>1 DEF Pcs, Row, CapInv, TypeOK
<1>3. /\ row.pc = "collected" /\ row.key = req[r].key
      /\ row.quote = req[r].quote
  BY <1>1 DEF Row
<1>4. row \in Row
  BY <1>1, <1>2 DEF Row
<1>5. Moved(r, row)
  BY <1>1 DEF Collect, Moved, Row
<1>6. req[r].pc = "sharing" /\ HoldsKey(r) /\ HoldsQuote(r) /\ HoldsSource(r)
  BY DEF Collect, HoldsKey, HoldsQuote, HoldsSource
<1> HIDE DEF row
<1> QED
  BY <1>3, <1>4, <1>5, <1>6, AdvanceKeeps

LEMMA VerifyKeeps ==
  ASSUME CapInv, NEW r \in Requests, Verify(r)
  PROVE  CapInv'
PROOF
<1>1. req[r] \in Row
  BY RowTypes DEF CapInv
<1>2. CASE Rollback(r)
  BY <1>2, EndKeeps DEF Verify, Rollback, Moved
<1>3. CASE Goto(r, "cleared")
  <2>1. PICK row \in Row :
          /\ req' = [req EXCEPT ![r] = row]
          /\ row.pc = "cleared" /\ row.key = req[r].key
          /\ row.quote = req[r].quote
    BY <1>1, <1>3, GotoRow DEF Pcs
  <2>2. Moved(r, row)
    BY <2>1 DEF Verify, Moved
  <2>3. /\ req[r].pc = "collected"
        /\ HoldsKey(r) /\ HoldsQuote(r) /\ HoldsSource(r)
    BY DEF Verify, HoldsKey, HoldsQuote, HoldsSource
  <2> QED
    BY <2>1, <2>2, <2>3, AdvanceKeeps
<1> QED
  BY <1>2, <1>3 DEF Verify

\* The commit itself: the key was new and no other request has it, so every
\* other transaction still holds what its locks have shown it.
LEMMA CommitKeeps ==
  ASSUME CapInv, NEW r \in Requests, Commit(r)
  PROVE  CapInv'
PROOF
<1> DEFINE k == req[r].key
           q == req[r].quote
<1>1. CASE UNCHANGED <<op, quote, hold>>
  BY <1>1, EndKeeps DEF Commit, Rollback, Moved, rows
<1>2. CASE /\ Open(q)
           /\ op' = [op EXCEPT ![k] = q]
           /\ quote' = [quote EXCEPT ![q] = "consumed"]
           /\ hold' = [hold EXCEPT ![q] = "active"]
  <2>1. /\ HoldsKey(r) /\ HoldsQuote(r) /\ HoldsSource(r)
        /\ k \in Keys /\ q \in Quotes
    BY DEF Commit, HoldsKey, HoldsQuote, HoldsSource, CapInv, Chosen
  <2>2. /\ req' \in [Requests -> Row]
        /\ req'[r].pc = "idle"
        /\ \A s \in Requests \ {r} : req'[s] = req[s]
    BY IdleRow, RowTypes DEF Commit, Rollback, CapInv, IdleRequest
  <2>3. UNCHANGED <<landed, debited, credited, memo>>
    BY DEF Commit
  <2>4. op' \in [Keys -> Quotes \cup {NoQuote}]
    BY <1>2, <2>1 DEF CapInv, TypeOK
  <2>5. quote' \in [Quotes -> {"open", "lapsed", "consumed"}]
    BY <1>2, <2>1 DEF CapInv, TypeOK
  <2>6. hold' \in [Quotes -> {"none", "active", "released"}]
    BY <1>2, <2>1 DEF CapInv, TypeOK
  <2>7. TypeOK'
    BY <2>2, <2>3, <2>4, <2>5, <2>6 DEF CapInv, TypeOK, Row, Pcs
  <2>8. Chosen' /\ Exclusive'
    BY <2>2 DEF CapInv, Chosen, Exclusive, HoldsKey, HoldsQuote, HoldsSource
  <2>9. KeyIsNew'
    <3> SUFFICES ASSUME NEW s \in Requests, HoldsKey(s)'
                 PROVE  op'[req'[s].key] = NoQuote
      BY DEF KeyIsNew
    <3>1. s # r /\ req'[s] = req[s] /\ HoldsKey(s)
      BY <2>2 DEF HoldsKey
    <3>2. req[s].key # k
      BY <2>1, <3>1 DEF CapInv, Exclusive
    <3>3. req[s].key \in Keys /\ op[req[s].key] = NoQuote
      BY <3>1 DEF CapInv, KeyIsNew, Chosen, HoldsKey
    <3> QED
      BY <1>2, <3>1, <3>2, <3>3 DEF CapInv, TypeOK
  <2>10. QuoteIsNew'
    <3> SUFFICES ASSUME NEW s \in Requests, HoldsQuote(s)'
                 PROVE  quote'[req'[s].quote] # "consumed"
      BY DEF QuoteIsNew
    <3>1. s # r /\ req'[s] = req[s] /\ HoldsQuote(s)
      BY <2>2 DEF HoldsQuote
    <3>2. req[s].quote # q
      BY <2>1, <3>1 DEF CapInv, Exclusive
    <3>3. req[s].quote \in Quotes /\ quote[req[s].quote] # "consumed"
      BY <3>1 DEF CapInv, QuoteIsNew, Chosen, HoldsQuote
    <3> QED
      BY <1>2, <3>1, <3>2, <3>3 DEF CapInv, TypeOK
  <2>11. FenceIsClear'
    BY <2>1, <2>2 DEF FenceIsClear, HoldsSource, CapInv, Exclusive
  <2>12. OperationsConsume'
    <3> SUFFICES ASSUME NEW m \in Keys, op'[m] # NoQuote
                 PROVE  quote'[op'[m]] = "consumed"
      BY DEF OperationsConsume
    <3>1. CASE m = k
      BY <1>2, <2>1, <3>1 DEF CapInv, TypeOK
    <3>2. CASE m # k
      <4>1. op'[m] = op[m] /\ op[m] \in Quotes
        BY <1>2, <2>1, <3>2 DEF CapInv, TypeOK
      <4>2. quote[op[m]] = "consumed"
        BY <4>1 DEF CapInv, OperationsConsume
      <4> QED
        BY <1>2, <2>1, <4>1, <4>2 DEF CapInv, TypeOK
    <3> QED
      BY <3>1, <3>2
  <2> QED
    BY <2>7, <2>8, <2>9, <2>10, <2>11, <2>12 DEF CapInv
<1> QED
  BY <1>1, <1>2 DEF Commit

\* A step outside the commits hides no operation, revives no quote and adds
\* no hold.
LEMMA OthersKeep ==
  ASSUME CapInv, UNCHANGED <<op, req>>, TypeOK',
         \A q \in Quotes : /\ quote[q] = "consumed" <=> quote'[q] = "consumed"
                           /\ hold'[q] = "active" => hold[q] = "active",
         debited \subseteq debited'
  PROVE  CapInv'
PROOF
<1>1. Chosen' /\ Exclusive' /\ KeyIsNew'
  BY DEF CapInv, Chosen, Exclusive, KeyIsNew, HoldsKey, HoldsQuote, HoldsSource
<1>2. QuoteIsNew'
  BY DEF CapInv, QuoteIsNew, Chosen, HoldsQuote
<1>3. Holding' \subseteq Holding
  BY DEF Holding
<1>4. FenceIsClear'
  BY <1>3 DEF CapInv, FenceIsClear, HoldsSource
<1>5. OperationsConsume'
  BY DEF CapInv, OperationsConsume, TypeOK
<1> QED
  BY <1>1, <1>2, <1>4, <1>5 DEF CapInv

LEMMA MemoKeeps ==
  ASSUME CapInv, Memo
  PROVE  CapInv'
PROOF
<1>1. UNCHANGED <<op, quote, hold, landed, debited, credited, req>>
  BY DEF Memo, Stamp, Load, Expire, rows
<1>2. memo' \in [phase : {"empty", "loading", "kept"}, read : Read]
  <2>1. CASE Stamp
    BY <2>1 DEF Stamp, Read, CapInv, TypeOK
  <2>2. CASE Load
    BY <2>2 DEF Load, Read, CapInv, TypeOK
  <2>3. CASE Expire
    BY <2>3 DEF Expire, Read, Unread
  <2> QED
    BY <2>1, <2>2, <2>3 DEF Memo
<1>3. TypeOK'
  BY <1>1, <1>2 DEF CapInv, TypeOK
<1> QED
  BY <1>1, <1>3, OthersKeep

LEMMA ElsewhereKeeps ==
  ASSUME CapInv, NEW q \in Quotes, Elsewhere(q)
  PROVE  CapInv'
PROOF
<1>1. CASE Lapse(q)
  <2>1. TypeOK'
    BY <1>1 DEF Lapse, CapInv, TypeOK
  <2> QED
    BY <1>1, <2>1, OthersKeep DEF Lapse, CapInv, TypeOK
<1>2. CASE Land(q)
  <2>1. TypeOK'
    BY <1>2 DEF Land, CapInv, TypeOK
  <2> QED
    BY <1>2, <2>1, OthersKeep DEF Land
<1>3. CASE RecordDebit(q)
  <2>1. TypeOK'
    BY <1>3 DEF RecordDebit, CapInv, TypeOK
  <2> QED
    BY <1>3, <2>1, OthersKeep DEF RecordDebit
<1>4. CASE RecordCredit(q)
  <2>1. TypeOK'
    BY <1>4 DEF RecordCredit, CapInv, TypeOK
  <2> QED
    BY <1>4, <2>1, OthersKeep DEF RecordCredit
<1>5. CASE Release(q)
  <2>1. TypeOK'
    BY <1>5 DEF Release, CapInv, TypeOK
  <2> QED
    BY <1>5, <2>1, OthersKeep DEF Release, CapInv, TypeOK
<1> QED
  BY <1>1, <1>2, <1>3, <1>4, <1>5 DEF Elsewhere

LEMMA InitCap == Init => CapInv
PROOF
<1> SUFFICES ASSUME Init
             PROVE  CapInv
  OBVIOUS
<1>1. \A r \in Requests : req[r].pc = "idle"
  BY DEF Init, IdleRequest
<1>2. TypeOK
  BY IdleRow DEF Init, TypeOK, Row, Pcs, Read, Unread
<1> QED
  BY <1>1, <1>2 DEF Init, CapInv, Chosen, Exclusive, KeyIsNew, QuoteIsNew,
       FenceIsClear, OperationsConsume, HoldsKey, HoldsQuote, HoldsSource

LEMMA NextCap == CapInv /\ [Next]_vars => CapInv'
PROOF
<1> SUFFICES ASSUME CapInv, [Next]_vars
             PROVE  CapInv'
  OBVIOUS
<1>1. CASE UNCHANGED vars
  BY <1>1, OthersKeep DEF vars, CapInv, TypeOK
<1>2. ASSUME NEW r \in Requests, RequestStep(r)
      PROVE  CapInv'
  <2>1. CASE PoolTimeout(r) \/ Fail(r)
    BY <2>1, EndKeeps DEF PoolTimeout, Fail, Rollback, Moved
  <2> QED
    BY <1>2, <2>1, BeginKeeps, LockKeyKeeps, LockQuoteKeeps, LockSourceKeeps,
       CollectKeeps, VerifyKeeps, CommitKeeps DEF RequestStep, Work
<1> QED
  BY <1>1, <1>2, MemoKeeps, ElsewhereKeeps DEF Next

-----------------------------------------------------------------------------
(* The theorems.                                                           *)

THEOREM CapacityInvariant == Spec => []CapInv
  BY InitCap, NextCap, PTL DEF Spec

\* Rows, memo and requests keep their types.
THEOREM TypeCorrect == Spec => []TypeOK
PROOF
<1>1. CapInv => TypeOK
  BY DEF CapInv
<1> QED
  BY <1>1, CapacityInvariant, PTL

\* However requests race for keys and quotes, one that got past the locks is
\* the first with both, so the unique constraints are never what decides.
THEOREM LocksDecide == Spec => []AdmittedRequestIsFirst
PROOF
<1>1. CapInv => AdmittedRequestIsFirst
  <2> SUFFICES ASSUME CapInv, NEW r \in Requests, HoldsQuote(r)
               PROVE  Unique(r) /\ quote[req[r].quote] # "consumed"
    BY DEF AdmittedRequestIsFirst
  <2>1. op[req[r].key] = NoQuote
    BY DEF CapInv, KeyIsNew, HoldsKey, HoldsQuote
  <2>2. quote[req[r].quote] # "consumed"
    BY DEF CapInv, QuoteIsNew
  <2> QED
    BY <2>1, <2>2 DEF Unique, CapInv, OperationsConsume
<1> QED
  BY <1>1, CapacityInvariant, PTL

\* Whatever else commits, lands or is released meanwhile, a plan that counts
\* on a credit still to come is admitted only to a source nobody holds.
THEOREM FencesAreAlone == Spec => FenceIsAdmittedAlone
PROOF
<1>1. CapInv /\ [Next]_vars =>
        [\A q \in FenceQuotes :
           hold[q] = "none" /\ hold'[q] = "active" => Holding = {}]_vars
  <2> SUFFICES ASSUME CapInv, Next, NEW q \in FenceQuotes,
                      hold[q] = "none", hold'[q] = "active"
               PROVE  Holding = {}
    OBVIOUS
  <2>1. q \in Quotes
    BY FenceAssumption
  <2>2. PICK r \in Requests : Commit(r)
    <3>1. ASSUME NEW x \in Quotes, Elsewhere(x)
          PROVE  FALSE
      BY <2>1, <3>1 DEF Elsewhere, Lapse, Land, RecordDebit, RecordCredit,
                        Release, CapInv, TypeOK
    <3>2. ~Memo
      BY DEF Memo, Stamp, Load, Expire, rows
    <3> QED
      BY <3>1, <3>2 DEF Next, RequestStep, Begin, Work, LockKey, LockQuote,
           LockSource, Collect, Verify, PoolTimeout, Fail, rows
  <2>3. hold' = [hold EXCEPT ![req[r].quote] = "active"]
    BY <2>2 DEF Commit
  <2>4. q = req[r].quote
    BY <2>1, <2>3 DEF CapInv, TypeOK
  <2> QED
    BY <2>2, <2>4 DEF Commit, CapInv, FenceIsClear, HoldsSource
<1> QED
  BY <1>1, CapacityInvariant, PTL DEF Spec, FenceIsAdmittedAlone

-----------------------------------------------------------------------------
(* How amounts add up, from the laws of sums.                              *)

LEMMA TotalType == \A S \in SUBSET Quotes : Total(S) \in Nat
  BY SumType, QuotesAssumption, AmountAssumption DEF Total

LEMMA TotalAdd ==
  ASSUME NEW S \in SUBSET Quotes, NEW q \in Quotes, q \notin S
  PROVE  Total(S \cup {q}) = Amount[q] + Total(S)
PROOF
<1>1. /\ S \cup {q} \in SUBSET Quotes /\ q \in S \cup {q}
      /\ (S \cup {q}) \ {q} = S
  OBVIOUS
<1>2. Amount \in [Quotes -> Nat]
  BY AmountAssumption
<1>3. Total(S \cup {q}) = Amount[q] + Total((S \cup {q}) \ {q})
  BY <1>1, <1>2, SumRemove, QuotesAssumption DEF Total
<1> QED
  BY <1>1, <1>3

LEMMA TotalUnion ==
  ASSUME NEW A \in SUBSET Quotes, NEW B \in SUBSET Quotes, A \cap B = {}
  PROVE  Total(A \cup B) = Total(A) + Total(B)
  BY SumUnion, QuotesAssumption, AmountAssumption DEF Total

LEMMA TotalMonotonic ==
  ASSUME NEW B \in SUBSET Quotes, NEW A \in SUBSET B
  PROVE  Total(A) <= Total(B)
  BY SumMonotonic, QuotesAssumption, AmountAssumption DEF Total

LEMMA TotalEmpty == Total({}) = 0
  BY SumEmpty, QuotesAssumption, AmountAssumption DEF Total

-----------------------------------------------------------------------------
(* The cash.  CashInv is what a balance read knows, and what a commit may  *)
(* rely on between its check and its end if no credit is final before the  *)
(* memo runs out.                                                          *)

\* A reservation belongs to a consumed quote, and a transfer to a reservation.
HeldIsConsumed == \A q \in Quotes : hold[q] # "none" => quote[q] = "consumed"
LandedWasHeld == \A q \in landed : hold[q] # "none"

\* A transfer nobody has seen still counts as a reservation.
UnseenIsHeld ==
  \A q \in landed \ (debited \cup credited) : hold[q] = "active"

CashPaysForLanded == Total(landed) <= Cash

\* What a balance read that is in use knows: every transfer whose debit was
\* recorded when it was stamped, and, if credits are not quick, every one that
\* is already credited.
Knows(read) ==
  /\ read.noted \subseteq read.saw
  /\ read.saw \subseteq landed
  /\ ~QuickCredits => credited \subseteq read.saw

ReadsKnow ==
  /\ memo.phase = "loading" => memo.read.noted \subseteq debited
  /\ memo.phase = "kept" => Knows(memo.read)
  /\ \A r \in Requests : req[r].pc = "collected" => Knows(req[r].read)

\* A request that passed the check fits beside what is still to be taken.
ClearedFits ==
  \A r \in Requests : req[r].pc = "cleared" /\ Outstanding # {} =>
    Amount[req[r].quote] + Fee(req[r].quote) + Total(Outstanding) <= CashLeft

CashInv ==
  /\ HeldIsConsumed /\ LandedWasHeld /\ UnseenIsHeld /\ CashPaysForLanded
  /\ ReadsKnow
  /\ ~QuickCredits => ClearedFits /\ SharedHoldsAreCovered

LEMMA FeeTypes ==
  /\ \A q \in Quotes : Fee(q) \in Nat
  /\ Reserve \in Nat /\ GasReserve \in Nat
  BY AmountAssumption DEF Fee, Reserve

\* A withdrawal that was admitted does not become one that was not.
LEMMA ReserveStays ==
  ASSUME hold' = hold \/ \E q \in Quotes : Release(q), TypeOK
  PROVE  Reserve' = Reserve
PROOF
<1>1. \A q \in Quotes : hold'[q] = "none" <=> hold[q] = "none"
  BY DEF Release, TypeOK
<1> QED
  BY <1>1, WithdrawalAssumption DEF Reserve, FeeKept

LEMMA CashTypes ==
  ASSUME TypeOK, CashPaysForLanded
  PROVE  /\ Cash \in Nat /\ GasReserve \in Nat
         /\ Total(landed) \in Nat /\ Total(Outstanding) \in Nat
         /\ CashLeft \in Nat /\ CashLeft + Total(landed) = Cash
PROOF
<1>1. landed \in SUBSET Quotes /\ Outstanding \in SUBSET Quotes
  BY DEF TypeOK, Outstanding
<1> QED
  BY <1>1, TotalType, AmountAssumption DEF CashPaysForLanded, CashLeft

\* A read promises more than what is left by no more than the transfers it does
\* not know whose credits are recorded: any other one is counted among the
\* debits, or its reservation still is.
LEMMA ReadIsBounded ==
  ASSUME TypeOK, UnseenIsHeld, CashPaysForLanded,
         NEW read \in Read, Knows(read)
  PROVE  Available(read) <= Less(CashLeft, Total(Outstanding))
                              + Total(credited \ read.saw)
PROOF
<1> DEFINE New == (landed \ read.saw) \ credited
           Lost == credited \ read.saw
<1>1. /\ landed \in SUBSET Quotes /\ debited \subseteq landed
      /\ credited \subseteq landed
      /\ Holding \in SUBSET Quotes /\ Outstanding \in SUBSET Holding
      /\ read.saw \in SUBSET landed /\ New \in SUBSET Quotes
      /\ Lost \in SUBSET Quotes
      /\ debited \ credited \in SUBSET Quotes
      /\ Outstanding \cap New = {} /\ New \cup Outstanding \in SUBSET Quotes
  BY DEF TypeOK, Holding, Outstanding, Knows
<1>2. Total(landed) = Total(read.saw) + Total(New) + Total(Lost)
  <2> DEFINE Known == read.saw \cup Lost
  <2>1. /\ Known \cup New = landed /\ Known \cap New = {}
        /\ read.saw \cap Lost = {}
        /\ Known \in SUBSET Quotes /\ read.saw \in SUBSET Quotes
    BY <1>1
  <2>2. Total(Known) = Total(read.saw) + Total(Lost)
    <3> HIDE DEF Lost
    <3> QED
      BY <1>1, <2>1, TotalUnion
  <2> HIDE DEF New, Lost, Known
  <2>3. Total(landed) = Total(Known) + Total(New)
    BY <1>1, <2>1, TotalUnion
  <2>4. Total(read.saw) \in Nat /\ Total(New) \in Nat /\ Total(Lost) \in Nat
    BY <1>1, <2>1, TotalType
  <2> QED
    BY <2>2, <2>3, <2>4
<1>3. Total(New \cup Outstanding) = Total(New) + Total(Outstanding)
  <2> HIDE DEF New
  <2> QED
    BY <1>1, TotalUnion
<1>4. Total(New \cup Outstanding) <= Total(Holding) + SubmittedDebit(read)
  <2>1. New \subseteq (debited \ credited) \cup Holding
    BY <1>1 DEF UnseenIsHeld, Holding, Knows
  <2>2. CASE debited \ credited \subseteq read.noted
    <3>1. New \cup Outstanding \in SUBSET Holding
      BY <1>1, <2>1, <2>2 DEF Knows
    <3>2. SubmittedDebit(read) = 0
      BY <2>2 DEF SubmittedDebit
    <3> HIDE DEF New
    <3>3. Total(New \cup Outstanding) <= Total(Holding)
      BY <1>1, <3>1, TotalMonotonic
    <3> QED
      BY <1>1, <3>2, <3>3, TotalType
  <2>3. CASE ~(debited \ credited \subseteq read.noted)
    <3> DEFINE Debits == debited \ credited
    <3>1. /\ Holding \cup Debits \in SUBSET Quotes
          /\ Holding \cap Debits = {} /\ Debits \in SUBSET Quotes
          /\ New \cup Outstanding \in SUBSET (Holding \cup Debits)
      BY <1>1, <2>1 DEF Holding
    <3>2. SubmittedDebit(read) = Total(Debits)
      BY <2>3 DEF SubmittedDebit
    <3> HIDE DEF New, Debits
    <3>3. Total(New \cup Outstanding) <= Total(Holding \cup Debits)
      BY <3>1, TotalMonotonic
    <3>4. Total(Holding \cup Debits) = Total(Holding) + Total(Debits)
      BY <1>1, <3>1, TotalUnion
    <3> QED
      BY <3>2, <3>3, <3>4
  <2> QED
    BY <2>2, <2>3
<1>5. /\ Total(read.saw) \in Nat /\ Total(New) \in Nat
      /\ Total(Lost) \in Nat
      /\ Total(Outstanding) \in Nat /\ Total(Holding) \in Nat
      /\ SubmittedDebit(read) \in Nat
  <2>1. /\ read.saw \in SUBSET Quotes /\ Outstanding \in SUBSET Quotes
    BY <1>1
  <2> HIDE DEF New, Lost
  <2> QED
    BY <1>1, <2>1, TotalType DEF SubmittedDebit
<1> HIDE DEF New, Lost
<1>6. Raw(read) = CashLeft + Total(New) + Total(Lost)
  BY <1>2, <1>5, CashTypes DEF Raw, Less
<1>7. Total(New) + Total(Outstanding) <= Total(Holding) + SubmittedDebit(read)
  BY <1>3, <1>4
<1>8. Available(read) <= Less(CashLeft, Total(Outstanding)) + Total(Lost)
  BY <1>5, <1>6, <1>7, CashTypes DEF Available, Less
<1> QED
  BY <1>8 DEF Lost

\* If credits are not quick there is no such transfer.
LEMMA ReadIsReal ==
  ASSUME ~QuickCredits, TypeOK, UnseenIsHeld, CashPaysForLanded,
         NEW read \in Read, Knows(read)
  PROVE  Available(read) <= Less(CashLeft, Total(Outstanding))
PROOF
<1>1. credited \ read.saw = {}
  BY DEF Knows
<1>2. Available(read) <= Less(CashLeft, Total(Outstanding)) + Total({})
  BY <1>1, ReadIsBounded
<1>3. Less(CashLeft, Total(Outstanding)) \in Nat
  BY CashTypes DEF Less
<1> QED
  BY <1>2, <1>3, TotalEmpty

\* A request that only moves on keeps the invariant if what it collected is
\* known and what it was cleared for fits.
LEMMA RequestKeepsCash ==
  ASSUME CapInv, CashInv, NEW r \in Requests, NEW row \in Row, Moved(r, row),
         row.pc = "collected" => Knows(row.read),
         ~QuickCredits /\ row.pc = "cleared" /\ Outstanding # {} =>
           Amount[row.quote] + Fee(row.quote) + Total(Outstanding) <= CashLeft
  PROVE  CashInv'
PROOF
<1>1. UNCHANGED <<quote, hold, landed, debited, credited, memo>>
  BY DEF Moved, rows
<1>2. req'[r] = row /\ \A s \in Requests \ {r} : req'[s] = req[s]
  BY RowTypes DEF CapInv, Moved
<1>3. HeldIsConsumed' /\ LandedWasHeld' /\ UnseenIsHeld' /\ CashPaysForLanded'
  BY <1>1 DEF CashInv, HeldIsConsumed, LandedWasHeld, UnseenIsHeld,
              CashPaysForLanded, Total
<1>4. ReadsKnow'
  BY <1>1, <1>2 DEF CashInv, ReadsKnow, Knows
<1>5. Outstanding' = Outstanding /\ CashLeft' = CashLeft
  BY <1>1 DEF Outstanding, CashLeft
<1>6. ~QuickCredits => ClearedFits'
  BY <1>2, <1>5 DEF CashInv, ClearedFits
<1>7. ~QuickCredits => SharedHoldsAreCovered'
  BY <1>1, <1>5, ReserveStays DEF CapInv, CashInv, SharedHoldsAreCovered
<1> QED
  BY <1>3, <1>4, <1>6, <1>7 DEF CashInv

LEMMA PlainStepKeepsCash ==
  ASSUME CapInv, CashInv, NEW r \in Requests, NEW row \in Row, Moved(r, row),
         row.pc \notin {"collected", "cleared"}
  PROVE  CashInv'
  BY RequestKeepsCash

LEMMA EndKeepsCash ==
  ASSUME CapInv, CashInv, NEW r \in Requests, Moved(r, IdleRequest)
  PROVE  CashInv'
PROOF
<1>1. IdleRequest.pc = "idle"
  BY DEF IdleRequest
<1> QED
  BY <1>1, IdleRow, PlainStepKeepsCash

LEMMA BeginKeepsCash ==
  ASSUME CapInv, CashInv, NEW r \in Requests, NEW k \in Keys, NEW q \in Quotes,
         Begin(r, k, q)
  PROVE  CashInv'
PROOF
<1> DEFINE row == [IdleRequest EXCEPT !.pc = "begun", !.key = k, !.quote = q]
<1>1. row \in Row /\ row.pc = "begun"
  BY DEF Row, Pcs, IdleRequest, Read, Unread
<1>2. Moved(r, row)
  BY DEF Begin, Moved
<1> HIDE DEF row
<1> QED
  BY <1>1, <1>2, PlainStepKeepsCash

LEMMA LockKeepsCash ==
  ASSUME CapInv, CashInv, NEW r \in Requests, LockKey(r) \/ LockQuote(r)
  PROVE  CashInv'
PROOF
<1>1. req[r] \in Row /\ UNCHANGED <<rows, memo>>
  BY RowTypes DEF CapInv, LockKey, LockQuote
<1>2. CASE Rollback(r)
  BY <1>1, <1>2, EndKeepsCash DEF Rollback, Moved
<1>3. ASSUME NEW pc \in {"keyed", "quoted"}, Goto(r, pc)
      PROVE  CashInv'
  <2>1. PICK row \in Row : req' = [req EXCEPT ![r] = row] /\ row.pc = pc
    BY <1>1, <1>3, GotoRow DEF Pcs
  <2> QED
    BY <1>1, <2>1, PlainStepKeepsCash DEF Moved
<1> QED
  BY <1>2, <1>3 DEF LockKey, LockQuote

\* A source that is not held has nothing outstanding.
LEMMA LockSourceKeepsCash ==
  ASSUME CapInv, CashInv, NEW r \in Requests, LockSource(r)
  PROVE  CashInv'
PROOF
<1>1. req[r] \in Row /\ UNCHANGED <<rows, memo>>
  BY RowTypes DEF CapInv, LockSource
<1>2. CASE Rollback(r)
  BY <1>1, <1>2, EndKeepsCash DEF Rollback, Moved
<1>3. CASE Holding = {} /\ Goto(r, "cleared")
  <2>1. PICK row \in Row : req' = [req EXCEPT ![r] = row] /\ row.pc = "cleared"
    BY <1>1, <1>3, GotoRow DEF Pcs
  <2>2. Outstanding = {}
    BY <1>3 DEF Outstanding, Holding, CapInv, TypeOK
  <2> QED
    BY <1>1, <2>1, <2>2, RequestKeepsCash DEF Moved
<1>4. CASE req' = [req EXCEPT ![r].pc = "sharing", ![r].seen = Holding]
  <2> DEFINE row == [req[r] EXCEPT !.pc = "sharing", !.seen = Holding,
                                   !.read = req[r].read]
  <2>1. /\ "sharing" \in Pcs /\ Holding \in SUBSET Quotes
        /\ req[r].read \in Read
    BY <1>1 DEF Pcs, Holding, Row
  <2>2. row \in Row /\ row.pc = "sharing"
    BY <1>1, <2>1 DEF Row
  <2>3. Moved(r, row)
    BY <1>1, <1>4 DEF Moved, Row
  <2> HIDE DEF row
  <2> QED
    BY <2>2, <2>3, PlainStepKeepsCash
<1> QED
  BY <1>2, <1>3, <1>4 DEF LockSource

\* What is collected is the memo, with what the memo knows.
LEMMA CollectKeepsCash ==
  ASSUME CapInv, CashInv, NEW r \in Requests, Collect(r)
  PROVE  CashInv'
PROOF
<1> DEFINE row == [req[r] EXCEPT !.pc = "collected", !.seen = req[r].seen,
                                 !.read = memo.read]
<1>1. req[r] \in Row
  BY RowTypes DEF CapInv
<1>2. /\ "collected" \in Pcs /\ req[r].seen \in SUBSET Quotes
      /\ memo.read \in Read
  BY <1>1 DEF Pcs, Row, CapInv, TypeOK
<1>3. row \in Row /\ row.pc = "collected" /\ row.read = memo.read
  BY <1>1, <1>2 DEF Row
<1>4. Moved(r, row)
  BY <1>1 DEF Collect, Moved, Row
<1>5. Knows(memo.read)
  BY DEF Collect, CashInv, ReadsKnow
<1> HIDE DEF row
<1> QED
  BY <1>3, <1>4, <1>5, RequestKeepsCash

\* A quote the available balance covers fits beside everything outstanding.
LEMMA VerifyKeepsCash ==
  ASSUME CapInv, CashInv, NEW r \in Requests, Verify(r)
  PROVE  CashInv'
PROOF
<1>1. req[r] \in Row /\ req[r].pc = "collected" /\ UNCHANGED <<rows, memo>>
  BY RowTypes DEF CapInv, Verify
<1>2. CASE Rollback(r)
  BY <1>1, <1>2, EndKeepsCash DEF Rollback, Moved
<1>3. CASE Covers(r) /\ Goto(r, "cleared")
  <2> DEFINE q == req[r].quote
  <2>1. PICK row \in Row : /\ req' = [req EXCEPT ![r] = row]
                           /\ row.pc = "cleared" /\ row.quote = q
    BY <1>1, <1>3, GotoRow DEF Pcs
  <2>2. /\ q \in Quotes /\ Amount[q] \in Nat /\ Amount[q] > 0
        /\ Fee(q) \in Nat
    BY <1>1, AmountAssumption, FeeTypes DEF CapInv, Chosen
  <2>3. req[r].read \in Read /\ Knows(req[r].read)
    BY <1>1 DEF Row, CashInv, ReadsKnow
  <2>4. ~QuickCredits =>
          Available(req[r].read) <= Less(CashLeft, Total(Outstanding))
    BY <2>3, ReadIsReal DEF CapInv, CashInv
  <2>5. Amount[q] + Fee(q) <= Available(req[r].read)
    BY <1>3 DEF Covers
  <2>6. /\ CashLeft \in Nat /\ Total(Outstanding) \in Nat /\ GasReserve \in Nat
    BY CashTypes DEF CapInv, CashInv
  <2>7. Available(req[r].read) \in Nat
    <3>1. /\ req[r].read.saw \in SUBSET Quotes
          /\ Holding \in SUBSET Quotes /\ debited \ credited \in SUBSET Quotes
      BY <2>3 DEF Read, Holding, CapInv, TypeOK
    <3>2. /\ Total(req[r].read.saw) \in Nat /\ Total(Holding) \in Nat
          /\ SubmittedDebit(req[r].read) \in Nat /\ Cash \in Nat
      BY <3>1, TotalType, AmountAssumption DEF SubmittedDebit
    <3> QED
      BY <3>2 DEF Available, Raw, Less
  <2> HIDE DEF q
  <2>8. ~QuickCredits =>
          Amount[q] + Fee(q) + Total(Outstanding) <= CashLeft
    BY <2>2, <2>4, <2>5, <2>6, <2>7 DEF Less
  <2> QED
    BY <1>1, <2>1, <2>8, RequestKeepsCash DEF Moved
<1> QED
  BY <1>2, <1>3 DEF Verify

\* The commit adds its own amount to what it was cleared beside; nobody else
\* is cleared, because it holds the source.
LEMMA CommitKeepsCash ==
  ASSUME CapInv, CashInv, NEW r \in Requests, Commit(r)
  PROVE  CashInv'
PROOF
<1> DEFINE q == req[r].quote
<1>1. CASE UNCHANGED <<op, quote, hold>>
  BY <1>1, EndKeepsCash DEF Commit, Rollback, Moved, rows
<1>2. CASE /\ Open(q)
           /\ quote' = [quote EXCEPT ![q] = "consumed"]
           /\ hold' = [hold EXCEPT ![q] = "active"]
  <2>1. q \in Quotes /\ HoldsSource(r) /\ req[r].pc = "cleared"
    BY DEF Commit, HoldsSource, CapInv, Chosen
  <2>2. UNCHANGED <<landed, debited, credited, memo>>
    BY DEF Commit
  <2>3. req'[r].pc = "idle" /\ \A s \in Requests \ {r} : req'[s] = req[s]
    BY RowTypes DEF Commit, Rollback, CapInv, IdleRequest
  <2>4. /\ hold'[q] = "active" /\ quote'[q] = "consumed"
        /\ \A x \in Quotes \ {q} : hold'[x] = hold[x] /\ quote'[x] = quote[x]
    BY <1>2, <2>1 DEF CapInv, TypeOK
  <2>5. hold[q] = "none" /\ q \notin landed
    BY <1>2, <2>1 DEF CashInv, HeldIsConsumed, LandedWasHeld, Open
  <2>6. landed \subseteq Quotes
    BY DEF CapInv, TypeOK
  <2>7. HeldIsConsumed' /\ LandedWasHeld' /\ UnseenIsHeld' /\ CashPaysForLanded'
    BY <2>2, <2>4, <2>6 DEF CashInv, HeldIsConsumed, LandedWasHeld,
                            UnseenIsHeld, CashPaysForLanded, Total
  <2>8. ReadsKnow'
    BY <2>2, <2>3 DEF CashInv, ReadsKnow, Knows
  <2>9. \A s \in Requests : req'[s].pc # "cleared"
    BY <2>1, <2>3 DEF CapInv, Exclusive, HoldsSource
  <2>10. ClearedFits'
    BY <2>9 DEF ClearedFits
  <2>11. Outstanding' = Outstanding \cup {q}
    BY <2>1, <2>2, <2>4, <2>5 DEF Outstanding
  <2>12. ASSUME ~QuickCredits
         PROVE  SharedHoldsAreCovered'
    <3>1. CASE Outstanding = {}
      <4>1. Cardinality(Outstanding') = 1
        BY <2>11, <3>1, FS_Singleton
      <4> QED
        BY <4>1 DEF SharedHoldsAreCovered
    <3>2. CASE Outstanding # {}
      <4>1. Outstanding \in SUBSET Quotes /\ q \notin Outstanding
        BY <2>5 DEF Outstanding
      <4>2. Total(Outstanding') = Amount[q] + Total(Outstanding)
        BY <2>1, <2>11, <4>1, TotalAdd
      <4>3. Amount[q] + Fee(q) + Total(Outstanding) <= CashLeft
        BY <2>1, <2>12, <3>2 DEF CashInv, ClearedFits
      <4>4. CashLeft' = CashLeft
        BY <2>2 DEF CashLeft, Total
      <4>5. Amount[q] \in Nat /\ Fee(q) \in Nat /\ Reserve' <= Fee(q)
            /\ Reserve' \in Nat
        <5>1. Amount[q] \in Nat /\ Fee(q) \in Nat
          BY <2>1, AmountAssumption, FeeTypes
        <5>2. q \in Withdrawals => Reserve' = 0
          BY <2>4 DEF Reserve, FeeKept
        <5> QED
          BY <5>1, <5>2, AmountAssumption DEF Fee, Reserve
      <4>6. Total(Outstanding) \in Nat /\ CashLeft \in Nat
        BY <4>1, TotalType, CashTypes DEF CapInv, CashInv
      <4>7. Total(Outstanding') + Reserve' <= CashLeft'
        BY <4>2, <4>3, <4>4, <4>5, <4>6
      <4>8. Total(Outstanding)' = Total(Outstanding')
        BY DEF Total
      <4> QED
        BY <4>7, <4>8 DEF SharedHoldsAreCovered
    <3> QED
      BY <3>1, <3>2
  <2> QED
    BY <2>7, <2>8, <2>10, <2>12 DEF CashInv
<1> QED
  BY <1>1, <1>2 DEF Commit

\* A read is stamped with the debits of the moment and answered with every
\* transfer of a later one.
LEMMA MemoKeepsCash ==
  ASSUME CapInv, CashInv, Memo
  PROVE  CashInv'
PROOF
<1>1. UNCHANGED <<op, quote, hold, landed, debited, credited, req>>
  BY DEF Memo, Stamp, Load, Expire, rows
<1>2. /\ HeldIsConsumed' /\ LandedWasHeld' /\ UnseenIsHeld' /\ CashPaysForLanded'
      /\ ~QuickCredits => ClearedFits' /\ SharedHoldsAreCovered'
  BY <1>1, ReserveStays DEF CapInv, CashInv, HeldIsConsumed, LandedWasHeld,
     UnseenIsHeld, Total, CashPaysForLanded, ClearedFits, SharedHoldsAreCovered,
     Outstanding, CashLeft
<1>3. (\A r \in Requests : req[r].pc = "collected" => Knows(req[r].read))'
  BY <1>1 DEF CashInv, ReadsKnow, Knows
<1>4. (/\ memo.phase = "loading" => memo.read.noted \subseteq debited
       /\ memo.phase = "kept" => Knows(memo.read))'
  <2>1. CASE Stamp
    BY <1>1, <2>1 DEF Stamp
  <2>2. CASE Load
    <3>1. memo \in [phase : {"empty", "loading", "kept"}, read : Read]
      BY DEF CapInv, TypeOK
    <3>2. /\ memo'.phase = "kept" /\ memo'.read.saw = landed
          /\ memo'.read.noted = memo.read.noted
      BY <2>2, <3>1 DEF Load, Read
    <3>3. memo.read.noted \subseteq debited
      BY <2>2 DEF Load, CashInv, ReadsKnow
    <3> QED
      BY <1>1, <3>2, <3>3 DEF Knows, CapInv, TypeOK
  <2>3. CASE Expire
    BY <2>3 DEF Expire
  <2> QED
    BY <2>1, <2>2, <2>3 DEF Memo
<1> QED
  BY <1>2, <1>3, <1>4 DEF CashInv, ReadsKnow

\* Evidence and lapses move no cash.
LEMMA EvidenceKeepsCash ==
  ASSUME CapInv, CashInv, NEW q \in Quotes,
         Lapse(q) \/ RecordDebit(q) \/ RecordCredit(q)
  PROVE  CashInv'
PROOF
<1>1. UNCHANGED <<hold, landed, memo, req>>
  BY DEF Lapse, RecordDebit, RecordCredit
<1>2. /\ debited \subseteq debited' /\ credited \subseteq credited'
      /\ \A x \in Quotes : quote[x] = "consumed" => quote'[x] = "consumed"
  BY DEF Lapse, RecordDebit, RecordCredit, CapInv, TypeOK
<1>3. HeldIsConsumed' /\ LandedWasHeld' /\ UnseenIsHeld' /\ CashPaysForLanded'
  BY <1>1, <1>2 DEF CashInv, HeldIsConsumed, LandedWasHeld, UnseenIsHeld,
                    CashPaysForLanded, Total
<1>4. ~QuickCredits => ClearedFits' /\ SharedHoldsAreCovered'
  BY <1>1, ReserveStays DEF CapInv, CashInv, ClearedFits,
     SharedHoldsAreCovered, Outstanding, CashLeft, Total
<1>5. ReadsKnow'
  <2>1. CASE credited' = credited
    BY <1>1, <1>2, <2>1 DEF CashInv, ReadsKnow, Knows
  <2>2. CASE RecordCredit(q)
    <3>1. (~QuickCredits => ~Outdated(q)) /\ credited' = credited \cup {q}
      BY <2>2 DEF RecordCredit
    <3>2. ~QuickCredits /\ memo.phase = "kept" => q \in memo.read.saw
      BY <3>1 DEF Outdated
    <3>3. \A r \in Requests :
            ~QuickCredits /\ req[r].pc = "collected" => q \in req[r].read.saw
      BY <3>1 DEF Outdated
    <3> QED
      BY <1>1, <1>2, <3>1, <3>2, <3>3 DEF CashInv, ReadsKnow, Knows
  <2> QED
    BY <2>1, <2>2 DEF Lapse, RecordDebit
<1> QED
  BY <1>3, <1>4, <1>5 DEF CashInv

\* The cash that leaves is the cash that was outstanding.
LEMMA LandKeepsCash ==
  ASSUME CapInv, CashInv, NEW q \in Quotes, Land(q)
  PROVE  CashInv'
PROOF
<1>1. /\ hold[q] = "active" /\ q \notin landed /\ landed' = landed \cup {q}
      /\ Total(landed) + Amount[q] <= Cash
      /\ UNCHANGED <<quote, hold, debited, credited, memo, req>>
  BY DEF Land
<1>2. landed \in SUBSET Quotes /\ Outstanding \in SUBSET Quotes
  BY DEF Outstanding, CapInv, TypeOK
<1>3. HeldIsConsumed' /\ LandedWasHeld' /\ UnseenIsHeld' /\ ReadsKnow'
  BY <1>1 DEF CashInv, HeldIsConsumed, LandedWasHeld, UnseenIsHeld, ReadsKnow,
              Knows
<1>4. Total(landed)' = Amount[q] + Total(landed)
  <2>1. Total(landed \cup {q}) = Amount[q] + Total(landed)
    BY <1>1, <1>2, TotalAdd
  <2> QED
    BY <1>1, <2>1 DEF Total
<1>5. /\ Outstanding' \in SUBSET Quotes /\ q \notin Outstanding'
      /\ Outstanding = Outstanding' \cup {q}
  BY <1>1, <1>2 DEF Outstanding
<1>6. Total(Outstanding) = Amount[q] + Total(Outstanding')
  BY <1>5, TotalAdd
<1>7. /\ Total(landed) \in Nat /\ Total(Outstanding') \in Nat
      /\ Amount[q] \in Nat /\ Cash \in Nat /\ GasReserve \in Nat
  BY <1>2, <1>5, TotalType, AmountAssumption
<1> Reserve' = Reserve /\ Reserve \in Nat
  BY <1>1, ReserveStays, FeeTypes DEF CapInv
<1>8. CashPaysForLanded'
  BY <1>1, <1>4, <1>7 DEF CashPaysForLanded
<1>9. CashLeft' = CashLeft - Amount[q] /\ CashLeft \in Nat
  BY <1>1, <1>4, <1>7 DEF CashLeft
<1>10. ~QuickCredits => ClearedFits'
  <2> SUFFICES ASSUME ~QuickCredits, NEW r \in Requests, req'[r].pc = "cleared"
               PROVE  Amount[req'[r].quote] + Fee(req'[r].quote) + Total(Outstanding')
                        <= CashLeft'
    BY DEF ClearedFits, Total
  <2>1. /\ req[r].quote \in Quotes /\ Amount[req[r].quote] \in Nat
        /\ Fee(req[r].quote) \in Nat
    BY <1>1, AmountAssumption, FeeTypes DEF CapInv, Chosen
  <2>2. Amount[req[r].quote] + Fee(req[r].quote) + Total(Outstanding) <= CashLeft
    BY <1>1, <1>5 DEF CashInv, ClearedFits
  <2> QED
    BY <1>1, <1>6, <1>7, <1>9, <2>1, <2>2
<1>11. ~QuickCredits => SharedHoldsAreCovered'
  <2> SUFFICES ASSUME ~QuickCredits, Cardinality(Outstanding') > 1
               PROVE  Total(Outstanding') + Reserve <= CashLeft'
    BY DEF SharedHoldsAreCovered, Total
  <2>1. IsFiniteSet(Outstanding')
    BY <1>5, FS_Subset, QuotesAssumption
  <2>2. /\ Cardinality(Outstanding) = Cardinality(Outstanding') + 1
        /\ Cardinality(Outstanding') \in Nat
    BY <1>5, <2>1, FS_AddElement, FS_CardinalityType
  <2>3. Cardinality(Outstanding) > 1
    BY <2>2
  <2>4. Total(Outstanding) + Reserve <= CashLeft
    BY <2>3 DEF CashInv, SharedHoldsAreCovered
  <2> QED
    BY <1>6, <1>7, <1>9, <2>4
<1> QED
  BY <1>3, <1>8, <1>10, <1>11 DEF CashInv

\* Released cash was seen to leave or never will.
LEMMA ReleaseKeepsCash ==
  ASSUME CapInv, CashInv, NEW q \in Quotes, Release(q)
  PROVE  CashInv'
PROOF
<1>1. /\ hold[q] = "active" /\ hold' = [hold EXCEPT ![q] = "released"]
      /\ q \in landed => q \in debited \cup credited
      /\ UNCHANGED <<quote, landed, debited, credited, memo, req>>
  BY DEF Release
<1>2. /\ hold'[q] = "released"
      /\ \A x \in Quotes \ {q} : hold'[x] = hold[x]
      /\ landed \subseteq Quotes
  BY <1>1 DEF CapInv, TypeOK
<1>3. HeldIsConsumed' /\ LandedWasHeld' /\ UnseenIsHeld' /\ CashPaysForLanded'
  BY <1>1, <1>2 DEF CashInv, HeldIsConsumed, LandedWasHeld, UnseenIsHeld,
                    CashPaysForLanded, Total
<1>4. ReadsKnow'
  BY <1>1 DEF CashInv, ReadsKnow, Knows
<1>5. /\ Outstanding \in SUBSET Quotes /\ Outstanding' \in SUBSET Outstanding
      /\ CashLeft' = CashLeft
  BY <1>1, <1>2 DEF Outstanding, CashLeft, Total
<1>6. Total(Outstanding') <= Total(Outstanding)
  BY <1>5, TotalMonotonic
<1>7. /\ Total(Outstanding') \in Nat /\ Total(Outstanding) \in Nat
      /\ CashLeft \in Nat /\ GasReserve \in Nat
  BY <1>5, TotalType, CashTypes DEF CapInv, CashInv
<1> Reserve' = Reserve /\ Reserve \in Nat
  BY ReserveStays, FeeTypes DEF CapInv
<1>8. ~QuickCredits => ClearedFits'
  <2> SUFFICES ASSUME ~QuickCredits, NEW r \in Requests, req'[r].pc = "cleared",
                      Outstanding' # {}
               PROVE  Amount[req'[r].quote] + Fee(req'[r].quote) + Total(Outstanding')
                        <= CashLeft'
    BY DEF ClearedFits, Total
  <2>1. /\ req[r].quote \in Quotes /\ Amount[req[r].quote] \in Nat
        /\ Fee(req[r].quote) \in Nat
    BY <1>1, AmountAssumption, FeeTypes DEF CapInv, Chosen
  <2>2. Amount[req[r].quote] + Fee(req[r].quote) + Total(Outstanding) <= CashLeft
    BY <1>1, <1>5 DEF CashInv, ClearedFits
  <2> QED
    BY <1>1, <1>5, <1>6, <1>7, <2>1, <2>2
<1>9. ~QuickCredits => SharedHoldsAreCovered'
  <2> SUFFICES ASSUME ~QuickCredits, Cardinality(Outstanding') > 1
               PROVE  Total(Outstanding') + Reserve <= CashLeft'
    BY DEF SharedHoldsAreCovered, Total
  <2>1. IsFiniteSet(Outstanding) /\ IsFiniteSet(Outstanding')
    BY <1>5, FS_Subset, QuotesAssumption
  <2>2. /\ Cardinality(Outstanding') <= Cardinality(Outstanding)
        /\ Cardinality(Outstanding') \in Nat /\ Cardinality(Outstanding) \in Nat
    BY <1>5, <2>1, FS_Subset, FS_CardinalityType
  <2>3. Total(Outstanding) + Reserve <= CashLeft
    BY <2>2 DEF CashInv, SharedHoldsAreCovered
  <2> QED
    BY <1>5, <1>6, <1>7, <2>3
<1> QED
  BY <1>3, <1>4, <1>8, <1>9 DEF CashInv

LEMMA InitCash == Init => CashInv
PROOF
<1> SUFFICES ASSUME Init
             PROVE  CashInv
  OBVIOUS
<1>1. Outstanding = {} /\ Cardinality(Outstanding) = 0
  BY FS_EmptySet DEF Init, Outstanding
<1>2. SharedHoldsAreCovered /\ ClearedFits
  BY <1>1 DEF SharedHoldsAreCovered, ClearedFits
<1>3. CashPaysForLanded
  BY TotalEmpty, AmountAssumption DEF Init, CashPaysForLanded
<1>4. ReadsKnow
  BY DEF Init, ReadsKnow, IdleRequest
<1> QED
  BY <1>2, <1>3, <1>4 DEF CashInv, Init, HeldIsConsumed, LandedWasHeld,
                          UnseenIsHeld

LEMMA NextCash ==
  ASSUME CapInv, CashInv, [Next]_vars
  PROVE  CashInv'
PROOF
<1>1. CASE UNCHANGED vars
  <2>1. UNCHANGED <<Outstanding, CashLeft, Reserve>>
    BY <1>1 DEF vars, Outstanding, CashLeft, Total, Reserve, FeeKept
  <2> QED
    BY <1>1, <2>1 DEF vars, CashInv, HeldIsConsumed, LandedWasHeld, UnseenIsHeld,
       CashPaysForLanded, ReadsKnow, Knows, ClearedFits, SharedHoldsAreCovered,
       Total
<1>2. ASSUME NEW r \in Requests, RequestStep(r)
      PROVE  CashInv'
  <2>1. CASE PoolTimeout(r) \/ Fail(r)
    BY <2>1, EndKeepsCash DEF PoolTimeout, Fail, Rollback, Moved
  <2> QED
    BY <1>2, <2>1, BeginKeepsCash, LockKeepsCash, LockSourceKeepsCash,
       CollectKeepsCash, VerifyKeepsCash, CommitKeepsCash DEF RequestStep, Work
<1>3. ASSUME NEW q \in Quotes, Elsewhere(q)
      PROVE  CashInv'
  BY <1>3, EvidenceKeepsCash, LandKeepsCash, ReleaseKeepsCash DEF Elsewhere
<1> QED
  BY <1>1, <1>2, <1>3, MemoKeepsCash DEF Next

THEOREM CashInvariant == Spec => []CashInv
PROOF
<1>1. CapInv /\ CashInv /\ [Next]_vars => CashInv'
  BY NextCash
<1> QED
  BY <1>1, InitCash, CapacityInvariant, PTL DEF Spec

\* Whatever lands, is recorded or is committed between the stamp of a balance
\* and its use, and for every split of the cash, a collected balance never
\* promises what has left the source or is kept for another operation, as
\* long as no credit is final before the memo runs out.
THEOREM BalancesAreReal ==
  ASSUME ~QuickCredits
  PROVE  Spec => []AvailabilityIsReal
PROOF
<1>1. CapInv /\ CashInv => AvailabilityIsReal
  <2> SUFFICES ASSUME CapInv, CashInv, NEW r \in Requests,
                      req[r].pc = "collected"
               PROVE  Available(req[r].read) <=
                        Less(CashLeft, Total(Outstanding))
    BY DEF AvailabilityIsReal
  <2>1. req[r].read \in Read
    BY RowTypes DEF CapInv, Row
  <2>2. Knows(req[r].read)
    BY DEF CashInv, ReadsKnow
  <2> QED
    BY <2>1, <2>2, ReadIsReal DEF CapInv, CashInv
<1> QED
  BY <1>1, CapacityInvariant, CashInvariant, PTL

\* However many operations share a source, its cash pays for all that is still
\* to be taken, and for the execution fee until a direct withdrawal is admitted,
\* under the same condition.
THEOREM SharedCashIsCovered ==
  ASSUME ~QuickCredits
  PROVE  Spec => []SharedHoldsAreCovered
PROOF
<1>1. CashInv => SharedHoldsAreCovered
  BY DEF CashInv
<1> QED
  BY <1>1, CashInvariant, PTL

\* Without that condition a balance is wrong by the recorded credits it does
\* not know, and by nothing else.
THEOREM OverpromisesAreCredited == Spec => []OverpromiseIsCredited
PROOF
<1>1. CapInv /\ CashInv => OverpromiseIsCredited
  <2> SUFFICES ASSUME CapInv, CashInv, NEW r \in Requests,
                      req[r].pc = "collected"
               PROVE  Available(req[r].read) <=
                        Less(CashLeft, Total(Outstanding))
                          + Total(credited \ req[r].read.saw)
    BY DEF OverpromiseIsCredited
  <2>1. req[r].read \in Read
    BY RowTypes DEF CapInv, Row
  <2>2. Knows(req[r].read)
    BY DEF CashInv, ReadsKnow
  <2> QED
    BY <2>1, <2>2, ReadIsBounded DEF CapInv, CashInv
<1> QED
  BY <1>1, CapacityInvariant, CashInvariant, PTL

\* Cover that is there stays, whoever takes, gives back or joins: what lands was
\* outstanding, and what is admitted was cleared beside the rest.
LEMMA CoverStep ==
  ASSUME ~QuickCredits, CapInv, CashInv, Next, Outstanding # {},
         NEW n \in {0, GasReserve}, Total(Outstanding) + n <= CashLeft,
         n = 0 \/ ~AdmitsWithdrawal
  PROVE  (Total(Outstanding) + n <= CashLeft)'
PROOF
<1>1. /\ Outstanding \in SUBSET Quotes /\ landed \in SUBSET Quotes
      /\ Total(Outstanding) \in Nat /\ n \in Nat /\ CashLeft \in Nat
      /\ Total(landed) \in Nat /\ Cash \in Nat
  BY CashTypes DEF CapInv, CashInv, TypeOK, Outstanding
<1> SUFFICES Total(Outstanding') + n <= CashLeft'
  BY DEF Total
<1>2. CASE UNCHANGED <<hold, landed>>
  BY <1>2 DEF Outstanding, CashLeft, Total
<1>3. ASSUME NEW q \in Quotes, Land(q)
      PROVE  Total(Outstanding') + n <= CashLeft'
  <2>1. Outstanding' \in SUBSET Quotes /\ q \notin Outstanding'
        /\ Outstanding = Outstanding' \cup {q} /\ q \notin landed
        /\ landed' = landed \cup {q}
    BY <1>1, <1>3 DEF Land, Outstanding
  <2>2. /\ Total(Outstanding) = Amount[q] + Total(Outstanding')
        /\ Total(landed \cup {q}) = Amount[q] + Total(landed)
    BY <1>1, <2>1, TotalAdd
  <2>3. CashLeft' = Cash - (Amount[q] + Total(landed))
    BY <2>1, <2>2 DEF CashLeft, Total
  <2>4. Amount[q] \in Nat /\ Total(Outstanding') \in Nat
    BY <2>1, TotalType, AmountAssumption
  <2> QED
    BY <1>1, <2>2, <2>3, <2>4 DEF CashLeft
<1>4. ASSUME NEW q \in Quotes, Release(q)
      PROVE  Total(Outstanding') + n <= CashLeft'
  <2>1. /\ Outstanding' \in SUBSET Outstanding /\ CashLeft' = CashLeft
    BY <1>4 DEF Release, Outstanding, CashLeft, Total, CapInv, TypeOK
  <2>2. Total(Outstanding') <= Total(Outstanding) /\ Total(Outstanding') \in Nat
    BY <1>1, <2>1, TotalMonotonic, TotalType
  <2> QED
    BY <1>1, <2>1, <2>2
<1>5. ASSUME NEW r \in Requests, Commit(r), hold' # hold
      PROVE  Total(Outstanding') + n <= CashLeft'
  <2> DEFINE q == req[r].quote
  <2>1. /\ q \in Quotes /\ req[r].pc = "cleared" /\ Open(q)
        /\ hold' = [hold EXCEPT ![q] = "active"] /\ landed' = landed
    BY <1>5 DEF Commit, CapInv, Chosen
  <2>2. hold[q] = "none" /\ q \notin landed /\ hold'[q] = "active"
    BY <2>1 DEF CashInv, HeldIsConsumed, LandedWasHeld, Open, CapInv, TypeOK
  <2>3. Outstanding' = Outstanding \cup {q} /\ q \notin Outstanding
    BY <2>1, <2>2 DEF Outstanding, CapInv, TypeOK
  <2>4. Amount[q] + Fee(q) + Total(Outstanding) <= CashLeft
    BY <2>1 DEF CashInv, ClearedFits
  <2>5. Amount[q] \in Nat /\ Fee(q) \in Nat
    BY <2>1, AmountAssumption, FeeTypes
  <2>6. n <= Fee(q)
    BY <1>1, <2>2, <2>5 DEF Fee, AdmitsWithdrawal
  <2> HIDE DEF q
  <2>7. Total(Outstanding') = Amount[q] + Total(Outstanding)
    BY <1>1, <2>1, <2>3, TotalAdd
  <2>8. CashLeft' = CashLeft
    BY <2>1 DEF CashLeft, Total
  <2> QED
    BY <1>1, <2>4, <2>5, <2>6, <2>7, <2>8
<1>6. ASSUME NEW r \in Requests, RequestStep(r)
      PROVE  UNCHANGED <<hold, landed>> \/ (Commit(r) /\ UNCHANGED landed)
  BY <1>6 DEF RequestStep, Begin, Work, LockKey, LockQuote, LockSource, Collect,
       Verify, PoolTimeout, Commit, Fail, rows
<1>7. Memo => UNCHANGED <<hold, landed>>
  BY DEF Memo, Stamp, Load, Expire, rows
<1>8. ASSUME NEW q \in Quotes, Elsewhere(q)
      PROVE  UNCHANGED <<hold, landed>> \/ Land(q) \/ Release(q)
  BY <1>8 DEF Elsewhere, Lapse, RecordDebit, RecordCredit
<1> QED
  BY <1>2, <1>3, <1>4, <1>5, <1>6, <1>7, <1>8 DEF Next

\* Once covered, a source stays covered until nothing is outstanding, and with
\* the fee until then or until a direct withdrawal is admitted.
THEOREM SourcesStayCovered ==
  ASSUME ~QuickCredits
  PROVE  Spec => CoverLasts
PROOF
<1>1. ASSUME CapInv, CashInv, Next, Outstanding # {}
      PROVE  /\ Covered => Covered'
             /\ CoveredWithFee => CoveredWithFee' \/ AdmitsWithdrawal
  <2>1. CapInv /\ CashInv /\ Next /\ Outstanding # {}
    BY <1>1
  <2>2. /\ Total(Outstanding) \in Nat /\ GasReserve \in Nat /\ CashLeft \in Nat
    BY <1>1, CashTypes DEF CapInv, CashInv
  <2>3. Covered => (Total(Outstanding) + 0 <= CashLeft)'
    BY <2>1, <2>2, CoverStep DEF Covered
  <2>4. CoveredWithFee /\ ~AdmitsWithdrawal => CoveredWithFee'
    BY <2>1, <2>2, CoverStep DEF CoveredWithFee
  <2>5. Outstanding' \in SUBSET Quotes
    BY <1>1, NextCap DEF CapInv, TypeOK, Outstanding
  <2>6. Total(Outstanding') \in Nat
    BY <2>5, TotalType
  <2>7. Covered => Covered'
    BY <2>3, <2>6 DEF Covered, Total
  <2> QED
    BY <2>4, <2>7
<1>2. CapInv /\ CashInv /\ [Next]_vars =>
        [Outstanding # {} =>
           /\ Covered => Covered'
           /\ CoveredWithFee => CoveredWithFee' \/ AdmitsWithdrawal]_vars
  BY <1>1
<1> QED
  BY <1>2, CapacityInvariant, CashInvariant, PTL DEF Spec, CoverLasts

\* However many requests race, over a pool of any size, they never wait for one
\* another in a circle: the one that is furthest along waits for nobody.
THEOREM NoCircleOfLocks == Spec => []NoCommitIsStuck
PROOF
<1>1. CapInv => NoCommitIsStuck
  <2> SUFFICES ASSUME CapInv, NEW m \in Requests, req[m].pc # "idle"
               PROVE  \E r \in Requests : WaitsForNobody(r)
    BY DEF NoCommitIsStuck
  <2>1. \A r \in Requests : req[r].pc \in Pcs
    BY RowTypes DEF CapInv, Row
  <2>2. CASE \E r \in Requests : HoldsSource(r)
    BY <2>2 DEF HoldsSource, WaitsForNobody
  <2>3. CASE /\ ~\E r \in Requests : HoldsSource(r)
             /\ \E r \in Requests : req[r].pc = "quoted"
    BY <2>3 DEF WaitsForNobody
  <2>4. CASE /\ ~\E r \in Requests : HoldsQuote(r)
             /\ \E r \in Requests : req[r].pc = "keyed"
    BY <2>4 DEF WaitsForNobody
  <2>5. CASE ~\E r \in Requests : HoldsKey(r)
    <3>1. req[m].pc = "begun"
      BY <2>1, <2>5 DEF HoldsKey, Pcs
    <3> QED
      BY <2>5, <3>1 DEF WaitsForNobody
  <2> QED
    BY <2>1, <2>2, <2>3, <2>4, <2>5 DEF HoldsKey, HoldsQuote, HoldsSource, Pcs
<1> QED
  BY <1>1, CapacityInvariant, PTL
=============================================================================

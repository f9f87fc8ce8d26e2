--------------------- MODULE CreditClassificationProofs ---------------------
(***************************************************************************)
(* Theorems of CreditClassification for every set of sessions, handoffs,   *)
(* deposits and deliveries, every height and every division of the chain   *)
(* into batches.  ClassInv is the inductive invariant: what can be on      *)
(* chain before its cause exists.  The rest is the case analysis of one    *)
(* poll: which rulings an event of its batch can get.                      *)
(***************************************************************************)
EXTENDS CreditClassification, FiniteSetTheorems, TLAPS

\* A handoff nobody has begun is not on chain.
CausesComeFirst ==
  /\ \A x \in Sent : attempt[x] = "idle" => at[x] = 0
  /\ \A c \in Deliveries : at[c] > 0 => route \in {"moving", "known"}

\* Only what is on chain has a verdict.
VerdictsAreOnChain == \A e \in Events : verdict[e] # "unseen" => at[e] > 0

ClassInv ==
  /\ TypeOK /\ CausesComeFirst /\ VerdictsAreOnChain
  /\ KnownHandoffIsNotADeposit

-----------------------------------------------------------------------------
(* One poll.                                                               *)

Classes == Held \cup Internal \cup {"correlating", "external"}

LEMMA RouteClasses ==
  \A e : RouteClass(e) \in {"delivered", "correlating", "external"}
BY DEF RouteClass

LEMMA ClassTypes == \A e, U : Class(e, U) \in Classes
BY RouteClasses DEF Class, Classes, Held, Internal

\* The events of a batch are on chain.
LEMMA BatchIsOnChain ==
  ASSUME TypeOK, NEW s \in Sessions, NEW to \in 0..head, NEW e \in Batch(s, to)
  PROVE  e \in Events /\ at[e] > 0
PROOF
<1>1. CASE e \in Backlog(s)
  <2>1. e \in Events /\ Start[s] < at[e]
    BY <1>1 DEF Backlog, Covering
  <2>2. Start[s] \in Nat /\ at[e] \in Nat
    BY <2>1, StartAssumption DEF TypeOK
  <2> QED
    BY <2>1, <2>2
<1>2. CASE e \in Scanned(s, to)
  <2>1. e \in Events /\ at[e] \in (cursor[s] + 1)..to
    BY <1>2 DEF Scanned
  <2>2. cursor[s] \in Nat /\ to \in Nat
    BY StartAssumption DEF TypeOK
  <2> QED
    BY <2>1, <2>2
<1> QED
  BY <1>1, <1>2 DEF Batch

\* A handoff whose operation never ended and that is started, or has named its
\* transaction, explains its own transfer, whatever else is in the batch.
LEMMA OwnHandoff ==
  ASSUME NEW x \in Sent, NEW U, ended[x] = "never",
         attempt[x] \in {"started", "referenced"}
  PROVE  Class(x, U) \in Held \cup {"suppressed"}
PROOF
<1>1. x \in Candidates(x)
  BY KindAssumption DEF Candidates
<1>2. IsFiniteSet(Candidates(x))
  BY HandoffsAssumption, FS_Subset DEF Candidates
<1>3. Cardinality(Candidates(x)) \in Nat /\ Cardinality(Candidates(x)) # 0
  BY <1>1, <1>2, FS_CardinalityType, FS_EmptySet
<1> QED
  BY <1>3 DEF Class, Held

\* What the route may still have delivered, or has, is not external.
LEMMA OwnDelivery ==
  ASSUME CausesComeFirst, NEW c \in Deliveries, NEW U, at[c] > 0
  PROVE  Class(c, U) # "external"
BY DEF CausesComeFirst, Class, RouteClass

\* A poll leaves an event alone, decides an open one, or keeps it open.
RulingFits(s, U, e) ==
  IF e \notin U THEN verdict'[e] = verdict[e] /\ owner'[e] = owner[e]
  ELSE \/ /\ verdict'[e] = verdict[e]
          /\ owner'[e] = owner[e]
       \/ /\ verdict[e] \in Retryable
          /\ verdict'[e] = Class(e, U)
          /\ Class(e, U) \in Held \cup Internal \cup {"correlating"}
          /\ owner'[e] = owner[e]
       \/ /\ verdict[e] \in Retryable
          /\ Class(e, U) = "external"
          /\ verdict'[e] = "pending" /\ owner'[e] = owner[e]
       \/ /\ verdict[e] \in Retryable
          /\ Class(e, U) = "external"
          /\ verdict'[e] = "allocated" /\ owner'[e] = s

LEMMA PollRules ==
  ASSUME TypeOK, NEW s \in Sessions, NEW to \in 0..MaxHead, Poll(s, to),
         NEW e \in Events
  PROVE  RulingFits(s, Batch(s, to), e)
PROOF
<1> DEFINE U == Batch(s, to)
<1>1. /\ verdict'[e] = IF e \in U THEN Ruling(s, e, Class(e, U)) ELSE verdict[e]
      /\ owner'[e] = IF e \in Credited(s, U) THEN s ELSE owner[e]
      /\ Refused(s, to) = {}
  BY DEF Poll
<1>2. CASE e \notin U
  BY <1>1, <1>2 DEF RulingFits, Credited
<1>3. CASE e \in U /\ Class(e, U) # "external"
  <2>1. Ruling(s, e, Class(e, U)) = Class(e, U) /\ Class(e, U) # "allocated"
    BY <1>3, ClassTypes DEF Ruling, Classes, Held, Internal
  <2>2. e \notin Credited(s, U)
    BY <2>1 DEF Credited
  <2>3. verdict[e] \in Retryable \/ verdict[e] = Class(e, U)
    BY <1>1, <1>3 DEF Refused
  <2> QED
    BY <1>1, <1>3, <2>1, <2>2, <2>3, ClassTypes DEF RulingFits, Classes
<1>4. CASE e \in U /\ Class(e, U) = "external"
  <2>1. e \in Credited(s, U) <=>
          /\ verdict[e] # "allocated"
          /\ Ruling(s, e, Class(e, U)) = "allocated"
    BY <1>4 DEF Credited
  <2> QED
    BY <1>1, <1>4, <2>1 DEF RulingFits, Ruling, Retryable
<1> QED
  BY <1>2, <1>3, <1>4
-----------------------------------------------------------------------------
(* The invariant.                                                          *)

LEMMA InitInvariant == Init => ClassInv
BY StartAssumption
   DEF Init, ClassInv, TypeOK, CausesComeFirst, VerdictsAreOnChain, Phases,
     Retryable, KnownHandoffIsNotADeposit, Events

\* The verdicts and credits after a poll are of their types.
LEMMA PollType ==
  ASSUME TypeOK, NEW s \in Sessions, NEW to \in 0..MaxHead, Poll(s, to)
  PROVE  TypeOK'
PROOF
<1>1. verdict' \in [Events -> Retryable \cup Held \cup Internal \cup {"allocated"}]
  <2>1. ASSUME NEW e \in Events
        PROVE  verdict'[e] \in Retryable \cup Held \cup Internal \cup {"allocated"}
    BY <2>1, PollRules DEF RulingFits, TypeOK, Retryable
  <2> QED
    BY <2>1 DEF Poll
<1>2. ASSUME NEW e \in Events
      PROVE  /\ owner'[e] \in Sessions \cup {NoSession}
             /\ owner'[e] # NoSession <=> verdict'[e] = "allocated"
  BY <1>2, PollRules, NoSessionAssumption
     DEF RulingFits, TypeOK, Retryable, Held, Internal
<1>3. owner' \in [Events -> Sessions \cup {NoSession}]
  BY <1>2 DEF Poll
<1>4. /\ cursor' \in [Sessions -> 0..MaxHead]
      /\ paused' \subseteq Sessions
      /\ UNCHANGED <<head, at, attempt, ended, route, visible>>
  BY DEF Poll, TypeOK
<1> QED
  BY <1>1, <1>2, <1>3, <1>4 DEF TypeOK

\* No ruling of a poll credits a handoff that is known, or an event before it
\* is on chain.
LEMMA PollKeeps ==
  ASSUME ClassInv, NEW s \in Sessions, NEW to \in 0..MaxHead, Poll(s, to)
  PROVE  ClassInv'
PROOF
<1> USE DEF ClassInv
<1>1. UNCHANGED <<head, at, attempt, ended, route, visible>> /\ to \in 0..head
  <2>1. to \in cursor[s]..head /\ cursor[s] \in Nat /\ to \in 0..MaxHead
    BY StartAssumption DEF Poll, TypeOK
  <2> QED
    BY <2>1 DEF Poll
<1>2. CausesComeFirst'
  BY <1>1 DEF CausesComeFirst
<1>3. ASSUME NEW e \in Events, verdict'[e] # "unseen" PROVE at'[e] > 0
  <2>1. CASE e \in Batch(s, to)
    BY <1>1, <2>1, BatchIsOnChain
  <2>2. CASE e \notin Batch(s, to)
    BY <1>1, <1>3, <2>2, PollRules DEF RulingFits, VerdictsAreOnChain
  <2> QED
    BY <2>1, <2>2
<1>4. ASSUME NEW x \in Sent, ended'[x] = "never",
             attempt'[x] \in {"started", "referenced"}
      PROVE  verdict'[x] # "allocated"
  <2>1. x \in Events /\ verdict[x] # "allocated"
    BY <1>1, <1>4 DEF Events, KnownHandoffIsNotADeposit
  <2>2. Class(x, Batch(s, to)) # "external"
    BY <1>1, <1>4, OwnHandoff DEF Held
  <2> QED
    BY <2>1, <2>2, PollRules DEF RulingFits, Held, Internal
<1> QED
  BY <1>2, <1>3, <1>4, PollType DEF VerdictsAreOnChain, KnownHandoffIsNotADeposit

\* Heights and blocks after a block is mined.
LEMMA MineKeeps ==
  ASSUME ClassInv, NEW E \in SUBSET Events, Mine(E) PROVE ClassInv'
PROOF
<1> USE DEF ClassInv
<1>1. head' \in 0..MaxHead /\ head' > 0
  BY StartAssumption DEF Mine, TypeOK
<1>2. TypeOK'
  BY <1>1, StartAssumption DEF Mine, TypeOK, rest
<1>3. ASSUME NEW e \in Events
      PROVE  IF e \in E THEN at'[e] > 0 ELSE at'[e] = at[e]
  BY <1>1, <1>3 DEF Mine
<1>4. CausesComeFirst'
  BY <1>3, KindAssumption DEF Mine, CanHappen, CausesComeFirst, rest, Events
<1>5. VerdictsAreOnChain' /\ KnownHandoffIsNotADeposit'
  BY <1>3 DEF Mine, VerdictsAreOnChain, KnownHandoffIsNotADeposit, rest
<1> QED
  BY <1>2, <1>4, <1>5

LEMMA StepKeeps == ClassInv /\ [Next]_vars => ClassInv'
PROOF
<1> SUFFICES ASSUME ClassInv, [Next]_vars PROVE ClassInv'
  OBVIOUS
<1>1. ASSUME NEW x \in Handoffs, BeginHandoff(x) PROVE ClassInv'
  <2>1. TypeOK'
    BY <1>1 DEF ClassInv, BeginHandoff, rest, TypeOK, Phases
  <2>2. attempt' = [attempt EXCEPT ![x] = "started"]
        /\ x \in Sent => verdict[x] # "allocated"
    <3>1. x \in Sent => x \in Events /\ at[x] = 0
      BY <1>1 DEF BeginHandoff, ClassInv, CausesComeFirst, Events
    <3> QED
      BY <1>1, <3>1 DEF BeginHandoff, ClassInv, VerdictsAreOnChain
  <2> QED
    BY <1>1, <2>1, <2>2
       DEF ClassInv, BeginHandoff, rest, TypeOK, CausesComeFirst,
         VerdictsAreOnChain, KnownHandoffIsNotADeposit
<1>2. ASSUME NEW x \in Handoffs, Report(x) PROVE ClassInv'
  <2>1. PICK new \in {"referenced", "unknown", "enriched", "dropped"} :
          /\ new \in {"referenced", "unknown", "dropped"} <=> attempt[x] = "started"
          /\ attempt' = [attempt EXCEPT ![x] = new]
    BY <1>2 DEF Report
  <2>2. /\ ended' = [ended EXCEPT ![x] = IF @ = "now" THEN "before" ELSE @]
        /\ UNCHANGED <<head, at, route, verdict, owner, cursor, visible, paused>>
    BY <1>2 DEF Report
  <2>3. ended' \in [Handoffs -> {"never", "now", "before"}]
    BY <2>2 DEF ClassInv, TypeOK
  <2>4. TypeOK'
    BY <1>2, <2>1, <2>2, <2>3 DEF ClassInv, TypeOK, Phases
  <2>5. \A y \in Handoffs : ended'[y] = "never" => ended[y] = "never"
    BY <2>2 DEF ClassInv, TypeOK
  <2> QED
    BY <1>2, <2>1, <2>2, <2>4, <2>5, KindAssumption
       DEF ClassInv, TypeOK, CausesComeFirst, VerdictsAreOnChain,
         KnownHandoffIsNotADeposit
<1>6. ASSUME NEW x \in Handoffs, OperationEnds(x) \/ OperationResumes(x)
      PROVE  ClassInv'
  <2>1. /\ ended' \in [Handoffs -> {"never", "now", "before"}]
        /\ \A y \in Handoffs : ended'[y] = "never" => ended[y] = "never"
        /\ UNCHANGED <<head, at, attempt, route, verdict, owner, cursor, visible,
                       paused>>
    BY <1>6 DEF OperationEnds, OperationResumes, ClassInv, TypeOK
  <2> QED
    BY <2>1, KindAssumption DEF ClassInv, TypeOK, CausesComeFirst,
       VerdictsAreOnChain, KnownHandoffIsNotADeposit
<1>3. CASE RouteStarts \/ RouteEnds
  <2>1. TypeOK'
    BY <1>3 DEF ClassInv, RouteStarts, RouteEnds, TypeOK
  <2>2. CausesComeFirst'
    BY <1>3 DEF ClassInv, RouteStarts, RouteEnds, CausesComeFirst
  <2> QED
    BY <1>3, <2>1, <2>2
       DEF ClassInv, RouteStarts, RouteEnds, VerdictsAreOnChain,
         KnownHandoffIsNotADeposit
<1>4. ASSUME NEW s \in Sessions, Close(s) PROVE ClassInv'
  BY <1>4 DEF ClassInv, Close, TypeOK, CausesComeFirst, VerdictsAreOnChain,
    KnownHandoffIsNotADeposit
<1>5. CASE UNCHANGED vars
  BY <1>5 DEF ClassInv, vars, TypeOK, CausesComeFirst, VerdictsAreOnChain,
    KnownHandoffIsNotADeposit
<1> QED
  BY <1>1, <1>2, <1>3, <1>4, <1>5, <1>6, MineKeeps, PollKeeps DEF Next

LEMMA Invariant == Spec => []ClassInv
BY InitInvariant, StepKeeps, PTL DEF Spec

-----------------------------------------------------------------------------
(* Theorems.                                                               *)

\* Rows, cursors and attempts keep their types, and a credit names a session.
THEOREM TypeCorrect == Spec => []TypeOK
BY Invariant, PTL DEF ClassInv

\* The transfer of a handoff the program never lost sight of, by a lost answer or
\* the end of its operation, is not credited.
THEOREM KnownHandoffsAreKept == Spec => []KnownHandoffIsNotADeposit
BY Invariant, PTL DEF ClassInv

\* The entry of every kind of row.
EntryKinds ==
  \A e \in Events :
    /\ verdict[e] \in Retryable =>
         Entry(e) = [verdict |-> "open", session |-> NoSession]
    /\ verdict[e] \in Internal =>
         Entry(e) = [verdict |-> "internal", session |-> NoSession]
    /\ verdict[e] \in Held =>
         Entry(e) = [verdict |-> "held", session |-> NoSession]
    /\ verdict[e] = "allocated" =>
         Entry(e) = [verdict |-> "credited", session |-> owner[e]]

LEMMA EntriesOfRows == TypeOK => EntryKinds
PROOF
<1> SUFFICES ASSUME TypeOK, NEW e \in Events
             PROVE  EntryKinds!(e)
  BY DEF EntryKinds
<1>1. verdict[e] # "allocated" => owner[e] = NoSession
  BY DEF TypeOK
<1> QED
  BY <1>1 DEF Entry, Retryable, Internal, Held

\* A poll decides open entries only, and never credits a delivery.
LEMMA PollDecides ==
  ASSUME ClassInv, EntryKinds, EntryKinds', NEW s \in Sessions,
         NEW to \in 0..MaxHead, Poll(s, to), NEW e \in Events
  PROVE  \/ Entry(e)' = Entry(e)
         \/ Entry(e) = Ledger!Undecided /\ Entry(e)' \in Ledger!Verdict(e)
PROOF
<1> DEFINE U == Batch(s, to)
<1>1. RulingFits(s, U, e)
  BY PollRules DEF ClassInv
<1>2. CASE verdict'[e] = verdict[e] /\ owner'[e] = owner[e]
  BY <1>2 DEF Entry
<1>3. CASE verdict[e] \in Retryable /\ verdict'[e] \in Retryable
  BY <1>3 DEF EntryKinds
<1>4. CASE verdict[e] \in Retryable /\ verdict'[e] \in Held \cup Internal
  <2>1. Entry(e) = Ledger!Undecided
    BY <1>4 DEF EntryKinds, Ledger!Undecided
  <2>2. Entry(e)' \in [verdict : {"internal", "held"}, session : {NoSession}]
    BY <1>4 DEF EntryKinds
  <2> QED
    BY <2>1, <2>2 DEF Ledger!Verdict
<1>5. CASE /\ verdict[e] \in Retryable /\ Class(e, U) = "external"
           /\ verdict'[e] = "allocated" /\ owner'[e] = s /\ e \in U
  <2>1. Entry(e) = Ledger!Undecided
    BY <1>5 DEF EntryKinds, Ledger!Undecided
  <2>2. Entry(e)' \in [verdict : {"credited"}, session : Sessions]
    BY <1>5 DEF EntryKinds
  <2>3. to \in 0..head
    <3>1. to \in cursor[s]..head /\ cursor[s] \in Nat
      BY DEF Poll, ClassInv, TypeOK
    <3> QED
      BY <3>1
  <2>4. e \notin Deliveries
    BY <1>5, <2>3, BatchIsOnChain, OwnDelivery DEF ClassInv
  <2> QED
    BY <2>1, <2>2, <2>4 DEF Ledger!Verdict
<1> QED
  BY <1>1, <1>2, <1>3, <1>4, <1>5 DEF RulingFits, Retryable

\* Every transfer gets one verdict, given once: polls of several sessions in
\* any batches, before and after an event is explained, refine DepositLedger.
THEOREM PollsImplementLedger == Spec => ImplementsLedger
PROOF
<1>1. Init => Ledger!Init
  <2> SUFFICES ASSUME Init PROVE Ledger!Init
    OBVIOUS
  <2>1. EntryKinds
    BY InitInvariant, EntriesOfRows DEF ClassInv
  <2>2. \A e \in Events : Entry(e) = Ledger!Undecided
    BY <2>1 DEF EntryKinds, Init, Retryable, Ledger!Undecided
  <2> QED
    BY <2>2 DEF Ledger!Init, Entries
<1>2. ClassInv => EntryKinds
  BY EntriesOfRows DEF ClassInv
<1>3. ClassInv /\ EntryKinds /\ EntryKinds' /\ [Next]_vars =>
        [Ledger!Decide]_Entries
  <2> SUFFICES ASSUME ClassInv, EntryKinds, EntryKinds', [Next]_vars
               PROVE  [Ledger!Decide]_Entries
    OBVIOUS
  <2>1. ASSUME NEW s \in Sessions, NEW to \in 0..MaxHead, Poll(s, to)
        PROVE  Ledger!Decide
    <3>1. \A e \in Events :
            \/ Entry(e)' = Entry(e)
            \/ Entry(e) = Ledger!Undecided /\ Entry(e)' \in Ledger!Verdict(e)
      BY <2>1, PollDecides
    <3>2. \A e \in Events : Entries[e] = Entry(e) /\ Entries'[e] = Entry(e)'
      BY DEF Entries
    <3>3. DOMAIN Entries' = Events
      BY DEF Entries
    <3> QED
      BY <3>1, <3>2, <3>3 DEF Ledger!Decide
  <2>2. CASE UNCHANGED <<verdict, owner>>
    BY <2>2 DEF Entries, Entry
  <2> QED
    BY <2>1, <2>2 DEF Next, BeginHandoff, Report, OperationEnds,
      OperationResumes, RouteStarts, RouteEnds, Mine, Close, rest, vars
<1> QED
  BY <1>1, <1>2, <1>3, Invariant, PTL DEF Spec, ImplementsLedger, Ledger!Spec
=============================================================================

----------------------- MODULE ReceiveSessionsProofs -----------------------
(***************************************************************************)
(* Theorems of ReceiveSessions for every set of sessions, deposits and     *)
(* observers.  SessionInv is the inductive invariant.  Its core is         *)
(* YoungestIsAlone: of two sessions that are active and have not given up  *)
(* the address, the older one has outlived its week and is not open; it    *)
(* cannot become open again because the younger one supersedes it.         *)
(***************************************************************************)
EXTENDS ReceiveSessions, FiniteSetTheorems, TLAPS

Receipt == [status : {"none", "ready", "observed", "routing", "review", "recovery"},
            session : Sessions \cup {NoSession}, late : BOOLEAN]
Poll == [session : Sessions \cup {NoSession}, fresh : BOOLEAN]

Asked == {s \in Sessions : status[s] # "none"}

\* Requests are numbered in the order of their clocks.
BornInOrder ==
  /\ IsFiniteSet(Asked)
  /\ \A s \in Asked : born[s] \in 1..Cardinality(Asked)
  /\ \A s \in Sessions \ Asked : born[s] = 0
  /\ \A s, t \in Asked : born[s] = born[t] => s = t

\* Windows end in the order of the requests, and no request takes that long.
WindowsInOrder ==
  /\ \A s \in Sessions : status[s] \in {"none", "asked"} => window[s] = "live"
  /\ \A s, t \in Asked :
       window[s] # "live" /\ born[t] < born[s] => status[t] # "asked"

ReceiptsHaveSessions ==
  \A d \in Deposits : receipt[d].status # "none" => receipt[d].session \in Sessions

OpenIsNotClosed == \A s \in Sessions : status[s] = "open" => s \notin closed

Holders == {s \in Sessions : status[s] \in Active /\ s \notin closed}

YoungestIsAlone ==
  \A s, t \in Holders :
    born[s] < born[t] => window[s] = "over" /\ status[s] # "open"

PolledIsOpened ==
  \A w \in Workers : poll[w].session \in Sessions => poll[w].session \in Opened

SessionInv ==
  /\ TypeOK /\ BornInOrder /\ WindowsInOrder /\ ReceiptsHaveSessions
  /\ OpenIsNotClosed /\ YoungestIsAlone /\ PolledIsOpened

-----------------------------------------------------------------------------
(* What the steps write.                                                   *)

LEMMA RowTypes ==
  TypeOK <=> /\ head \in 0..MaxHead
             /\ at \in [Deposits -> 0..MaxHead]
             /\ status \in [Sessions -> {"none", "asked"} \cup Active \cup Ended]
             /\ closed \subseteq {s \in Sessions : status[s] \notin {"none", "asked"}}
             /\ \A s \in Sessions : status[s] \in Ended => s \in closed
             /\ window \in [Sessions -> {"live", "grace", "over"}]
             /\ born \in [Sessions -> Nat]
             /\ start \in [Sessions -> 0..MaxHead]
             /\ cursor \in [Sessions -> 0..MaxHead]
             /\ receipt \in [Deposits -> Receipt]
             /\ poll \in [Workers -> Poll]
BY DEF TypeOK, Receipt, Poll

LEMMA OutdatedType ==
  ASSUME poll \in [Workers -> Poll], NEW S PROVE Outdated(S) \in [Workers -> Poll]
BY DEF Outdated, Poll

\* Polls become stale or end, and what was opened stays so.
LEMMA PolledStays ==
  ASSUME PolledIsOpened, Opened \subseteq Opened',
         \A w \in Workers : poll'[w].session \in {poll[w].session, NoSession}
  PROVE  PolledIsOpened'
BY NoSessionAssumption DEF PolledIsOpened

LEMMA OutdatedSessions ==
  ASSUME TypeOK, NEW S, NEW w \in Workers
  PROVE  Outdated(S)[w].session = poll[w].session
BY DEF Outdated, TypeOK

\* Only a session that never gave the address up, and that no younger one
\* supersedes, becomes open when its receipts change.
LEMMA EffectiveValues ==
  ASSUME NEW s, NEW r
  PROVE  /\ Effective(s, r) \in Active \cup {"completed"}
         /\ Effective(s, r) = "open" => s \notin closed /\ ~Superseded(s)
BY DEF Effective, Derived, Active

\* The status of session s is derived again from receipts r.
Rederived(s, r) ==
  /\ status[s] \in Active
  /\ status' = [status EXCEPT ![s] = Effective(s, r)]
  /\ closed' = closed \cup {t \in {s} : status'[t] = "completed"}

LEMMA RederivedType ==
  ASSUME TypeOK, NEW s \in Sessions, NEW r, Rederived(s, r)
  PROVE  /\ status' \in [Sessions -> {"none", "asked"} \cup Active \cup Ended]
         /\ closed' \subseteq {t \in Sessions : status'[t] \notin {"none", "asked"}}
         /\ \A t \in Sessions : status'[t] \in Ended => t \in closed'
PROOF
<1>1. /\ status'[s] = Effective(s, r)
      /\ \A t \in Sessions \ {s} : status'[t] = status[t]
      /\ status' \in [Sessions -> {"none", "asked"} \cup Active \cup Ended]
  BY EffectiveValues DEF Rederived, TypeOK, Ended
<1>2. status'[s] \notin {"none", "asked"}
      /\ (status'[s] \in Ended => status'[s] = "completed")
  BY <1>1, EffectiveValues DEF Active, Ended
<1> QED
  BY <1>1, <1>2 DEF Rederived, TypeOK

\* A derived status neither opens a second address nor a closed one.
LEMMA RederivedKeeps ==
  ASSUME SessionInv, NEW s \in Sessions, NEW r, Rederived(s, r),
         UNCHANGED <<window, born>>
  PROVE  /\ BornInOrder' /\ WindowsInOrder' /\ OpenIsNotClosed' /\ YoungestIsAlone'
         /\ Opened \subseteq Opened'
PROOF
<1>1. /\ status'[s] = Effective(s, r)
      /\ \A t \in Sessions \ {s} : status'[t] = status[t]
  BY RederivedType DEF SessionInv, TypeOK, Rederived
<1>2. status'[s] \notin {"none", "asked"} /\ status[s] \notin {"none", "asked"}
  BY <1>1, EffectiveValues DEF Rederived, Active
<1>3. Asked' = Asked
  BY <1>1, <1>2 DEF Asked
<1>4. BornInOrder' /\ WindowsInOrder'
  <2>1. BornInOrder'
    BY <1>3 DEF SessionInv, BornInOrder
  <2>2. \A t \in Sessions : status'[t] \in {"none", "asked"} => status[t] = status'[t]
    BY <1>1, <1>2
  <2>3. WindowsInOrder'
    BY <1>3, <2>2 DEF SessionInv, WindowsInOrder, Asked
  <2> QED
    BY <2>1, <2>3
<1>5. status'[s] = "open" =>
        s \notin closed /\ closed' = closed /\ \A t \in Opened : ~(born[t] > born[s])
  BY <1>1, EffectiveValues DEF Rederived, Superseded
<1>6. OpenIsNotClosed'
  BY <1>1, <1>5 DEF SessionInv, OpenIsNotClosed, Rederived
<1>7. Holders' \subseteq Holders /\ \A t \in Holders : t \in Opened
  BY <1>1 DEF Holders, Rederived, Opened, Active
<1>8. YoungestIsAlone'
  <2> SUFFICES ASSUME NEW a \in Holders', NEW b \in Holders', born[a] < born[b]
               PROVE  window[a] = "over" /\ status'[a] # "open"
    BY DEF YoungestIsAlone
  <2>1. window[a] = "over" /\ status[a] # "open" /\ b \in Opened
    BY <1>7 DEF SessionInv, YoungestIsAlone
  <2>2. born[a] \in Nat /\ born[b] \in Nat
    BY DEF SessionInv, TypeOK, Holders
  <2> QED
    BY <1>1, <1>5, <2>1, <2>2 DEF Holders
<1>9. Opened \subseteq Opened'
  BY <1>1, <1>2 DEF Opened
<1> QED
  BY <1>4, <1>6, <1>8, <1>9

-----------------------------------------------------------------------------
(* The steps.                                                              *)

LEMMA InitInvariant == Init => SessionInv
PROOF
<1> SUFFICES ASSUME Init PROVE SessionInv
  OBVIOUS
<1>1. TypeOK
  BY HeadAssumption DEF Init, TypeOK, NoReceipt, Idle, Ended
<1>2. Asked = {} /\ Holders = {}
  BY DEF Init, Asked, Holders, Active
<1>3. BornInOrder
  BY <1>2, FS_EmptySet DEF Init, BornInOrder
<1>4. PolledIsOpened
  BY NoSessionAssumption DEF Init, PolledIsOpened, Idle
<1> QED
  BY <1>1, <1>2, <1>3, <1>4 DEF Init, SessionInv, WindowsInOrder, ReceiptsHaveSessions,
    OpenIsNotClosed, YoungestIsAlone, NoReceipt

LEMMA AskKeeps ==
  ASSUME SessionInv, NEW s \in Sessions, Ask(s) PROVE SessionInv'
PROOF
<1> DEFINE n == Cardinality(Asked)
<1>1. n \in Nat /\ s \notin Asked
  BY FS_CardinalityType DEF Ask, SessionInv, BornInOrder, Asked
<1>2. /\ status' = [status EXCEPT ![s] = "asked"]
      /\ born' = [born EXCEPT ![s] = n + 1]
      /\ UNCHANGED <<head, at, closed, window, receipt, poll>>
  BY DEF Ask, Asked
<1>3. Asked' = Asked \cup {s}
  BY <1>1, <1>2 DEF Asked, SessionInv, TypeOK
<1>4. IsFiniteSet(Asked') /\ Cardinality(Asked') = n + 1
  BY <1>1, <1>3, FS_AddElement DEF SessionInv, BornInOrder
<1>5. TypeOK'
  <2>1. born' \in [Sessions -> Nat]
    BY <1>1, <1>2 DEF SessionInv, TypeOK
  <2>2. status' \in [Sessions -> {"none", "asked"} \cup Active \cup Ended]
    BY <1>2 DEF SessionInv, TypeOK
  <2>3. status[s] = "none" /\ \A t \in Sessions \ {s} : status'[t] = status[t]
    BY <1>2 DEF Ask, SessionInv, TypeOK
  <2>4. closed' \subseteq {t \in Sessions : status'[t] \notin {"none", "asked"}}
    BY <1>2, <2>3 DEF SessionInv, TypeOK
  <2>5. \A t \in Sessions : status'[t] \in Ended => t \in closed'
    BY <1>2, <2>3 DEF SessionInv, TypeOK, Ended
  <2>6. start' \in [Sessions -> 0..MaxHead] /\ cursor' \in [Sessions -> 0..MaxHead]
    BY DEF Ask, SessionInv, TypeOK
  <2> QED
    BY <1>2, <2>1, <2>2, <2>4, <2>5, <2>6 DEF SessionInv, TypeOK
<1>6. /\ born'[s] = n + 1
      /\ \A t \in Asked : born'[t] = born[t] /\ born[t] \in 1..n
      /\ \A t \in Sessions \ Asked' : born'[t] = 0
  BY <1>1, <1>2, <1>3 DEF SessionInv, TypeOK, BornInOrder, Asked
<1>7. BornInOrder'
  <2>1. \A t \in Asked' : born'[t] \in 1..(n + 1)
    BY <1>1, <1>3, <1>6
  <2>2. \A a, b \in Asked' : born'[a] = born'[b] => a = b
    BY <1>1, <1>3, <1>6 DEF SessionInv, BornInOrder
  <2> QED
    BY <1>4, <1>6, <2>1, <2>2 DEF BornInOrder
<1>8. WindowsInOrder'
  <2>1. \A t \in Sessions \ {s} : status'[t] = status[t]
    BY <1>2 DEF SessionInv, TypeOK
  <2>2. window[s] = "live"
    BY DEF Ask, SessionInv, WindowsInOrder
  <2>3. ASSUME NEW a \in Asked', NEW b \in Asked', window'[a] # "live",
               born'[b] < born'[a]
        PROVE  status'[b] # "asked"
    <3>1. a \in Asked
      BY <1>2, <1>3, <2>2, <2>3
    <3>2. b \in Asked
      BY <1>1, <1>3, <1>6, <2>3, <3>1
    <3> QED
      BY <1>1, <1>2, <1>6, <2>1, <2>3, <3>1, <3>2 DEF SessionInv, WindowsInOrder
  <2> QED
    BY <1>2, <2>1, <2>2, <2>3 DEF SessionInv, WindowsInOrder
<1>9. OpenIsNotClosed' /\ YoungestIsAlone' /\ ReceiptsHaveSessions'
  <2>1. \A t \in Sessions \ {s} : status'[t] = status[t] /\ born'[t] = born[t]
    BY <1>2 DEF SessionInv, TypeOK
  <2>2. status'[s] = "asked"
    BY <1>2 DEF SessionInv, TypeOK
  <2>3. Holders' \subseteq Holders \ {s}
    BY <1>2, <2>1, <2>2 DEF Holders, Active
  <2> QED
    BY <1>2, <2>1, <2>2, <2>3 DEF SessionInv, OpenIsNotClosed, YoungestIsAlone,
      ReceiptsHaveSessions, Holders
<1>10. PolledIsOpened'
  <2>1. Opened \subseteq Opened'
    BY <1>1, <1>2 DEF Opened, Asked, SessionInv, TypeOK
  <2> QED
    BY <1>2, <2>1, PolledStays DEF SessionInv
<1> QED
  BY <1>5, <1>7, <1>8, <1>9, <1>10 DEF SessionInv

\* Session s is inserted and the address is taken from all others.
LEMMA OpenKeeps ==
  ASSUME SessionInv, NEW s \in Sessions, Open(s) PROVE SessionInv'
PROOF
<1> DEFINE left == {t \in Opened : status[t] \in {"open", "processing"}}
                     \cup (Paused \ closed)
<1>1. /\ status[s] = "asked"
      /\ \A t \in Opened : ~HoldsLease(t)
      /\ status' = [t \in Sessions |-> IF t = s THEN "open" ELSE Replaced(s, t)]
      /\ closed' = closed \cup left
      /\ poll' = Outdated(left)
      /\ UNCHANGED <<head, at, window, born, start, cursor, receipt>>
  BY DEF Open
<1>2. s \in Sessions /\ s \notin Opened /\ s \notin closed /\ s \notin left
  BY <1>1 DEF Opened, SessionInv, TypeOK, Paused
<1>3. ASSUME NEW t \in Sessions \ {s}
      PROVE  \/ status'[t] = status[t] /\ status[t] \notin {"open", "processing"}
             \/ /\ status[t] \in {"open", "processing"}
                /\ status'[t] \in {"cancelled", "expired"} /\ t \in left
  <2>1. status'[t] = Replaced(s, t)
    BY <1>1
  <2>2. status[t] \in {"open", "processing"} => t \in left
    BY DEF Opened
  <2>3. CASE status[t] = "open"
    BY <2>1, <2>2, <2>3 DEF Replaced
  <2>4. CASE status[t] = "processing"
    BY <2>1, <2>2, <2>4 DEF Replaced
  <2>5. CASE status[t] \notin {"open", "processing"}
    BY <2>1, <2>5 DEF Replaced
  <2> QED
    BY <2>3, <2>4, <2>5
<1>4. status'[s] = "open"
  BY <1>1
<1>5. TypeOK'
  <2>1. status' \in [Sessions -> {"none", "asked"} \cup Active \cup Ended]
    BY <1>1, <1>3, <1>4 DEF SessionInv, TypeOK, Active, Ended
  <2>2. left \subseteq {t \in Sessions : status[t] \notin {"none", "asked"}}
    BY DEF Opened, Paused
  <2>3. closed' \subseteq {t \in Sessions : status'[t] \notin {"none", "asked"}}
    BY <1>1, <1>2, <1>3, <2>2 DEF SessionInv, TypeOK
  <2>4. \A t \in Sessions : status'[t] \in Ended => t \in closed'
    BY <1>1, <1>3, <1>4 DEF SessionInv, TypeOK, Ended
  <2>5. poll' \in [Workers -> Poll]
    BY <1>1, RowTypes, OutdatedType DEF SessionInv
  <2> QED
    BY <1>1, <2>1, <2>3, <2>4, <2>5, RowTypes DEF SessionInv, TypeOK, Poll
<1>6. Asked' = Asked
  BY <1>1, <1>3, <1>4 DEF Asked
<1>7. BornInOrder' /\ ReceiptsHaveSessions'
  BY <1>1, <1>6 DEF SessionInv, BornInOrder, ReceiptsHaveSessions
<1>8. WindowsInOrder'
  <2>1. \A t \in Sessions : status'[t] \in {"none", "asked"} => status[t] = status'[t]
    BY <1>3, <1>4
  <2> QED
    BY <1>1, <1>6, <2>1 DEF SessionInv, WindowsInOrder, Asked
<1>9. OpenIsNotClosed'
  BY <1>1, <1>2, <1>3 DEF OpenIsNotClosed
<1>10. ASSUME NEW t \in Holders', t # s
       PROVE  /\ t \in Holders /\ status'[t] # "open"
              /\ window[t] = "over" /\ born[t] < born[s]
  <2>1. /\ t \in Sessions \ {s} /\ t \notin closed /\ t \notin left
        /\ status'[t] \in Active
    BY <1>1, <1>10 DEF Holders
  <2>2. status'[t] = status[t] /\ status[t] \in {"review", "recovery"}
    BY <1>3, <2>1 DEF Active
  <2>3. t \in Opened /\ InFlight(t)
    BY <2>1, <2>2 DEF Opened, Paused
  <2>4. window[t] = "over"
    BY <1>1, <2>3 DEF HoldsLease
  <2>5. t \in Asked /\ s \in Asked
    BY <1>1, <2>1, <2>2 DEF Asked
  <2>6. /\ ~(born[s] < born[t]) /\ born[s] # born[t]
        /\ born[s] \in Nat /\ born[t] \in Nat
    BY <1>1, <2>1, <2>4, <2>5 DEF SessionInv, WindowsInOrder, BornInOrder, TypeOK
  <2> QED
    BY <2>1, <2>2, <2>4, <2>6 DEF Holders, Active
<1>11. YoungestIsAlone'
  <2> SUFFICES ASSUME NEW a \in Holders', NEW b \in Holders', born[a] < born[b]
               PROVE  window[a] = "over" /\ status'[a] # "open"
    BY <1>1 DEF YoungestIsAlone
  <2>1. born[a] \in Nat /\ born[b] \in Nat /\ born[s] \in Nat
    BY DEF SessionInv, TypeOK, Holders
  <2>2. a # s
    BY <1>10, <2>1
  <2> QED
    BY <1>10, <2>2
<1>12. PolledIsOpened'
  <2>1. Opened \subseteq Opened'
    BY <1>3, <1>4 DEF Opened
  <2> QED
    BY <1>1, <2>1, PolledStays, OutdatedSessions DEF SessionInv
<1> QED
  BY <1>5, <1>7, <1>8, <1>9, <1>11, <1>12 DEF SessionInv

\* A step that only takes sessions out of use.
LEMMA EndKeeps ==
  ASSUME SessionInv, NEW s \in Sessions, Expire(s) \/ Cancel(s)
  PROVE  SessionInv'
PROOF
<1>1. /\ status[s] \in Active
      /\ closed' = closed \cup {s} /\ poll' = Outdated({s})
      /\ UNCHANGED <<head, at, window, born, start, cursor, receipt>>
      /\ \/ status' = [status EXCEPT ![s] = "expired"]
         \/ status' = [status EXCEPT ![s] = "cancelled"]
  BY DEF Expire, Cancel, Active
<1>2. /\ status'[s] \in {"expired", "cancelled"}
      /\ \A t \in Sessions \ {s} : status'[t] = status[t]
      /\ status' \in [Sessions -> {"none", "asked"} \cup Active \cup Ended]
  BY <1>1 DEF SessionInv, TypeOK, Ended
<1>3. TypeOK'
  <2>1. closed' \subseteq {t \in Sessions : status'[t] \notin {"none", "asked"}}
    BY <1>1, <1>2 DEF SessionInv, TypeOK
  <2>2. \A t \in Sessions : status'[t] \in Ended => t \in closed'
    BY <1>1, <1>2 DEF SessionInv, TypeOK
  <2>3. poll' \in [Workers -> Poll]
    BY <1>1, RowTypes, OutdatedType DEF SessionInv
  <2> QED
    BY <1>1, <1>2, <2>1, <2>2, <2>3 DEF SessionInv, TypeOK, Poll
<1>4. Asked' = Asked /\ Holders' \subseteq Holders \ {s}
  BY <1>1, <1>2 DEF Asked, Holders, Active
<1>5. \A t \in Sessions : status'[t] \in {"none", "asked"} => status[t] = status'[t]
  BY <1>2
<1>6. BornInOrder' /\ ReceiptsHaveSessions' /\ OpenIsNotClosed'
  BY <1>1, <1>2, <1>4 DEF SessionInv, BornInOrder, ReceiptsHaveSessions,
    OpenIsNotClosed
<1>7. WindowsInOrder'
  BY <1>1, <1>4, <1>5 DEF SessionInv, WindowsInOrder, Asked
<1>8. YoungestIsAlone'
  BY <1>1, <1>2, <1>4 DEF SessionInv, YoungestIsAlone, Holders
<1>9. PolledIsOpened'
  <2>1. Opened \subseteq Opened'
    BY <1>2 DEF Opened
  <2> QED
    BY <1>1, <2>1, PolledStays, OutdatedSessions DEF SessionInv
<1> QED
  BY <1>3, <1>6, <1>7, <1>8, <1>9 DEF SessionInv

LEMMA ElapseKeeps ==
  ASSUME SessionInv, NEW s \in Sessions, Elapse(s) PROVE SessionInv'
PROOF
<1>1. /\ s \in Opened
      /\ \A t \in Sessions : born[t] \in 1..(born[s] - 1) => status[t] # "asked"
      /\ window[s] # "over"
      /\ window' = [window EXCEPT ![s] = IF @ = "live" THEN "grace" ELSE "over"]
      /\ UNCHANGED <<head, at, status, closed, born, start, cursor, receipt, poll>>
  BY DEF Elapse
<1>2. /\ \A t \in Sessions \ {s} : window'[t] = window[t]
      /\ window' \in [Sessions -> {"live", "grace", "over"}]
  BY <1>1 DEF SessionInv, TypeOK
<1>3. TypeOK'
  BY <1>1, <1>2 DEF SessionInv, TypeOK
<1>4. Asked' = Asked /\ Holders' = Holders
  BY <1>1 DEF Asked, Holders
<1>5. WindowsInOrder'
  <2>1. ASSUME NEW a \in Asked, NEW b \in Asked, window'[a] # "live",
               born[b] < born[a]
        PROVE  status[b] # "asked"
    <3>1. CASE a = s
      <4>1. born[b] \in 1..(born[s] - 1)
        BY <2>1, <3>1, FS_CardinalityType DEF SessionInv, BornInOrder, TypeOK, Asked
      <4> QED
        BY <1>1, <4>1 DEF Asked
    <3>2. CASE a # s
      BY <1>2, <2>1, <3>2 DEF SessionInv, WindowsInOrder, Asked
    <3> QED
      BY <3>1, <3>2
  <2>2. \A t \in Sessions : status[t] \in {"none", "asked"} => window'[t] = "live"
    BY <1>1, <1>2 DEF SessionInv, WindowsInOrder, Opened
  <2> QED
    BY <1>1, <1>4, <2>1, <2>2 DEF WindowsInOrder
<1>6. YoungestIsAlone'
  <2>1. \A t \in Sessions : window[t] = "over" => window'[t] = "over"
    BY <1>1, <1>2
  <2> QED
    BY <1>1, <1>4, <2>1 DEF SessionInv, YoungestIsAlone, Holders
<1>7. BornInOrder' /\ ReceiptsHaveSessions' /\ OpenIsNotClosed'
  BY <1>1, <1>4 DEF SessionInv, BornInOrder, ReceiptsHaveSessions, OpenIsNotClosed
<1>8. PolledIsOpened'
  BY <1>1 DEF SessionInv, PolledIsOpened, Opened
<1> QED
  BY <1>3, <1>5, <1>6, <1>7, <1>8 DEF SessionInv

\* Deposits are recorded for session s, and its status is derived again.
LEMMA PersistKeeps ==
  ASSUME SessionInv, NEW w \in Workers, NEW to \in 1..MaxHead, Persist(w, to)
  PROVE  SessionInv'
PROOF
<1> DEFINE s == poll[w].session
<1>1. /\ s \in Sessions /\ to \in (cursor[s] + 1)..head
      /\ cursor' = [cursor EXCEPT ![s] = to]
      /\ poll' = [Outdated({s}) EXCEPT ![w] = Idle]
      /\ UNCHANGED <<head, at, window, born, start>>
      /\ IF status[s] \in Ended THEN UNCHANGED <<status, closed>>
         ELSE /\ status' = [status EXCEPT ![s] = Effective(s, receipt')]
              /\ closed' = closed \cup {t \in {s} : status'[t] = "completed"}
  BY DEF Persist
<1>2. PICK refused \in SUBSET {d \in Deposits : Channel[s] = "telegram"} :
        receipt' = [d \in Deposits |->
             IF d \in Unallocated(s, to)
             THEN [status |-> Disposition(d, status[s] \in Ended, refused),
                   session |-> s, late |-> status[s] \in Ended]
             ELSE receipt[d]]
  BY DEF Persist
<1>3. ASSUME NEW d \in Deposits
      PROVE  Disposition(d, status[s] \in Ended, refused)
               \in {"ready", "observed", "review", "recovery"}
  <2>1. Kind[d] \in {"direct", "conversion", "review"}
    BY KindAssumption
  <2> QED
    BY <2>1 DEF Disposition
<1>4. receipt' \in [Deposits -> Receipt] /\ ReceiptsHaveSessions'
  <2>1. ASSUME NEW d \in Deposits
        PROVE  /\ receipt'[d] \in Receipt
               /\ receipt'[d].status # "none" => receipt'[d].session \in Sessions
    <3>1. receipt[d] \in Receipt
      BY RowTypes DEF SessionInv
    <3>2. (status[s] \in Ended) \in BOOLEAN
      OBVIOUS
    <3> QED
      BY <1>1, <1>2, <1>3, <3>1, <3>2 DEF Receipt, SessionInv, ReceiptsHaveSessions
  <2> QED
    BY <1>2, <2>1 DEF ReceiptsHaveSessions
<1>5. poll' \in [Workers -> Poll] /\ cursor' \in [Sessions -> 0..MaxHead]
  <2>1. Outdated({s}) \in [Workers -> Poll] /\ Idle \in Poll
    BY RowTypes, OutdatedType DEF SessionInv, Idle, Poll
  <2>2. to \in 0..MaxHead
    BY HeadAssumption
  <2>3. cursor \in [Sessions -> 0..MaxHead]
    BY DEF SessionInv, TypeOK
  <2>4. cursor' \in [Sessions -> 0..MaxHead]
    BY <1>1, <2>2, <2>3
  <2> QED
    BY <1>1, <2>1, <2>4
<1>6. ASSUME Opened \subseteq Opened' PROVE PolledIsOpened'
  <2>1. \A v \in Workers : poll'[v].session \in {poll[v].session, NoSession}
    BY <1>1, OutdatedSessions, OutdatedType, RowTypes DEF SessionInv, Idle
  <2> QED
    BY <1>6, <2>1, PolledStays DEF SessionInv
<1>7. CASE status[s] \in Ended
  <2>1. TypeOK'
    BY <1>1, <1>4, <1>5, <1>7 DEF SessionInv, TypeOK, Receipt, Poll
  <2>2. PolledIsOpened'
    BY <1>1, <1>6, <1>7 DEF Opened
  <2> QED
    BY <1>1, <1>4, <1>7, <2>1, <2>2 DEF SessionInv, BornInOrder, WindowsInOrder,
      OpenIsNotClosed, YoungestIsAlone, Asked, Holders
<1>8. CASE status[s] \notin Ended
  <2>1. status[s] \in Active
    BY <1>1, <1>8 DEF SessionInv, PolledIsOpened, Opened, TypeOK
  <2>2. Rederived(s, receipt')
    BY <1>1, <1>8, <2>1 DEF Rederived
  <2>3. TypeOK'
    BY <1>1, <1>4, <1>5, <2>2, RederivedType DEF SessionInv, TypeOK, Receipt, Poll
  <2> QED
    BY <1>1, <1>4, <1>6, <2>2, <2>3, RederivedKeeps DEF SessionInv
<1> QED
  BY <1>7, <1>8

\* The router commits a new status of a receipt.
LEMMA RefreshKeeps ==
  ASSUME SessionInv, NEW d \in Deposits, receipt[d].status # "none",
         NEW new \in {"ready", "routing", "review", "recovery"}, Refreshed(d, new)
  PROVE  SessionInv'
PROOF
<1> DEFINE s == receipt[d].session
<1>1. /\ s \in Sessions
      /\ receipt' = [receipt EXCEPT ![d].status = new]
      /\ UNCHANGED <<head, at, window, born, start, cursor>>
      /\ IF status[s] \in Active
         THEN /\ status' = [status EXCEPT ![s] = Effective(s, receipt')]
              /\ closed' = closed \cup {t \in {s} : status'[t] = "completed"}
              /\ poll' = Outdated({s})
         ELSE UNCHANGED <<status, closed, poll>>
  BY DEF Refreshed, SessionInv, ReceiptsHaveSessions
<1>2. receipt' \in [Deposits -> Receipt]
  BY <1>1, RowTypes DEF SessionInv, Receipt
<1>3. ReceiptsHaveSessions'
  BY <1>1, RowTypes DEF SessionInv, ReceiptsHaveSessions, Receipt
<1>4. CASE status[s] \in Active
  <2>1. Rederived(s, receipt')
    BY <1>1, <1>4 DEF Rederived
  <2>2. poll' \in [Workers -> Poll]
    BY <1>1, <1>4, RowTypes, OutdatedType DEF SessionInv
  <2>3. TypeOK'
    BY <1>1, <1>2, <2>1, <2>2, RederivedType DEF SessionInv, TypeOK, Receipt, Poll
  <2>4. Opened \subseteq Opened'
    BY <1>1, <2>1, RederivedKeeps
  <2>5. PolledIsOpened'
    BY <1>1, <1>4, <2>4, PolledStays, OutdatedSessions DEF SessionInv
  <2> QED
    BY <1>1, <1>3, <2>1, <2>3, <2>5, RederivedKeeps DEF SessionInv
<1>5. CASE status[s] \notin Active
  <2>1. TypeOK'
    BY <1>1, <1>2, <1>5 DEF SessionInv, TypeOK, Receipt
  <2> QED
    BY <1>1, <1>3, <1>5, <2>1 DEF SessionInv, BornInOrder, WindowsInOrder,
      OpenIsNotClosed, YoungestIsAlone, PolledIsOpened, Asked, Holders, Opened
<1> QED
  BY <1>4, <1>5

LEMMA StepKeeps == SessionInv /\ [Next]_vars => SessionInv'
PROOF
<1> SUFFICES ASSUME SessionInv, [Next]_vars PROVE SessionInv'
  OBVIOUS
<1>1. ASSUME NEW D \in SUBSET Deposits, Mine(D) PROVE SessionInv'
  <2>1. head' \in 0..MaxHead
    BY <1>1, HeadAssumption DEF Mine, SessionInv, TypeOK
  <2>2. at' \in [Deposits -> 0..MaxHead]
    BY <1>1, <2>1 DEF Mine, SessionInv, TypeOK
  <2>3. TypeOK'
    BY <1>1, <2>1, <2>2 DEF Mine, SessionInv, TypeOK
  <2> QED
    BY <1>1, <2>3 DEF Mine, SessionInv, BornInOrder, WindowsInOrder,
      ReceiptsHaveSessions, OpenIsNotClosed, YoungestIsAlone, PolledIsOpened,
      Asked, Holders, Opened
<1>2. ASSUME NEW w \in Workers, (\E s \in Sessions : Claim(w, s)) \/ Abandon(w)
      PROVE  SessionInv'
  <2>1. PICK s \in Sessions \cup {NoSession} :
          /\ s \in Sessions => s \in Opened
          /\ \E fresh \in BOOLEAN :
               poll' = [poll EXCEPT ![w] = [session |-> s, fresh |-> fresh]]
    <3>1. CASE Abandon(w)
      BY <3>1, NoSessionAssumption DEF Abandon, Idle
    <3>2. ASSUME NEW s \in Sessions, Claim(w, s)
          PROVE  /\ s \in Opened
                 /\ poll' = [poll EXCEPT ![w] = [session |-> s, fresh |-> TRUE]]
      BY <3>2 DEF Claim, Observable, Opened, Ended
    <3> QED
      BY <1>2, <3>1, <3>2
  <2>2. UNCHANGED <<head, at, status, closed, window, born, start, cursor, receipt>>
    BY <1>2 DEF Claim, Abandon
  <2>3. TypeOK' /\ PolledIsOpened'
    BY <2>1, <2>2, NoSessionAssumption DEF SessionInv, TypeOK, PolledIsOpened, Opened
  <2> QED
    BY <2>2, <2>3 DEF SessionInv, BornInOrder, WindowsInOrder,
      ReceiptsHaveSessions, OpenIsNotClosed, YoungestIsAlone, Asked, Holders
<1>3. ASSUME NEW d \in Deposits, Link(d) \/ Refuse(d) \/ Settle(d)
      PROVE  SessionInv'
  BY <1>3, RefreshKeeps DEF Link, Refuse, Settle
<1>4. CASE UNCHANGED vars
  BY <1>4 DEF vars, SessionInv, TypeOK, BornInOrder, WindowsInOrder,
    ReceiptsHaveSessions, OpenIsNotClosed, YoungestIsAlone, PolledIsOpened,
    Asked, Holders, Opened
<1> QED
  BY <1>1, <1>2, <1>3, <1>4, AskKeeps, OpenKeeps, EndKeeps, ElapseKeeps,
    PersistKeeps DEF Next

LEMMA Invariant == Spec => []SessionInv
BY InitInvariant, StepKeeps, PTL DEF Spec

-----------------------------------------------------------------------------
(* Theorems.                                                               *)

\* Rows, receipts and polls keep their types, and ended sessions are closed.
THEOREM TypeCorrect == Spec => []TypeOK
BY Invariant, PTL DEF SessionInv

\* One address of the scope is open at a time, for every number of concurrent
\* requests and whatever is settled on the sessions they replace.
THEOREM OneAddressIsOpen == Spec => []OneOpenAddress
PROOF
<1>1. SessionInv => OneOpenAddress
  <2> SUFFICES ASSUME SessionInv, NEW s \in Sessions, NEW t \in Sessions,
                      status[s] = "open", status[t] = "open"
               PROVE  s = t
    BY DEF OneOpenAddress
  <2>1. s \in Holders /\ t \in Holders
    BY DEF SessionInv, OpenIsNotClosed, Holders, Active
  <2>2. s \in Asked /\ t \in Asked /\ born[s] \in Nat /\ born[t] \in Nat
    BY DEF Asked, SessionInv, TypeOK
  <2>3. ~(born[s] < born[t]) /\ ~(born[t] < born[s])
    BY <2>1 DEF SessionInv, YoungestIsAlone
  <2> QED
    BY <2>2, <2>3 DEF SessionInv, BornInOrder
<1> QED
  BY <1>1, Invariant, PTL

\* An address that was given up is never opened again.
THEOREM ClosedAddressesStayClosed == Spec => ClosedAddressStaysClosed
PROOF
<1>1. SessionInv /\ [Next]_vars => [\A s \in closed : status'[s] # "open"]_vars
  <2> SUFFICES ASSUME SessionInv, Next, NEW c \in closed
               PROVE  status'[c] # "open"
    OBVIOUS
  <2>1. c \in Sessions /\ status[c] \notin {"none", "asked", "open"}
    BY DEF SessionInv, TypeOK, OpenIsNotClosed
  <2>2. ASSUME NEW s \in Sessions, NEW r,
               status' = [status EXCEPT ![s] = Effective(s, r)]
        PROVE  status'[c] # "open"
    BY <2>1, <2>2, EffectiveValues DEF SessionInv, TypeOK
  <2>3. ASSUME NEW s \in Sessions, Open(s) PROVE status'[c] # "open"
    BY <2>1, <2>3 DEF Open, Replaced
  <2>4. ASSUME NEW s \in Sessions, Ask(s) \/ Expire(s) \/ Cancel(s) \/ Elapse(s)
        PROVE  status'[c] # "open"
    BY <2>1, <2>4 DEF Ask, Expire, Cancel, Elapse, SessionInv, TypeOK
  <2>5. ASSUME NEW w \in Workers, NEW to \in 1..MaxHead, Persist(w, to)
        PROVE  status'[c] # "open"
    BY <2>1, <2>2, <2>5 DEF Persist
  <2>6. ASSUME NEW d \in Deposits, Link(d) \/ Refuse(d) \/ Settle(d)
        PROVE  status'[c] # "open"
    <3>1. receipt[d].session \in Sessions
      BY <2>6 DEF Link, Refuse, Settle, SessionInv, ReceiptsHaveSessions
    <3> QED
      BY <2>1, <2>2, <2>6, <3>1 DEF Link, Refuse, Settle, Refreshed
  <2> QED
    BY <2>1, <2>3, <2>4, <2>5, <2>6 DEF Next, Mine, Claim, Abandon
<1> QED
  BY <1>1, Invariant, PTL DEF Spec, ClosedAddressStaysClosed

-----------------------------------------------------------------------------
(* No deposit is passed over.                                              *)

\* Scans begin at the head of their request and do not run ahead of the chain.
CursorsFollow ==
  \A s \in Sessions :
    /\ start[s] <= head /\ cursor[s] <= head
    /\ status[s] \in {"none", "asked"} => cursor[s] = start[s]

StartsInOrder ==
  \A s, t \in Asked : born[s] < born[t] => start[s] <= start[t]

Uncredited == {d \in Deposits : at[d] > 0 /\ receipt[d].status = "none"}

\* A session that left a deposit behind left it to a younger one that is still
\* to meet it; windows end in order, so that one outlasts it.
LeftToYounger ==
  \A d \in Uncredited : \A s \in Covering(d) :
    \/ cursor[s] < at[d]
    \/ \E t \in Covering(d) : born[s] < born[t] /\ cursor[t] < at[d]

ScanInv == CursorsFollow /\ StartsInOrder /\ LeftToYounger

LEMMA ScanInit == Init => ScanInv
PROOF
<1> SUFFICES ASSUME Init PROVE ScanInv
  OBVIOUS
<1>1. Asked = {} /\ Opened = {}
  BY DEF Init, Asked, Opened
<1> QED
  BY <1>1 DEF Init, ScanInv, CursorsFollow, StartsInOrder, LeftToYounger, Covering

\* Steps that move no scan, open and end no window and mine nothing.
LEMMA ScanUntouched ==
  ASSUME ScanInv, Opened' = Opened, Asked' = Asked, Uncredited' \subseteq Uncredited,
         UNCHANGED <<head, at, window, born, start, cursor>>,
         \A s \in Sessions : status'[s] \in {"none", "asked"} => status[s] = status'[s]
  PROVE  ScanInv'
PROOF
<1>1. \A d \in Deposits : Covering(d)' = Covering(d)
  BY DEF Covering
<1>2. LeftToYounger'
  BY <1>1 DEF ScanInv, LeftToYounger, Uncredited
<1>3. StartsInOrder'
  BY DEF ScanInv, StartsInOrder
<1>4. CursorsFollow'
  BY DEF ScanInv, CursorsFollow
<1> QED
  BY <1>2, <1>3, <1>4 DEF ScanInv

LEMMA ScanAsk ==
  ASSUME SessionInv, ScanInv, NEW s \in Sessions, Ask(s) PROVE ScanInv'
PROOF
<1> DEFINE n == Cardinality(Asked)
<1>1. /\ n \in Nat /\ s \notin Asked /\ s \notin Opened
      /\ head \in Nat
  BY FS_CardinalityType DEF Ask, SessionInv, BornInOrder, Asked, Opened, TypeOK
<1>2. /\ status'[s] = "asked" /\ born'[s] = n + 1
      /\ start'[s] = head /\ cursor'[s] = head
      /\ \A t \in Sessions \ {s} :
           /\ status'[t] = status[t] /\ born'[t] = born[t]
           /\ start'[t] = start[t] /\ cursor'[t] = cursor[t]
      /\ UNCHANGED <<head, at, closed, window, receipt, poll>>
  BY DEF Ask, Asked, SessionInv, TypeOK
<1>3. Asked' = Asked \cup {s} /\ Opened' = Opened
  BY <1>1, <1>2 DEF Asked, Opened
<1>4. CursorsFollow'
  BY <1>1, <1>2 DEF ScanInv, CursorsFollow
<1>5. StartsInOrder'
  <2>1. \A t \in Asked : /\ t \in Sessions \ {s} /\ born[t] \in 1..n
                         /\ start[t] <= head
    BY <1>1 DEF SessionInv, BornInOrder, ScanInv, CursorsFollow, Asked
  <2> QED
    BY <1>1, <1>2, <1>3, <2>1 DEF ScanInv, StartsInOrder
<1>6. LeftToYounger'
  <2>1. \A t \in Opened : t \in Sessions \ {s}
    BY <1>1 DEF Opened
  <2>2. \A d \in Deposits : Covering(d)' = Covering(d)
    BY <1>2, <1>3, <2>1 DEF Covering
  <2>3. Uncredited' = Uncredited
    BY <1>2 DEF Uncredited
  <2>4. \A d \in Deposits : Covering(d) \subseteq Opened
    BY DEF Covering
  <2> QED
    BY <1>2, <2>1, <2>2, <2>3, <2>4 DEF ScanInv, LeftToYounger, Uncredited
<1> QED
  BY <1>4, <1>5, <1>6 DEF ScanInv

LEMMA ScanOpen ==
  ASSUME SessionInv, ScanInv, NEW s \in Sessions, Open(s) PROVE ScanInv'
PROOF
<1>1. /\ status[s] = "asked" /\ status'[s] = "open"
      /\ \A t \in Sessions \ {s} :
           status'[t] = status[t] \/ status'[t] \in {"cancelled", "expired"}
      /\ UNCHANGED <<head, at, window, born, start, cursor, receipt>>
  BY DEF Open, Replaced
<1>2. \A t \in Sessions \ {s} : status'[t] # status[t] =>
         status[t] \in {"open", "processing"}
  BY DEF Open, Replaced
<1>3. Opened' = Opened \cup {s} /\ Asked' = Asked
  BY <1>1, <1>2 DEF Opened, Asked
<1>4. CursorsFollow' /\ StartsInOrder'
  BY <1>1, <1>2, <1>3 DEF ScanInv, CursorsFollow, StartsInOrder
<1>5. LeftToYounger'
  <2> SUFFICES ASSUME NEW d \in Uncredited', NEW t \in Covering(d)'
               PROVE  \/ cursor[t] < at[d]
                      \/ \E u \in Covering(d)' : born[t] < born[u] /\ cursor[u] < at[d]
    BY <1>1 DEF LeftToYounger
  <2>1. d \in Uncredited /\ Covering(d) \subseteq Covering(d)'
    BY <1>1, <1>3 DEF Uncredited, Covering
  <2>2. CASE t = s
    BY <1>1, <2>2 DEF ScanInv, CursorsFollow, Covering
  <2>3. CASE t # s
    <3>1. t \in Covering(d)
      BY <1>1, <1>3, <2>3 DEF Covering
    <3> QED
      BY <2>1, <3>1 DEF ScanInv, LeftToYounger
  <2> QED
    BY <2>2, <2>3
<1> QED
  BY <1>4, <1>5 DEF ScanInv

LEMMA ScanElapse ==
  ASSUME SessionInv, ScanInv, NEW s \in Sessions, Elapse(s) PROVE ScanInv'
PROOF
<1>1. /\ UNCHANGED <<head, at, status, closed, born, start, cursor, receipt, poll>>
      /\ \A t \in Sessions \ {s} : window'[t] = window[t]
      /\ window'[s] = IF window[s] = "live" THEN "grace" ELSE "over"
      /\ \A t \in Sessions : born[t] \in 1..(born[s] - 1) =>
           (window[s] = "grace" => window[t] = "over")
      /\ window[s] # "over"
  BY DEF Elapse, SessionInv, TypeOK
<1>2. Opened' = Opened /\ Asked' = Asked /\ Uncredited' = Uncredited
  BY <1>1 DEF Opened, Asked, Uncredited
<1>3. CursorsFollow' /\ StartsInOrder'
  BY <1>1, <1>2 DEF ScanInv, CursorsFollow, StartsInOrder
<1>4. LeftToYounger'
  <2> SUFFICES ASSUME NEW d \in Uncredited, NEW t \in Covering(d)'
               PROVE  \/ cursor[t] < at[d]
                      \/ \E u \in Covering(d)' : born[t] < born[u] /\ cursor[u] < at[d]
    BY <1>1, <1>2 DEF LeftToYounger
  <2>1. t \in Covering(d) /\ t \in Sessions /\ window'[t] # "over"
    BY <1>1, <1>2 DEF Covering, Opened
  <2>2. SUFFICES ASSUME NEW u \in Covering(d), born[t] < born[u], cursor[u] < at[d]
                 PROVE  u \in Covering(d)'
    BY <2>1 DEF ScanInv, LeftToYounger
  <2>3. u \in Opened /\ window[u] # "over" /\ start[u] < at[d]
    BY DEF Covering
  <2>4. u = s => window'[u] # "over"
    <3> SUFFICES ASSUME u = s, window[s] # "live" PROVE FALSE
      BY <1>1
    <3>1. window[s] = "grace"
      BY <1>1 DEF SessionInv, TypeOK
    <3>2. born[t] \in 1..(born[s] - 1)
      BY <2>1, <2>2, FS_CardinalityType
         DEF SessionInv, BornInOrder, TypeOK, Covering, Opened, Asked
    <3>3. window[t] = "over" /\ t # s
      BY <1>1, <2>1, <3>1, <3>2 DEF SessionInv, TypeOK
    <3> QED
      BY <1>1, <2>1, <3>3
  <2> QED
    BY <1>1, <1>2, <2>3, <2>4 DEF Covering, Opened
<1> QED
  BY <1>3, <1>4 DEF ScanInv

LEMMA ScanMine ==
  ASSUME SessionInv, ScanInv, NEW D \in SUBSET Deposits, Mine(D) PROVE ScanInv'
PROOF
<1>1. /\ head' = head + 1 /\ head \in Nat
      /\ \A d \in Deposits : at'[d] = IF d \in D THEN head + 1 ELSE at[d]
      /\ UNCHANGED <<status, closed, window, born, start, cursor, receipt, poll>>
  BY HeadAssumption DEF Mine, SessionInv, TypeOK
<1>2. Opened' = Opened /\ Asked' = Asked
  BY <1>1 DEF Opened, Asked
<1>3. \A s \in Sessions : start[s] \in Nat /\ cursor[s] \in Nat
  BY HeadAssumption DEF SessionInv, TypeOK
<1>4. CursorsFollow' /\ StartsInOrder'
  BY <1>1, <1>2, <1>3 DEF ScanInv, CursorsFollow, StartsInOrder
<1>5. LeftToYounger'
  <2> SUFFICES ASSUME NEW d \in Uncredited', NEW t \in Covering(d)'
               PROVE  \/ cursor[t] < at'[d]
                      \/ \E u \in Covering(d)' : born[t] < born[u] /\ cursor[u] < at'[d]
    BY <1>1 DEF LeftToYounger
  <2>1. d \in Deposits /\ t \in Sessions
    BY DEF Uncredited, Covering, Opened
  <2>2. CASE d \in D
    BY <1>1, <1>3, <2>1, <2>2 DEF ScanInv, CursorsFollow
  <2>3. CASE d \notin D
    <3>1. at'[d] = at[d] /\ d \in Uncredited /\ Covering(d)' = Covering(d)
      BY <1>1, <1>2, <2>1, <2>3 DEF Uncredited, Covering
    <3> QED
      BY <3>1 DEF ScanInv, LeftToYounger
  <2> QED
    BY <2>2, <2>3
<1> QED
  BY <1>4, <1>5 DEF ScanInv

\* The scan of a range credits what belongs to its session; what it skips
\* belongs to a younger session, which has a scan of its own ahead.
LEMMA ScanPersist ==
  ASSUME SessionInv, ScanInv, NEW w \in Workers, NEW to \in 1..MaxHead, Persist(w, to)
  PROVE  ScanInv'
PROOF
<1> DEFINE s == poll[w].session
<1>1. /\ s \in Sessions /\ s \in Opened
      /\ to \in (cursor[s] + 1)..head
      /\ cursor' = [cursor EXCEPT ![s] = to]
      /\ UNCHANGED <<head, at, window, born, start>>
      /\ \/ UNCHANGED status
         \/ status' = [status EXCEPT ![s] = Effective(s, receipt')]
  BY DEF Persist, SessionInv, PolledIsOpened
<1>2. /\ cursor'[s] = to
      /\ \A t \in Sessions \ {s} : cursor'[t] = cursor[t]
      /\ \A t \in Sessions : cursor[t] \in Nat /\ born[t] \in Nat
      /\ \A d \in Deposits : at[d] \in Nat
      /\ head \in Nat
  BY <1>1, HeadAssumption DEF SessionInv, TypeOK
<1>3. /\ \A t \in Sessions \ {s} : status'[t] = status[t]
      /\ status'[s] \notin {"none", "asked"}
  BY <1>1, EffectiveValues DEF SessionInv, TypeOK, Opened, Active
<1>4. Opened' = Opened /\ Asked' = Asked
  BY <1>1, <1>3 DEF Opened, Asked
<1>5. \A d \in Deposits : Covering(d)' = Covering(d)
  BY <1>1, <1>4 DEF Covering
<1>6. Uncredited' \subseteq Uncredited \ Unallocated(s, to)
  <2>1. PICK refused \in SUBSET {d \in Deposits : Channel[s] = "telegram"} :
          receipt' = [d \in Deposits |->
            IF d \in Unallocated(s, to)
            THEN [status |-> Disposition(d, status[s] \in Ended, refused),
                  session |-> s, late |-> status[s] \in Ended]
            ELSE receipt[d]]
    BY DEF Persist
  <2>2. \A d \in Deposits : \A isLate \in BOOLEAN :
          Disposition(d, isLate, refused) # "none"
    BY KindAssumption DEF Disposition
  <2>3. ASSUME NEW d \in Uncredited' PROVE d \in Uncredited /\ d \notin Unallocated(s, to)
    <3>1. d \in Deposits /\ at[d] > 0 /\ receipt'[d].status = "none"
      BY <1>1, <2>3 DEF Uncredited
    <3>2. d \notin Unallocated(s, to)
      <4> SUFFICES ASSUME d \in Unallocated(s, to) PROVE FALSE
        OBVIOUS
      <4>1. receipt'[d].status = Disposition(d, status[s] \in Ended, refused)
        BY <2>1, <3>1
      <4>2. (status[s] \in Ended) \in BOOLEAN
        OBVIOUS
      <4> QED
        BY <2>2, <3>1, <4>1, <4>2
    <3>3. receipt'[d] = receipt[d]
      BY <2>1, <3>1, <3>2
    <3> QED
      BY <3>1, <3>2, <3>3 DEF Uncredited
  <2> QED
    BY <2>3
<1>7. CursorsFollow'
  BY <1>1, <1>2, <1>3 DEF ScanInv, CursorsFollow
<1>8. StartsInOrder'
  BY <1>1, <1>4 DEF ScanInv, StartsInOrder
<1>9. ASSUME NEW d \in Uncredited, d \notin Unallocated(s, to), s \in Covering(d),
             cursor[s] < at[d], ~(to < at[d])
      PROVE  \E x \in Covering(d) \ {s} : born[s] < born[x] /\ cursor[x] < at[d]
  <2>1. ~IsTarget(s, d)
    BY <1>1, <1>2, <1>9 DEF Unallocated, Uncredited
  <2>2. PICK x \in Covering(d) \ {s} :
          ~(start[x] < start[s]) /\ ~(start[x] = start[s] /\ born[x] < born[s])
    BY <1>9, <2>1 DEF IsTarget
  <2>3. x \in Asked /\ s \in Asked /\ x \in Sessions
    BY <1>1, <2>2 DEF Covering, Opened, Asked
  <2>4. start[x] \in Nat /\ start[s] \in Nat
    BY <1>1, <2>3, HeadAssumption DEF SessionInv, TypeOK
  <2>5. born[s] < born[x]
    BY <1>1, <1>2, <2>2, <2>3, <2>4
       DEF SessionInv, BornInOrder, ScanInv, StartsInOrder
  <2>6. PICK y \in Covering(d) : (y = x \/ born[x] < born[y]) /\ cursor[y] < at[d]
    BY <1>9, <2>2 DEF ScanInv, LeftToYounger
  <2>7. y \in Sessions /\ born[s] < born[y]
    BY <1>1, <1>2, <2>3, <2>5, <2>6 DEF Covering, Opened
  <2> QED
    BY <1>1, <1>2, <2>6, <2>7
<1>10. LeftToYounger'
  <2> SUFFICES ASSUME NEW d \in Uncredited', NEW t \in Covering(d)
               PROVE  \/ cursor'[t] < at[d]
                      \/ \E u \in Covering(d) : born[t] < born[u] /\ cursor'[u] < at[d]
    BY <1>1, <1>5 DEF LeftToYounger, Uncredited
  <2>1. d \in Uncredited /\ d \notin Unallocated(s, to) /\ t \in Sessions
    BY <1>6 DEF Covering, Opened
  <2>2. PICK v \in Covering(d) : (v = t \/ born[t] < born[v]) /\ cursor[v] < at[d]
    BY <2>1 DEF ScanInv, LeftToYounger
  <2>3. v \in Sessions
    BY DEF Covering, Opened
  <2>4. CASE v # s \/ to < at[d]
    BY <1>1, <1>2, <2>2, <2>3, <2>4
  <2>5. CASE v = s /\ ~(to < at[d])
    <3>1. PICK x \in Covering(d) \ {s} : born[s] < born[x] /\ cursor[x] < at[d]
      BY <1>9, <2>1, <2>2, <2>5
    <3>2. x \in Sessions /\ born[t] < born[x]
      BY <1>1, <1>2, <2>1, <2>2, <2>5, <3>1 DEF Covering, Opened
    <3> QED
      BY <1>2, <3>1, <3>2
  <2> QED
    BY <2>4, <2>5
<1> QED
  BY <1>7, <1>8, <1>10 DEF ScanInv

\* Closings, claims and the router's commits move no scan.
LEMMA ScanStep == SessionInv /\ ScanInv /\ [Next]_vars => ScanInv'
PROOF
<1> SUFFICES ASSUME SessionInv, ScanInv, [Next]_vars PROVE ScanInv'
  OBVIOUS
<1>1. ASSUME NEW s \in Sessions, Expire(s) \/ Cancel(s) PROVE ScanInv'
  <2>1. /\ UNCHANGED <<head, at, window, born, start, cursor, receipt>>
        /\ status[s] \in Active /\ status'[s] \in Ended
        /\ \A t \in Sessions \ {s} : status'[t] = status[t]
    BY <1>1 DEF Expire, Cancel, SessionInv, TypeOK, Active, Ended
  <2> QED
    BY <2>1, ScanUntouched DEF Opened, Asked, Uncredited, Active, Ended
<1>2. ASSUME NEW d \in Deposits, Link(d) \/ Refuse(d) \/ Settle(d) PROVE ScanInv'
  <2>1. receipt[d].status # "none"
    BY <1>2 DEF Link, Refuse, Settle
  <2>2. PICK new \in {"ready", "routing", "review", "recovery"} : Refreshed(d, new)
    BY <1>2 DEF Link, Refuse, Settle
  <2> DEFINE s == receipt[d].session
  <2>3. s \in Sessions
    BY <2>1 DEF SessionInv, ReceiptsHaveSessions
  <2>4. /\ UNCHANGED <<head, at, window, born, start, cursor>>
        /\ receipt' = [receipt EXCEPT ![d].status = new]
    BY <2>2 DEF Refreshed
  <2>5. \/ UNCHANGED status
        \/ status[s] \in Active /\ status' = [status EXCEPT ![s] = Effective(s, receipt')]
    BY <2>2 DEF Refreshed
  <2>6. /\ \A t \in Sessions \ {s} : status'[t] = status[t]
        /\ status'[s] = status[s] \/ {status[s], status'[s]} \subseteq Active \cup Ended
    BY <2>3, <2>5, EffectiveValues DEF SessionInv, TypeOK, Ended
  <2>7. Opened' = Opened /\ Asked' = Asked
    BY <2>3, <2>6 DEF Opened, Asked, Active, Ended
  <2>8. Uncredited' \subseteq Uncredited
    BY <2>1, <2>4 DEF Uncredited, SessionInv, TypeOK
  <2>9. \A t \in Sessions : status'[t] \in {"none", "asked"} => status[t] = status'[t]
    BY <2>3, <2>6 DEF Active, Ended
  <2> QED
    BY <2>4, <2>7, <2>8, <2>9, ScanUntouched
<1>3. ASSUME NEW w \in Workers, (\E s \in Sessions : Claim(w, s)) \/ Abandon(w)
      PROVE  ScanInv'
  BY <1>3, ScanUntouched DEF Claim, Abandon, Opened, Asked, Uncredited
<1>4. CASE UNCHANGED vars
  BY <1>4, ScanUntouched DEF vars, Opened, Asked, Uncredited
<1> QED
  BY <1>1, <1>2, <1>3, <1>4, ScanAsk, ScanOpen, ScanElapse, ScanMine, ScanPersist
     DEF Next

\* Every uncredited deposit that an observed session covers lies ahead of the
\* cursor of one of them, for all interleavings of openings, closings and
\* scans of any number of sessions over one address.
THEOREM NothingIsLeftBehind == Spec => []NothingIsPassedOver
PROOF
<1>1. LeftToYounger => NothingIsPassedOver
  BY DEF LeftToYounger, NothingIsPassedOver, Uncredited
<1>2. SessionInv /\ ScanInv /\ [Next]_vars => (SessionInv /\ ScanInv)'
  BY StepKeeps, ScanStep
<1> QED
  BY <1>1, <1>2, InitInvariant, ScanInit, PTL DEF Spec, ScanInv
=============================================================================

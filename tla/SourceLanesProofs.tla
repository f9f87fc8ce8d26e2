-------------------------- MODULE SourceLanesProofs --------------------------
(***************************************************************************)
(* Proofs about SourceLanes for every set of lanes, requests and protocols *)
(* and every number of attempts.                                           *)
(***************************************************************************)
EXTENDS SourceLanes, TLAPS

USE AttemptAssumption, LaneAssumption, ProtocolAssumption

Rows == [Lanes -> [Numbers -> Row]]

\* Every attempt but a lane's last is proven not to have executed.
InOrder(all) ==
  \A l \in Lanes : \A n, m \in Numbers :
    n < m /\ all[l][m].outcome # "none" => all[l][n].receipt = "failed"

\* A decided receipt belongs to an attempt that may have been broadcast.
Decided(all) ==
  \A l \in Lanes, n \in Numbers :
    /\ all[l][n].outcome = "none" => all[l][n] = NoAttempt
    /\ all[l][n].receipt # "none" =>
         /\ all[l][n].outcome \in {"submitted", "ambiguous"}
         /\ all[l][n].reference = "chain"

RowsShape == InOrder(attempts) /\ Decided(attempts)

\* Rows and transfers agree.
FateShape ==
  \A l \in Lanes, n \in Numbers :
    /\ posts[l][n] = IF fate[l][n] = "absent" THEN 0 ELSE 1
    /\ attempts[l][n].outcome = "none" => fate[l][n] = "absent"
    /\ attempts[l][n].receipt = "finalized" => fate[l][n] = "landed"
    /\ attempts[l][n].receipt = "failed" => fate[l][n] \notin {"sent", "landed"}
    /\ attempts[l][n].outcome \in {"failed", "cancelled"} =>
         fate[l][n] \in {"absent", "dropped"}
    /\ protocol[l] # "client" /\ fate[l][n] # "absent" =>
         attempts[l][n].outcome \in {"ambiguous", "failed"}

\* An attempt without a decision: the last of its lane.
Waits(l, n) ==
  attempts[l][n].outcome # "none" /\ attempts[l][n].receipt = "none"

Admitted(r, l, n) ==
  request[r].pc = "admitted" /\ request[r].lane = l /\ request[r].attempt = n

\* An admitted request is alone with an attempt that is not sent yet.
RequestShape ==
  \A r \in Requests, l \in Lanes, n \in Numbers : Admitted(r, l, n) =>
    /\ protocol[l] \in ServerOwned
    /\ attempts[l][n].outcome = "ambiguous"
    /\ attempts[l][n].receipt = "none"
    /\ fate[l][n] = "absent"
    /\ \A s \in Requests : Admitted(s, l, n) => s = r

\* A browser that may still send has the waiting attempt of its lane.
WalletShape ==
  \A l \in Lanes :
    /\ protocol[l] \in ServerOwned => wallet[l] = "idle"
    /\ wallet[l] \in {"prompt", "acked"} => \E n \in Numbers : Waits(l, n)
    /\ wallet[l] = "acked" => protocol[l] = "solana"
    /\ \A n \in Numbers : Waits(l, n) =>
         /\ wallet[l] \in {"prompt", "acked", "declined"} =>
              fate[l][n] = "absent"
         /\ wallet[l] = "prompt" /\ protocol[l] = "client" =>
              attempts[l][n].outcome \in {"started", "ambiguous"}
         /\ wallet[l] = "acked" => attempts[l][n].outcome = "ambiguous"

LaneInv == TypeOK /\ RowsShape /\ FateShape /\ RequestShape /\ WalletShape

-----------------------------------------------------------------------------
LEMMA NumbersAreNat == Numbers \subseteq Nat
BY DEF Numbers

\* What SetRow does, row by row.
LEMMA RowIsSet ==
  ASSUME attempts \in Rows, NEW l \in Lanes, NEW n \in Numbers,
         NEW row \in Row, SetRow(l, n, row)
  PROVE  /\ attempts' \in Rows
         /\ \A k \in Lanes, m \in Numbers :
              attempts'[k][m] = IF k = l /\ m = n THEN row ELSE attempts[k][m]
BY DEF SetRow, Rows

LEMMA FateIsSet ==
  ASSUME TypeOK, NEW l \in Lanes, NEW n \in Numbers,
         NEW f \in {"sent", "landed", "reverted", "dropped"}, SetFate(l, n, f)
  PROVE  /\ fate' \in [Lanes -> [Numbers -> {"absent", "sent", "landed",
                                             "reverted", "dropped"}]]
         /\ \A k \in Lanes, m \in Numbers :
              fate'[k][m] = IF k = l /\ m = n THEN f ELSE fate[k][m]
BY DEF SetFate, TypeOK

CountPost(l, n) == posts' = [posts EXCEPT ![l][n] = @ + 1]

LEMMA PostIsCounted ==
  ASSUME TypeOK, NEW l \in Lanes, NEW n \in Numbers, CountPost(l, n)
  PROVE  /\ posts' \in [Lanes -> [Numbers -> Nat]]
         /\ \A k \in Lanes, m \in Numbers :
              posts'[k][m] = IF k = l /\ m = n THEN posts[k][m] + 1
                             ELSE posts[k][m]
BY DEF CountPost, TypeOK

\* An attempt without a failed receipt is the last of its lane.
LEMMA WaitIsLast ==
  ASSUME TypeOK, RowsShape, NEW l \in Lanes, NEW n \in Numbers,
         attempts[l][n].outcome # "none", attempts[l][n].receipt # "failed"
  PROVE  /\ n \in Latest(attempts[l])
         /\ \A m \in Numbers \ {n} : \/ attempts[l][m].outcome = "none"
                                     \/ attempts[l][m].receipt = "failed"
<1>1. \A m \in Numbers : attempts[l][m].outcome # "none" => m <= n
  BY NumbersAreNat DEF RowsShape, InOrder
<1>2. n \in Latest(attempts[l])
  BY <1>1 DEF Latest, Made
<1>3. \A m \in Numbers \ {n} : attempts[l][m].outcome # "none" => m < n
  BY <1>1, NumbersAreNat
<1> QED
  BY <1>2, <1>3 DEF RowsShape, InOrder

\* A lane that may be retried has nothing but failed attempts.
LEMMA RetryableRows ==
  ASSUME TypeOK, RowsShape, NEW l \in Lanes, Retryable(attempts[l])
  PROVE  \A n \in Numbers : \/ attempts[l][n].outcome = "none"
                            \/ attempts[l][n].receipt = "failed"
<1> SUFFICES ASSUME NEW n \in Numbers, attempts[l][n].outcome # "none",
                    attempts[l][n].receipt # "failed"
             PROVE  FALSE
  OBVIOUS
<1> QED
  BY WaitIsLast DEF Retryable

\* A stopped lane has a failed or cancelled attempt, and the reverse.
LEMMA StoppedRow ==
  ASSUME TypeOK, RowsShape, NEW l \in Lanes
  PROVE  Stopped(attempts[l]) <=>
           \E n \in Numbers : attempts[l][n].outcome \in {"failed", "cancelled"}
<1>1. ASSUME NEW n \in Numbers, attempts[l][n].outcome \in {"failed", "cancelled"}
       PROVE Stopped(attempts[l])
  <2>1. attempts[l][n].receipt = "none"
    BY <1>1 DEF RowsShape, Decided
  <2> QED
    BY <1>1, <2>1, WaitIsLast DEF Stopped
<1>2. ASSUME Stopped(attempts[l])
       PROVE \E n \in Numbers : attempts[l][n].outcome \in {"failed", "cancelled"}
  BY <1>2 DEF Stopped, Latest, Made
<1> QED
  BY <1>1, <1>2

-----------------------------------------------------------------------------
(* Types.                                                                  *)

RequestType ==
  /\ request \in [Requests -> [pc : {"idle", "admitted", "posted"},
                               lane : Lanes \cup {NoLane}, attempt : Numbers]]
  /\ \A r \in Requests : request[r].pc # "idle" => request[r].lane \in Lanes

LEMMA RowsAreTyped ==
  ASSUME TypeOK
  PROVE  attempts \in Rows /\ \A l \in Lanes, n \in Numbers : attempts[l][n] \in Row
BY DEF TypeOK, Rows

\* The rows that the actions write.
LEMMA WrittenRows ==
  ASSUME NEW row \in Row
  PROVE  /\ [row EXCEPT !.lease = FALSE] \in Row
         /\ \A o \in Outcomes : /\ [row EXCEPT !.outcome = o] \in Row
                               /\ [row EXCEPT !.outcome = o, !.lease = FALSE] \in Row
         /\ \A f \in {"none", "handle", "chain"} :
              /\ [row EXCEPT !.reference = f] \in Row
              /\ \A o \in Outcomes :
                   [row EXCEPT !.outcome = o, !.reference = f] \in Row
         /\ \A f \in {"none", "failed", "finalized"} :
              [row EXCEPT !.receipt = f] \in Row
BY DEF Row

LEMMA NewRows ==
  /\ NoAttempt \in Row /\ Started \in Row /\ Cancelled \in Row
  /\ \A b \in BOOLEAN : [Started EXCEPT !.lease = b] \in Row
BY DEF NoAttempt, Started, Cancelled, Row, Outcomes

LEMMA ReducedType ==
  ASSUME TypeOK, NEW all, NEW mv, NEW man, Reduced(all, mv, man)
  PROVE  /\ reservation' \in [Lanes -> {"active", "released"}]
         /\ \A l \in Lanes : /\ reservation[l] = "released" => reservation'[l] = "released"
                             /\ reservation'[l] = "released" =>
                                  reservation[l] = "released" \/ l \in Freed(all, mv, man)
BY DEF Reduced, TypeOK

LEMMA FinishedType ==
  ASSUME TypeOK, NEW r \in Requests, Finished(r)
  PROVE  /\ RequestType'
         /\ \A s \in Requests : request'[s] = IF s = r THEN IdleRequest ELSE request[s]
<1>1. \A s \in Requests : request'[s] = IF s = r THEN IdleRequest ELSE request[s]
  BY DEF Finished, TypeOK
<1>2. request' \in [Requests -> [pc : {"idle", "admitted", "posted"},
                                lane : Lanes \cup {NoLane}, attempt : Numbers]]
  BY DEF Finished, IdleRequest, TypeOK, Numbers
<1> QED
  BY <1>1, <1>2 DEF RequestType, IdleRequest, TypeOK

-----------------------------------------------------------------------------
(* Each action preserves the invariant.                                    *)

\* A waiting row may be rewritten or decided: it is the last of its lane.
LEMMA WaitingRowChanges ==
  ASSUME TypeOK, RowsShape, NEW l \in Lanes, NEW n \in Numbers, NEW row \in Row,
         Waits(l, n), row.outcome # "none",
         row.receipt # "none" => /\ row.outcome \in {"submitted", "ambiguous"}
                                 /\ row.reference = "chain",
         SetRow(l, n, row)
  PROVE  RowsShape'
<1>1. \A k \in Lanes, m \in Numbers :
        attempts'[k][m] = IF k = l /\ m = n THEN row ELSE attempts[k][m]
  BY RowIsSet, RowsAreTyped
<1>2. \A m \in Numbers \ {n} : \/ attempts[l][m].outcome = "none"
                              \/ attempts[l][m].receipt = "failed"
  BY WaitIsLast DEF Waits
<1>3. \A m \in Numbers : attempts[l][m].outcome # "none" => m <= n
  BY WaitIsLast, NumbersAreNat DEF Waits, Latest, Made
<1>4. InOrder(attempts)'
  <2> SUFFICES ASSUME NEW k \in Lanes, NEW i \in Numbers, NEW j \in Numbers,
                      i < j, attempts'[k][j].outcome # "none"
               PROVE  attempts'[k][i].receipt = "failed"
    BY DEF InOrder
  <2>1. attempts[k][j].outcome # "none"
    BY <1>1 DEF Waits
  <2>2. ~(k = l /\ i = n)
    BY <2>1, <1>3, NumbersAreNat
  <2> QED
    BY <1>1, <2>1, <2>2 DEF RowsShape, InOrder
<1>5. Decided(attempts)'
  BY <1>1 DEF RowsShape, Decided
<1> QED
  BY <1>4, <1>5 DEF RowsShape

LEMMA PostStep ==
  ASSUME LaneInv, NEW r \in Requests, Post(r)
  PROVE  LaneInv'
<1> DEFINE l == request[r].lane
           n == request[r].attempt
<1>1. l \in Lanes /\ n \in Numbers /\ Admitted(r, l, n)
  BY DEF LaneInv, TypeOK, Post, Admitted
<1>2. /\ attempts[l][n].outcome = "ambiguous" /\ attempts[l][n].receipt = "none"
      /\ fate[l][n] = "absent" /\ protocol[l] \in ServerOwned
  BY <1>1 DEF LaneInv, RequestShape
<1> HIDE DEF l, n
<1>3. /\ posts' \in [Lanes -> [Numbers -> Nat]]
      /\ \A k \in Lanes, m \in Numbers :
           posts'[k][m] = IF k = l /\ m = n THEN posts[k][m] + 1 ELSE posts[k][m]
  <2>1. TypeOK /\ CountPost(l, n)
    BY DEF LaneInv, Post, CountPost, l, n
  <2> QED
    BY <1>1, <2>1, PostIsCounted
<1>4. /\ fate' \in [Lanes -> [Numbers -> {"absent", "sent", "landed", "reverted",
                                          "dropped"}]]
      /\ \A k \in Lanes, m \in Numbers :
           fate'[k][m] = IF k = l /\ m = n THEN "sent" ELSE fate[k][m]
  BY <1>1, FateIsSet DEF LaneInv, Post, l, n
<1>5. /\ request' = [request EXCEPT ![r].pc = "posted"]
      /\ UNCHANGED <<protocol, clock, rows, wallet>>
  BY DEF Post
<1>6. TypeOK'
  <2>1. request' \in [Requests -> [pc : {"idle", "admitted", "posted"},
                                  lane : Lanes \cup {NoLane}, attempt : Numbers]]
    <3>1. [request[r] EXCEPT !.pc = "posted"]
             \in [pc : {"idle", "admitted", "posted"},
                 lane : Lanes \cup {NoLane}, attempt : Numbers]
      BY DEF LaneInv, TypeOK
    <3>2. request' = [request EXCEPT ![r] = [request[r] EXCEPT !.pc = "posted"]]
      BY <1>5
    <3> QED
      BY <3>1, <3>2 DEF LaneInv, TypeOK
  <2>2. \A s \in Requests : request'[s].pc # "idle" => request'[s].lane \in Lanes
    BY <1>1, <1>5 DEF LaneInv, TypeOK, Admitted
  <2> QED
    BY <2>1, <2>2, <1>3, <1>4, <1>5 DEF LaneInv, TypeOK, rows
<1>7. RowsShape'
  BY <1>5 DEF LaneInv, RowsShape, InOrder, Decided, rows
<1>8. FateShape'
  BY <1>1, <1>2, <1>3, <1>4, <1>5 DEF LaneInv, FateShape, rows
<1>9. RequestShape'
  <2> SUFFICES ASSUME NEW s \in Requests, NEW k \in Lanes, NEW m \in Numbers,
                      Admitted(s, k, m)'
               PROVE  /\ ~(k = l /\ m = n)
                      /\ Admitted(s, k, m)
                      /\ \A t \in Requests : Admitted(t, k, m)' => Admitted(t, k, m)
    BY <1>4, <1>5 DEF LaneInv, RequestShape, rows
  <2>1. \A t \in Requests : Admitted(t, k, m)' => t # r /\ Admitted(t, k, m)
    BY <1>5 DEF Admitted, LaneInv, TypeOK
  <2> QED
    BY <2>1, <1>1 DEF LaneInv, RequestShape
<1>10. WalletShape'
  BY <1>2, <1>4, <1>5 DEF LaneInv, WalletShape, Waits, rows
<1> QED
  BY <1>6, <1>7, <1>8, <1>9, <1>10 DEF LaneInv

\* The end of a request disturbs nothing but the requests.
LEMMA FinishedStep ==
  ASSUME TypeOK, RequestShape, NEW r \in Requests, Finished(r),
         UNCHANGED <<protocol, fate>>,
         \A l \in Lanes, n \in Numbers :
            /\ attempts'[l][n].outcome = attempts[l][n].outcome
            /\ attempts'[l][n].receipt = attempts[l][n].receipt
  PROVE  RequestShape'
<1>1. \A s \in Requests, l \in Lanes, n \in Numbers :
        Admitted(s, l, n)' => Admitted(s, l, n)
  BY FinishedType DEF Admitted, IdleRequest
<1> QED
  BY <1>1 DEF RequestShape

LEMMA RequestDiesStep ==
  ASSUME LaneInv, NEW r \in Requests, RequestDies(r)
  PROVE  LaneInv'
<1>1. UNCHANGED <<protocol, clock, rows, wallet, chain>> /\ Finished(r)
  BY DEF RequestDies
<1>2. TypeOK'
  BY <1>1, FinishedType DEF LaneInv, TypeOK, RequestType, rows, chain
<1>3. RowsShape' /\ FateShape' /\ WalletShape'
  BY <1>1 DEF LaneInv, RowsShape, InOrder, Decided, FateShape, WalletShape, Waits,
     rows, chain
<1>4. RequestShape'
  BY <1>1, FinishedStep DEF LaneInv, rows, chain
<1> QED
  BY <1>2, <1>3, <1>4 DEF LaneInv

\* Rows may change around the requests that still have to post.
LEMMA RequestsKept ==
  ASSUME RequestShape, UNCHANGED <<protocol, request>>,
         \A r \in Requests, l \in Lanes, n \in Numbers : Admitted(r, l, n) =>
            /\ attempts'[l][n].outcome = attempts[l][n].outcome
            /\ attempts'[l][n].receipt = attempts[l][n].receipt
            /\ fate'[l][n] = fate[l][n]
  PROVE  RequestShape'
<1>1. \A r \in Requests, l \in Lanes, n \in Numbers :
        Admitted(r, l, n)' <=> Admitted(r, l, n)
  BY DEF Admitted
<1> QED
  BY <1>1 DEF RequestShape

LEMMA ReplyStep ==
  ASSUME LaneInv, NEW r \in Requests, Reply(r)
  PROVE  LaneInv'
<1> DEFINE l == request[r].lane
           n == request[r].attempt
<1>1. /\ Finished(r)
      /\ UNCHANGED <<protocol, clock, reservation, moved, manual, wallet, chain>>
  BY DEF Reply
<1>2. l \in Lanes /\ n \in Numbers
  BY DEF Reply, LaneInv, TypeOK
<1>3. CASE attempts' = attempts
  <2>1. TypeOK'
    BY <1>1, <1>3, FinishedType DEF LaneInv, TypeOK, RequestType, chain
  <2>2. RowsShape' /\ FateShape' /\ WalletShape'
    BY <1>1, <1>3 DEF LaneInv, RowsShape, InOrder, Decided, FateShape, WalletShape,
       Waits, chain
  <2>3. RequestShape'
    BY <1>1, <1>3, FinishedStep DEF LaneInv, chain
  <2> QED
    BY <2>1, <2>2, <2>3 DEF LaneInv
<1>4. CASE attempts' # attempts
  <2> HIDE DEF l, n
  <2>1. PICK ref \in {"handle", "chain"} :
          /\ attempts[l][n].outcome = "ambiguous"
          /\ attempts[l][n].reference = "none"
          /\ SetRow(l, n, [attempts[l][n] EXCEPT !.reference = ref])
    BY <1>4 DEF Reply, l, n
  <2> DEFINE row == [attempts[l][n] EXCEPT !.reference = ref]
  <2>2. row \in Row
    BY <1>2, RowsAreTyped, WrittenRows DEF LaneInv
  <2>3. row.outcome = "ambiguous" /\ row.receipt = attempts[l][n].receipt
    BY <1>2, <2>1, RowsAreTyped DEF LaneInv, Row
  <2>4. attempts[l][n].receipt = "none"
    BY <1>2, <2>1 DEF LaneInv, RowsShape, Decided
  <2>5. SetRow(l, n, row)
    BY <2>1
  <2> HIDE DEF row
  <2>6. /\ attempts' \in Rows
        /\ \A k \in Lanes, m \in Numbers :
             attempts'[k][m] = IF k = l /\ m = n THEN row ELSE attempts[k][m]
    BY <1>2, <2>2, <2>5, RowIsSet, RowsAreTyped DEF LaneInv
  <2>7. TypeOK'
    BY <1>1, <2>6, FinishedType DEF LaneInv, TypeOK, RequestType, chain, Rows
  <2>8. RowsShape'
    BY <1>2, <2>1, <2>2, <2>3, <2>4, <2>5, WaitingRowChanges DEF LaneInv, Waits
  <2>9. FateShape'
    BY <1>1, <1>2, <2>1, <2>3, <2>6 DEF LaneInv, FateShape, chain
  <2>10. RequestShape'
    BY <1>1, <2>1, <2>3, <2>6, FinishedStep DEF LaneInv, chain
  <2>11. WalletShape'
    BY <1>1, <2>1, <2>3, <2>6 DEF LaneInv, WalletShape, Waits, chain
  <2> QED
    BY <2>7, <2>8, <2>9, <2>10, <2>11 DEF LaneInv
<1> QED
  BY <1>3, <1>4

LEMMA AdmitStep ==
  ASSUME LaneInv, NEW r \in Requests, NEW l \in Lanes, NEW n \in Numbers,
         Admit(r, l, n)
  PROVE  LaneInv'
<1>1. /\ UNCHANGED <<protocol, clock, reservation, moved, manual, wallet, chain>>
      /\ request[r].pc = "idle" /\ protocol[l] \in ServerOwned
      /\ attempts[l][n].outcome = "started"
      /\ request' = [request EXCEPT ![r] = [pc |-> "admitted", lane |-> l,
                                            attempt |-> n]]
  BY DEF Admit, Prepared
<1> DEFINE row == [attempts[l][n] EXCEPT !.outcome = "ambiguous",
                     !.reference = IF protocol[l] = "safe" THEN "chain"
                                   ELSE "none"]
<1>2. row \in Row
  BY RowsAreTyped, WrittenRows DEF LaneInv, Outcomes
<1>3. row.outcome = "ambiguous" /\ row.receipt = attempts[l][n].receipt
  BY RowsAreTyped DEF LaneInv, Row
<1>4. SetRow(l, n, row)
  BY DEF Admit
<1>5. attempts[l][n].receipt = "none" /\ fate[l][n] = "absent"
  BY <1>1 DEF LaneInv, RowsShape, Decided, FateShape, ServerOwned
<1> HIDE DEF row
<1>6. /\ attempts' \in Rows
      /\ \A k \in Lanes, m \in Numbers :
           attempts'[k][m] = IF k = l /\ m = n THEN row ELSE attempts[k][m]
  BY <1>2, <1>4, RowIsSet, RowsAreTyped DEF LaneInv
<1>7. \A s \in Requests : request'[s] = IF s = r
        THEN [pc |-> "admitted", lane |-> l, attempt |-> n] ELSE request[s]
  BY <1>1 DEF LaneInv, TypeOK
<1>8. TypeOK'
  <2>1. request' \in [Requests -> [pc : {"idle", "admitted", "posted"},
                                  lane : Lanes \cup {NoLane}, attempt : Numbers]]
    BY <1>1 DEF LaneInv, TypeOK
  <2>2. \A s \in Requests : request'[s].pc # "idle" => request'[s].lane \in Lanes
    <3>1. request'[r].lane = l
      BY <1>7
    <3>2. \A s \in Requests \ {r} : request'[s] = request[s]
      BY <1>7
    <3> QED
      BY <3>1, <3>2 DEF LaneInv, TypeOK
  <2> QED
    BY <1>1, <1>6, <2>1, <2>2 DEF LaneInv, TypeOK, chain, Rows
<1>9. RowsShape'
  BY <1>1, <1>2, <1>3, <1>4, <1>5, WaitingRowChanges DEF LaneInv, Waits
<1>10. FateShape'
  BY <1>1, <1>3, <1>5, <1>6 DEF LaneInv, FateShape, chain
<1>11. RequestShape'
  <2>1. \A s \in Requests : ~Admitted(s, l, n)
    BY <1>1 DEF LaneInv, RequestShape
  <2>2. \A s \in Requests, k \in Lanes, m \in Numbers : Admitted(s, k, m)' =>
          \/ s = r /\ k = l /\ m = n
          \/ s # r /\ ~(k = l /\ m = n) /\ Admitted(s, k, m)
    BY <1>7, <2>1 DEF Admitted
  <2>3. \A s \in Requests : s # r => ~Admitted(s, l, n)'
    BY <2>2
  <2> SUFFICES ASSUME NEW s \in Requests, NEW k \in Lanes, NEW m \in Numbers,
                      Admitted(s, k, m)'
               PROVE  /\ protocol[k] \in ServerOwned
                      /\ attempts'[k][m].outcome = "ambiguous"
                      /\ attempts'[k][m].receipt = "none"
                      /\ fate[k][m] = "absent"
                      /\ \A t \in Requests : Admitted(t, k, m)' => t = s
    BY <1>1 DEF RequestShape, chain
  <2>4. CASE s = r /\ k = l /\ m = n
    BY <2>3, <2>4, <1>1, <1>3, <1>5, <1>6
  <2>5. CASE s # r /\ ~(k = l /\ m = n) /\ Admitted(s, k, m)
    BY <2>2, <2>5, <1>6 DEF LaneInv, RequestShape
  <2> QED
    BY <2>2, <2>4, <2>5
<1>12. WalletShape'
  BY <1>1, <1>3, <1>5, <1>6 DEF LaneInv, WalletShape, Waits, chain
<1> QED
  BY <1>8, <1>9, <1>10, <1>11, <1>12 DEF LaneInv

\* An attempt that is written by the browser or the worker, but by no request.
LEMMA RowStep ==
  ASSUME LaneInv, NEW l \in Lanes, NEW n \in Numbers, NEW row \in Row,
         SetRow(l, n, row), Waits(l, n), row.outcome # "none",
         row.receipt # "none" => /\ row.outcome \in {"submitted", "ambiguous"}
                                 /\ row.reference = "chain",
         row.receipt = "finalized" => fate[l][n] = "landed",
         row.receipt = "failed" => fate[l][n] \notin {"sent", "landed"},
         row.outcome \in {"failed", "cancelled"} => fate[l][n] \in {"absent", "dropped"},
         protocol[l] # "client" /\ fate[l][n] # "absent" =>
            row.outcome \in {"ambiguous", "failed"},
         \A r \in Requests : Admitted(r, l, n) =>
            row.outcome = "ambiguous" /\ row.receipt = "none",
         UNCHANGED <<protocol, request, chain>>
  PROVE  /\ attempts' \in Rows /\ RowsShape' /\ FateShape' /\ RequestShape'
         /\ \A k \in Lanes, m \in Numbers :
              attempts'[k][m] = IF k = l /\ m = n THEN row ELSE attempts[k][m]
<1>1. /\ attempts' \in Rows
      /\ \A k \in Lanes, m \in Numbers :
           attempts'[k][m] = IF k = l /\ m = n THEN row ELSE attempts[k][m]
  BY RowIsSet, RowsAreTyped DEF LaneInv
<1>2. RowsShape'
  BY WaitingRowChanges DEF LaneInv
<1>3. FateShape'
  BY <1>1 DEF LaneInv, FateShape, chain
<1>4. RequestShape'
  BY <1>1, RequestsKept DEF LaneInv, RequestShape, chain
<1> QED
  BY <1>1, <1>2, <1>3, <1>4

LEMMA RegisterStep ==
  ASSUME LaneInv, NEW l \in Lanes, NEW n \in Numbers, Register(l, n)
  PROVE  LaneInv'
<1> DEFINE row == [attempts[l][n] EXCEPT !.outcome = "ambiguous",
                     !.reference = "chain"]
<1>1. /\ UNCHANGED <<protocol, clock, reservation, moved, manual, request, chain>>
      /\ protocol[l] = "solana" /\ wallet[l] = "prompt"
      /\ attempts[l][n].outcome = "started"
      /\ wallet' = [wallet EXCEPT ![l] = "acked"]
      /\ SetRow(l, n, row)
  BY DEF Register
<1>2. row \in Row
  BY RowsAreTyped, WrittenRows DEF LaneInv, Outcomes
<1>3. row.outcome = "ambiguous" /\ row.receipt = attempts[l][n].receipt
  BY RowsAreTyped DEF LaneInv, Row
<1>4. attempts[l][n].receipt = "none" /\ fate[l][n] = "absent"
  BY <1>1 DEF LaneInv, RowsShape, Decided, FateShape
<1> HIDE DEF row
<1>5. /\ attempts' \in Rows /\ RowsShape' /\ FateShape' /\ RequestShape'
      /\ \A k \in Lanes, m \in Numbers :
           attempts'[k][m] = IF k = l /\ m = n THEN row ELSE attempts[k][m]
  BY <1>1, <1>2, <1>3, <1>4, RowStep DEF Waits
<1>6. TypeOK'
  BY <1>1, <1>5 DEF LaneInv, TypeOK, chain, Rows
<1>7. WalletShape'
  <2>1. \A k \in Lanes : wallet'[k] = IF k = l THEN "acked" ELSE wallet[k]
    BY <1>1 DEF LaneInv, TypeOK
  <2>2. \A k \in Lanes, m \in Numbers : Waits(k, m)' <=> Waits(k, m)
    BY <1>1, <1>3, <1>4, <1>5 DEF Waits
  <2>3. Waits(l, n) /\ \A m \in Numbers : Waits(l, m) => m = n
    BY <1>1, <1>4, WaitIsLast DEF Waits, LaneInv
  <2>4. \A k \in Lanes : protocol[k] \in ServerOwned => k # l
    BY <1>1 DEF ServerOwned
  <2>5. \A m \in Numbers : Waits(l, m) =>
          /\ fate'[l][m] = "absent" /\ attempts'[l][m].outcome = "ambiguous"
    BY <1>1, <1>3, <1>4, <1>5, <2>3 DEF chain
  <2>6. \A k \in Lanes \ {l}, m \in Numbers :
          attempts'[k][m] = attempts[k][m] /\ fate'[k][m] = fate[k][m]
    BY <1>1, <1>5 DEF chain
  <2>7. \E m \in Numbers : Waits(l, m)'
    BY <2>2, <2>3
  <2> QED
    BY <1>1, <2>1, <2>2, <2>4, <2>5, <2>6, <2>7 DEF LaneInv, WalletShape
<1> QED
  BY <1>5, <1>6, <1>7 DEF LaneInv

LEMMA WalletSendsStep ==
  ASSUME LaneInv, NEW l \in Lanes, NEW n \in Numbers, WalletSends(l, n)
  PROVE  LaneInv'
<1>1. /\ UNCHANGED <<protocol, clock, rows, request>>
      /\ wallet[l] = IF protocol[l] = "solana" THEN "acked" ELSE "prompt"
      /\ n \in Latest(attempts[l])
      /\ wallet' = [wallet EXCEPT ![l] = "sent"]
      /\ posts' = [posts EXCEPT ![l][n] = @ + 1]
      /\ SetFate(l, n, "sent")
  BY DEF WalletSends
<1>2. Waits(l, n) /\ protocol[l] \notin ServerOwned
  <2>1. PICK m \in Numbers : Waits(l, m)
    BY <1>1 DEF LaneInv, WalletShape
  <2>2. m \in Latest(attempts[l])
    BY <2>1, WaitIsLast DEF Waits, LaneInv
  <2>3. m = n
    BY <1>1, <2>2, NumbersAreNat DEF Latest, Made
  <2> QED
    BY <1>1, <2>1, <2>3 DEF LaneInv, WalletShape
<1>3. /\ fate[l][n] = "absent"
      /\ attempts[l][n].outcome \in {"started", "ambiguous"}
      /\ attempts[l][n].receipt = "none"
      /\ protocol[l] # "client" => attempts[l][n].outcome = "ambiguous"
  <2>1. protocol[l] \in {"solana", "client"}
    BY <1>2 DEF LaneInv, TypeOK, AllProtocols, ServerOwned
  <2>2. wallet[l] \in {"prompt", "acked"} /\ (protocol[l] = "solana" => wallet[l] = "acked")
    BY <1>1
  <2>3. fate[l][n] = "absent" /\ attempts[l][n].receipt = "none"
    BY <1>2, <2>2 DEF LaneInv, WalletShape, Waits
  <2>4. CASE protocol[l] = "solana"
    BY <1>2, <2>2, <2>3, <2>4 DEF LaneInv, WalletShape
  <2>5. CASE protocol[l] = "client"
    BY <1>1, <1>2, <2>3, <2>5 DEF LaneInv, WalletShape
  <2> QED
    BY <2>1, <2>4, <2>5
<1>4. /\ posts' \in [Lanes -> [Numbers -> Nat]]
      /\ \A k \in Lanes, m \in Numbers :
           posts'[k][m] = IF k = l /\ m = n THEN posts[k][m] + 1 ELSE posts[k][m]
  <2>1. TypeOK /\ CountPost(l, n)
    BY <1>1 DEF LaneInv, CountPost
  <2> QED
    BY <2>1, PostIsCounted
<1>5. /\ fate' \in [Lanes -> [Numbers -> {"absent", "sent", "landed", "reverted",
                                          "dropped"}]]
      /\ \A k \in Lanes, m \in Numbers :
           fate'[k][m] = IF k = l /\ m = n THEN "sent" ELSE fate[k][m]
  BY <1>1, FateIsSet DEF LaneInv
<1>6. \A k \in Lanes : wallet'[k] = IF k = l THEN "sent" ELSE wallet[k]
  BY <1>1 DEF LaneInv, TypeOK
<1>7. TypeOK'
  BY <1>1, <1>4, <1>5 DEF LaneInv, TypeOK, rows
<1>8. RowsShape'
  BY <1>1 DEF LaneInv, RowsShape, InOrder, Decided, rows
<1>9. FateShape'
  <2>1. posts'[l][n] = 1 /\ fate'[l][n] = "sent"
    BY <1>3, <1>4, <1>5 DEF LaneInv, FateShape
  <2>2. \A k \in Lanes, m \in Numbers : ~(k = l /\ m = n) =>
          posts'[k][m] = posts[k][m] /\ fate'[k][m] = fate[k][m]
    BY <1>4, <1>5
  <2> SUFFICES ASSUME NEW k \in Lanes, NEW m \in Numbers
               PROVE  FateShape!(k, m)'
    BY DEF FateShape
  <2>3. CASE k = l /\ m = n
    BY <1>1, <1>3, <2>1, <2>3 DEF rows
  <2>4. CASE ~(k = l /\ m = n)
    BY <1>1, <2>2, <2>4 DEF LaneInv, FateShape, rows
  <2> QED
    BY <2>3, <2>4
<1>10. RequestShape'
  <2>1. \A r \in Requests : ~Admitted(r, l, n)
    BY <1>2 DEF LaneInv, RequestShape
  <2> QED
    BY <1>1, <1>5, <2>1, RequestsKept DEF LaneInv, rows
<1>11. WalletShape'
  BY <1>1, <1>2, <1>5, <1>6 DEF LaneInv, WalletShape, Waits, rows
<1> QED
  BY <1>7, <1>8, <1>9, <1>10, <1>11 DEF LaneInv

LEMMA WalletDeclinesStep ==
  ASSUME LaneInv, NEW l \in Lanes, WalletDeclines(l)
  PROVE  LaneInv'
<1>1. UNCHANGED <<protocol, clock, rows, request, chain>>
  BY DEF WalletDeclines
<1>2. wallet[l] = "prompt" /\ wallet' = [wallet EXCEPT ![l] = "declined"]
  BY DEF WalletDeclines
<1>3. \A k \in Lanes : wallet'[k] = IF k = l THEN "declined" ELSE wallet[k]
  BY <1>2 DEF LaneInv, TypeOK
<1>4. TypeOK'
  BY <1>1, <1>2 DEF LaneInv, TypeOK, rows, chain
<1>5. RowsShape' /\ FateShape'
  BY <1>1 DEF LaneInv, RowsShape, InOrder, Decided, FateShape, rows, chain
<1>6. RequestShape'
  BY <1>1, RequestsKept DEF LaneInv, rows, chain
<1>7. WalletShape'
  BY <1>1, <1>2, <1>3 DEF LaneInv, WalletShape, Waits, rows, chain
<1> QED
  BY <1>4, <1>5, <1>6, <1>7 DEF LaneInv

LEMMA WalletKept ==
  ASSUME LaneInv, NEW l \in Lanes, NEW n \in Numbers, NEW row \in Row,
         Waits(l, n), row.outcome # "none", UNCHANGED <<protocol, wallet, chain>>,
         \A k \in Lanes, m \in Numbers :
           attempts'[k][m] = IF k = l /\ m = n THEN row ELSE attempts[k][m],
         wallet[l] \in {"prompt", "acked"} => row.receipt = "none",
         wallet[l] = "prompt" /\ protocol[l] = "client" =>
            row.outcome \in {"started", "ambiguous"},
         wallet[l] = "acked" => row.outcome = "ambiguous"
  PROVE  WalletShape'
<1>1. \A k \in Lanes, m \in Numbers : Waits(k, m)' => Waits(k, m)
  BY DEF Waits
<1>2. wallet[l] \in {"prompt", "acked"} => Waits(l, n)'
  BY DEF Waits
<1>3. \A k \in Lanes \ {l}, m \in Numbers : Waits(k, m)' <=> Waits(k, m)
  BY DEF Waits
<1> SUFFICES ASSUME NEW k \in Lanes PROVE WalletShape!(k)'
  BY DEF WalletShape
<1>4. CASE k = l
  BY <1>1, <1>2, <1>4 DEF LaneInv, WalletShape, Waits, chain
<1>5. CASE k # l
  BY <1>3, <1>5 DEF LaneInv, WalletShape, chain
<1> QED
  BY <1>4, <1>5

LEMMA ReportSubmittedStep ==
  ASSUME LaneInv, NEW l \in Lanes, NEW n \in Numbers, ReportSubmitted(l, n)
  PROVE  LaneInv'
<1> DEFINE row == [attempts[l][n] EXCEPT !.outcome = "submitted",
                     !.reference = "chain"]
<1>1. /\ UNCHANGED <<protocol, clock, reservation, moved, manual, request, wallet,
                     chain>>
      /\ protocol[l] = "client" /\ wallet[l] = "sent"
      /\ attempts[l][n].outcome \in {"started", "ambiguous"}
      /\ attempts[l][n].reference = "none" \/ attempts[l][n].outcome = "started"
      /\ SetRow(l, n, row)
  BY DEF ReportSubmitted
<1>2. row \in Row
  BY RowsAreTyped, WrittenRows DEF LaneInv, Outcomes
<1>3. row.outcome = "submitted" /\ row.receipt = attempts[l][n].receipt
  BY RowsAreTyped DEF LaneInv, Row
<1>4. attempts[l][n].receipt = "none"
  BY <1>1 DEF LaneInv, RowsShape, Decided
<1> HIDE DEF row
<1>5. \A r \in Requests : ~Admitted(r, l, n)
  BY <1>1 DEF LaneInv, RequestShape, ServerOwned
<1>6. /\ attempts' \in Rows /\ RowsShape' /\ FateShape' /\ RequestShape'
      /\ \A k \in Lanes, m \in Numbers :
           attempts'[k][m] = IF k = l /\ m = n THEN row ELSE attempts[k][m]
  BY <1>1, <1>2, <1>3, <1>4, <1>5, RowStep DEF Waits
<1>7. TypeOK'
  BY <1>1, <1>6 DEF LaneInv, TypeOK, chain, Rows
<1>8. WalletShape'
  BY <1>1, <1>2, <1>3, <1>4, <1>6, WalletKept DEF Waits
<1> QED
  BY <1>6, <1>7, <1>8 DEF LaneInv

LEMMA ReportUnknownStep ==
  ASSUME LaneInv, NEW l \in Lanes, NEW n \in Numbers, ReportUnknown(l, n)
  PROVE  LaneInv'
<1> DEFINE row == [attempts[l][n] EXCEPT !.outcome = "ambiguous"]
<1>1. /\ UNCHANGED <<protocol, clock, reservation, moved, manual, request, wallet,
                     chain>>
      /\ protocol[l] = "client" /\ wallet[l] \in {"prompt", "sent"}
      /\ attempts[l][n].outcome = "started"
      /\ SetRow(l, n, row)
  BY DEF ReportUnknown
<1>2. row \in Row
  BY RowsAreTyped, WrittenRows DEF LaneInv, Outcomes
<1>3. row.outcome = "ambiguous" /\ row.receipt = attempts[l][n].receipt
  BY RowsAreTyped DEF LaneInv, Row
<1>4. attempts[l][n].receipt = "none"
  BY <1>1 DEF LaneInv, RowsShape, Decided
<1> HIDE DEF row
<1>5. /\ attempts' \in Rows /\ RowsShape' /\ FateShape' /\ RequestShape'
      /\ \A k \in Lanes, m \in Numbers :
           attempts'[k][m] = IF k = l /\ m = n THEN row ELSE attempts[k][m]
  BY <1>1, <1>2, <1>3, <1>4, RowStep DEF Waits
<1>6. TypeOK'
  BY <1>1, <1>5 DEF LaneInv, TypeOK, chain, Rows
<1>7. WalletShape'
  BY <1>1, <1>2, <1>3, <1>4, <1>5, WalletKept DEF Waits
<1> QED
  BY <1>5, <1>6, <1>7 DEF LaneInv

LEMMA ReportStoppedStep ==
  ASSUME LaneInv, NEW l \in Lanes, NEW n \in Numbers, ReportStopped(l, n)
  PROVE  LaneInv'
<1>1. /\ UNCHANGED <<protocol, clock, moved, manual, request, wallet, chain>>
      /\ protocol[l] \in ServerOwned \/ wallet[l] = "declined"
      /\ attempts[l][n].outcome = "started"
      /\ Reduced(attempts', moved, manual)
  BY DEF ReportStopped
<1>2. PICK outcome \in {"failed", "cancelled"} :
        SetRow(l, n, [attempts[l][n] EXCEPT !.outcome = outcome])
  BY DEF ReportStopped
<1> DEFINE row == [attempts[l][n] EXCEPT !.outcome = outcome]
<1>3. row \in Row
  BY RowsAreTyped, WrittenRows DEF LaneInv, Outcomes
<1>4. row.outcome = outcome /\ row.receipt = attempts[l][n].receipt
  BY RowsAreTyped DEF LaneInv, Row
<1>5. attempts[l][n].receipt = "none"
  BY <1>1 DEF LaneInv, RowsShape, Decided
<1>6. fate[l][n] = "absent"
  BY <1>1, <1>5 DEF LaneInv, FateShape, WalletShape, Waits, ServerOwned
<1>7. \A r \in Requests : ~Admitted(r, l, n)
  BY <1>1 DEF LaneInv, RequestShape
<1>8. SetRow(l, n, row)
  BY <1>2
<1> HIDE DEF row
<1>9. /\ attempts' \in Rows /\ RowsShape' /\ FateShape' /\ RequestShape'
      /\ \A k \in Lanes, m \in Numbers :
           attempts'[k][m] = IF k = l /\ m = n THEN row ELSE attempts[k][m]
  BY <1>1, <1>3, <1>4, <1>5, <1>6, <1>7, <1>8, RowStep DEF Waits
<1>10. TypeOK'
  BY <1>1, <1>9, ReducedType DEF LaneInv, TypeOK, chain, Rows
<1>11. WalletShape'
  BY <1>1, <1>3, <1>4, <1>5, <1>9, WalletKept DEF LaneInv, WalletShape, Waits
<1> QED
  BY <1>9, <1>10, <1>11 DEF LaneInv

LEMMA LeaseLapsesStep ==
  ASSUME LaneInv, NEW l \in Lanes, NEW n \in Numbers, LeaseLapses(l, n)
  PROVE  LaneInv'
<1> DEFINE row == [attempts[l][n] EXCEPT !.lease = FALSE]
<1>1. /\ UNCHANGED <<protocol, clock, reservation, moved, manual, request, wallet,
                     chain>>
      /\ attempts[l][n].outcome = "started"
      /\ SetRow(l, n, row)
  BY DEF LeaseLapses
<1>2. row \in Row
  BY RowsAreTyped, WrittenRows DEF LaneInv
<1>3. /\ row.outcome = attempts[l][n].outcome
      /\ row.receipt = attempts[l][n].receipt
  BY RowsAreTyped DEF LaneInv, Row
<1>4. attempts[l][n].receipt = "none"
  BY <1>1 DEF LaneInv, RowsShape, Decided
<1> HIDE DEF row
<1>5. /\ \A r \in Requests : ~Admitted(r, l, n)
      /\ protocol[l] # "client" => fate[l][n] = "absent"
  BY <1>1 DEF LaneInv, RequestShape, FateShape
<1>6. /\ attempts' \in Rows /\ RowsShape' /\ FateShape' /\ RequestShape'
      /\ \A k \in Lanes, m \in Numbers :
           attempts'[k][m] = IF k = l /\ m = n THEN row ELSE attempts[k][m]
  BY <1>1, <1>2, <1>3, <1>4, <1>5, RowStep DEF Waits
<1>7. TypeOK'
  BY <1>1, <1>6 DEF LaneInv, TypeOK, chain, Rows
<1>8. WalletShape'
  BY <1>1, <1>2, <1>3, <1>4, <1>6, WalletKept DEF LaneInv, WalletShape, Waits
<1> QED
  BY <1>6, <1>7, <1>8 DEF LaneInv

LEMMA ResolveProviderStep ==
  ASSUME LaneInv, NEW l \in Lanes, NEW n \in Numbers, ResolveProvider(l, n)
  PROVE  LaneInv'
<1>1. /\ UNCHANGED <<protocol, clock, reservation, moved, request, wallet, chain>>
      /\ attempts[l][n].outcome = "ambiguous" /\ attempts[l][n].reference = "handle"
  BY DEF ResolveProvider
<1>2. attempts[l][n].receipt = "none"
  BY <1>1 DEF LaneInv, RowsShape, Decided
<1>3. manual' \in BOOLEAN
  BY DEF ResolveProvider, LaneInv, TypeOK
<1>4. PICK row \in Row :
        /\ SetRow(l, n, row) /\ row.receipt = "none"
        /\ \/ row.outcome = "ambiguous"
           \/ row.outcome = "failed" /\ fate[l][n] = "dropped"
  <2> DEFINE found == [attempts[l][n] EXCEPT !.reference = "chain"]
             lost == [attempts[l][n] EXCEPT !.outcome = "failed",
                                            !.reference = "none"]
  <2>1. found \in Row /\ lost \in Row
    BY RowsAreTyped, WrittenRows DEF LaneInv, Outcomes
  <2>2. /\ found.receipt = "none" /\ found.outcome = "ambiguous"
        /\ lost.receipt = "none" /\ lost.outcome = "failed"
    BY <1>1, <1>2, RowsAreTyped DEF LaneInv, Row
  <2>3. \/ SetRow(l, n, found)
        \/ fate[l][n] = "dropped" /\ SetRow(l, n, lost)
    BY DEF ResolveProvider
  <2> QED
    BY <2>1, <2>2, <2>3
<1>5. \A r \in Requests : Admitted(r, l, n) => row.outcome = "ambiguous"
  BY <1>4 DEF LaneInv, RequestShape
<1>6. /\ attempts' \in Rows /\ RowsShape' /\ FateShape' /\ RequestShape'
      /\ \A k \in Lanes, m \in Numbers :
           attempts'[k][m] = IF k = l /\ m = n THEN row ELSE attempts[k][m]
  BY <1>1, <1>2, <1>4, <1>5, RowStep DEF Waits
<1>7. TypeOK'
  BY <1>1, <1>3, <1>6 DEF LaneInv, TypeOK, chain, Rows
<1>8. Waits(l, n)
  BY <1>1, <1>2 DEF Waits
<1>9. wallet[l] \in {"prompt", "acked"} => row.outcome = "ambiguous"
  BY <1>4, <1>8 DEF LaneInv, WalletShape
<1>10. WalletShape'
  BY <1>1, <1>4, <1>6, <1>8, <1>9, WalletKept
<1> QED
  BY <1>6, <1>7, <1>10 DEF LaneInv

LEMMA ReceiptStep ==
  ASSUME LaneInv, NEW l \in Lanes, NEW n \in Numbers, Receipt(l, n)
  PROVE  LaneInv'
<1>1. /\ UNCHANGED <<protocol, clock, manual, request, wallet, chain>>
      /\ attempts[l][n].outcome \in {"submitted", "ambiguous"}
      /\ attempts[l][n].receipt = "none"
      /\ attempts[l][n].reference = "chain"
      /\ Reduced(attempts', moved', manual)
  BY DEF Receipt, Pending
<1>2. moved' \in [Lanes -> BOOLEAN]
  BY DEF Receipt, LaneInv, TypeOK
<1>3. PICK receipt \in {"failed", "finalized"} :
        /\ SetRow(l, n, [attempts[l][n] EXCEPT !.receipt = receipt])
        /\ receipt = "finalized" => fate[l][n] = "landed"
        /\ receipt = "failed" => \/ fate[l][n] \in {"reverted", "dropped"}
                                 \/ /\ fate[l][n] = "absent" /\ wallet[l] = "lapsed"
                                    /\ protocol[l] = "solana"
  BY DEF Receipt, ProvenExpired
<1> DEFINE row == [attempts[l][n] EXCEPT !.receipt = receipt]
<1>4. row \in Row
  BY RowsAreTyped, WrittenRows DEF LaneInv
<1>5. /\ row.outcome = attempts[l][n].outcome
      /\ row.reference = attempts[l][n].reference /\ row.receipt = receipt
  BY RowsAreTyped DEF LaneInv, Row
<1>6. SetRow(l, n, row)
  BY <1>3
<1> HIDE DEF row
<1>7. \A r \in Requests : ~Admitted(r, l, n)
  BY <1>3 DEF LaneInv, RequestShape, ServerOwned
<1>8. protocol[l] # "client" /\ fate[l][n] # "absent" => row.outcome = "ambiguous"
  BY <1>1, <1>5 DEF LaneInv, FateShape
<1>9. Waits(l, n)
  BY <1>1 DEF Waits
<1>10. /\ attempts' \in Rows /\ RowsShape' /\ FateShape' /\ RequestShape'
       /\ \A k \in Lanes, m \in Numbers :
            attempts'[k][m] = IF k = l /\ m = n THEN row ELSE attempts[k][m]
  BY <1>1, <1>3, <1>4, <1>5, <1>6, <1>7, <1>8, <1>9, RowStep
<1>11. TypeOK'
  BY <1>1, <1>2, <1>10, ReducedType DEF LaneInv, TypeOK, chain, Rows
<1>12. wallet[l] \notin {"prompt", "acked"}
  BY <1>3, <1>9 DEF LaneInv, WalletShape
<1>13. WalletShape'
  BY <1>1, <1>4, <1>5, <1>9, <1>10, <1>12, WalletKept
<1> QED
  BY <1>10, <1>11, <1>13 DEF LaneInv

\* The first free number of a lane follows all its attempts.
LEMMA FreeIsNext ==
  ASSUME TypeOK, NEW l \in Lanes, NEW n \in Free(attempts[l])
  PROVE  /\ n \in Numbers /\ attempts[l][n].outcome = "none"
         /\ \A m \in Numbers : attempts[l][m].outcome # "none" <=> m < n
         /\ \A m \in Free(attempts[l]) : m = n
<1>1. n \in Numbers /\ \A m \in Numbers : attempts[l][m].outcome # "none" <=> m < n
  BY DEF Free, Made
<1>2. \A m \in Free(attempts[l]) :
        m \in Numbers /\ \A i \in Numbers : attempts[l][i].outcome # "none" <=> i < m
  BY DEF Free, Made
<1>3. \A m \in Free(attempts[l]) : m = n
  <2> TAKE m \in Free(attempts[l])
  <2>1. ~(n < m) /\ ~(m < n)
    BY <1>1, <1>2, NumbersAreNat
  <2> QED
    BY <1>1, <1>2, <2>1, NumbersAreNat
<1> QED
  BY <1>1, <1>3, NumbersAreNat

\* An attempt is added to lanes where every earlier one has failed.
LEMMA RowsAdded ==
  ASSUME LaneInv, NEW new \in Row, new.outcome \in {"started", "cancelled"},
         new.receipt = "none", UNCHANGED <<protocol, request, chain>>,
         NEW S \in SUBSET Lanes, \A l \in S : Retryable(attempts[l]),
         \A l \in Lanes, n \in Numbers :
            attempts'[l][n] = IF l \in S /\ n \in Free(attempts[l]) THEN new
                              ELSE attempts[l][n]
  PROVE  RowsShape' /\ FateShape' /\ RequestShape'
<1>1. \A l \in Lanes, n \in Numbers :
        \/ attempts'[l][n] = attempts[l][n]
        \/ /\ l \in S /\ n \in Free(attempts[l]) /\ attempts'[l][n] = new
           /\ attempts[l][n].outcome = "none"
  BY FreeIsNext DEF LaneInv
<1>2. InOrder(attempts)'
  <2> SUFFICES ASSUME NEW l \in Lanes, NEW i \in Numbers, NEW j \in Numbers,
                      i < j, attempts'[l][j].outcome # "none"
               PROVE  attempts'[l][i].receipt = "failed"
    BY DEF InOrder
  <2>1. attempts[l][i].receipt = "failed"
    <3>1. CASE attempts'[l][j] = attempts[l][j]
      BY <3>1 DEF LaneInv, RowsShape, InOrder
    <3>2. CASE /\ l \in S /\ j \in Free(attempts[l])
      <4>1. attempts[l][i].outcome # "none"
        BY <3>2, FreeIsNext DEF LaneInv
      <4> QED
        BY <3>2, <4>1, RetryableRows DEF LaneInv
    <3> QED
      BY <1>1, <3>1, <3>2
  <2>2. attempts[l][i].outcome # "none"
    BY <2>1 DEF LaneInv, RowsShape, Decided, NoAttempt
  <2> QED
    BY <1>1, <2>1, <2>2
<1>3. Decided(attempts)'
  BY <1>1 DEF LaneInv, RowsShape, Decided
<1>4. FateShape'
  BY <1>1 DEF LaneInv, FateShape, chain
<1>5. RequestShape'
  <2>1. \A r \in Requests, l \in Lanes, n \in Numbers : Admitted(r, l, n) =>
          attempts'[l][n] = attempts[l][n]
    BY <1>1 DEF LaneInv, RequestShape
  <2> QED
    BY <2>1, RequestsKept DEF LaneInv, chain
<1> QED
  BY <1>2, <1>3, <1>4, <1>5 DEF RowsShape

LEMMA StartStep ==
  ASSUME LaneInv, NEW l \in Lanes, Start(l)
  PROVE  LaneInv'
<1> DEFINE new == [Started EXCEPT !.lease = protocol[l] # "client"]
<1>1. /\ UNCHANGED <<protocol, clock, reservation, moved, manual, request, chain>>
      /\ Retryable(attempts[l])
      /\ wallet' = [wallet EXCEPT ![l] =
                      IF protocol[l] \in ServerOwned THEN "idle" ELSE "prompt"]
  BY DEF Start, Actionable
<1>2. PICK n \in Free(attempts[l]) : SetRow(l, n, new)
  BY DEF Start
<1>3. n \in Numbers
  BY DEF Free
<1>4. new \in Row /\ new.outcome = "started" /\ new.receipt = "none"
  BY NewRows DEF Started, NoAttempt
<1> HIDE DEF new
<1>5. /\ attempts' \in Rows
      /\ \A k \in Lanes, m \in Numbers :
           attempts'[k][m] = IF k = l /\ m = n THEN new ELSE attempts[k][m]
  BY <1>2, <1>3, <1>4, RowIsSet, RowsAreTyped DEF LaneInv
<1>6. RowsShape' /\ FateShape' /\ RequestShape'
  <2>1. \A k \in Lanes, m \in Numbers :
          attempts'[k][m] = IF k \in {l} /\ m \in Free(attempts[k]) THEN new
                            ELSE attempts[k][m]
    BY <1>2, <1>5, FreeIsNext DEF LaneInv
  <2>2. {l} \in SUBSET Lanes /\ \A k \in {l} : Retryable(attempts[k])
    BY <1>1
  <2>3. UNCHANGED <<protocol, request, chain>>
    BY <1>1
  <2> QED
    BY <1>4, <2>1, <2>2, <2>3, RowsAdded
<1>7. \A k \in Lanes : wallet'[k] = IF k = l
        THEN IF protocol[l] \in ServerOwned THEN "idle" ELSE "prompt" ELSE wallet[k]
  BY <1>1 DEF LaneInv, TypeOK
<1>8. TypeOK'
  BY <1>1, <1>5 DEF LaneInv, TypeOK, chain, Rows
<1>9. WalletShape'
  <2>1. Waits(l, n)'
    BY <1>3, <1>4, <1>5 DEF Waits
  <2>2. \A m \in Numbers : Waits(l, m)' => m = n
    BY <1>1, <1>5, RetryableRows DEF Waits, LaneInv
  <2>3. fate'[l][n] = "absent" /\ attempts'[l][n].outcome = "started"
    BY <1>1, <1>2, <1>3, <1>4, <1>5, FreeIsNext DEF LaneInv, FateShape, chain
  <2>4. \A k \in Lanes \ {l}, m \in Numbers :
          /\ attempts'[k][m] = attempts[k][m] /\ fate'[k][m] = fate[k][m]
          /\ Waits(k, m)' <=> Waits(k, m)
    BY <1>1, <1>5 DEF Waits, chain
  <2> SUFFICES ASSUME NEW k \in Lanes PROVE WalletShape!(k)'
    BY DEF WalletShape
  <2>5. CASE k = l
    <3>1. wallet'[k] \in {"idle", "prompt"}
      BY <1>7, <2>5
    <3>2. protocol'[k] \in ServerOwned => wallet'[k] = "idle"
      BY <1>1, <1>7, <2>5
    <3> QED
      BY <1>3, <2>1, <2>2, <2>3, <2>5, <3>1, <3>2
  <2>6. CASE k # l
    BY <1>1, <1>7, <2>4, <2>6 DEF LaneInv, WalletShape
  <2> QED
    BY <2>5, <2>6
<1> QED
  BY <1>6, <1>8, <1>9 DEF LaneInv

LEMMA CancelStep ==
  ASSUME LaneInv, CancelRetryable, Reduced(attempts', moved, manual),
         UNCHANGED <<protocol, clock, moved, manual, request, wallet, chain>>
  PROVE  LaneInv'
<1> DEFINE S == {l \in Lanes : Retryable(attempts[l])}
<1>1. \A l \in Lanes, n \in Numbers :
        attempts'[l][n] = IF l \in S /\ n \in Free(attempts[l]) THEN Cancelled
                          ELSE attempts[l][n]
  BY DEF CancelRetryable
<1>2. attempts' \in Rows
  <2>1. \A l \in Lanes : [n \in Numbers |-> IF n \in Free(attempts[l])
                         THEN Cancelled ELSE attempts[l][n]] \in [Numbers -> Row]
    BY NewRows, RowsAreTyped DEF LaneInv
  <2> QED
    BY <2>1, RowsAreTyped DEF CancelRetryable, Rows, LaneInv
<1>3. Cancelled \in Row /\ Cancelled.outcome = "cancelled" /\ Cancelled.receipt = "none"
  BY NewRows DEF Cancelled, NoAttempt
<1>4. /\ S \in SUBSET Lanes /\ \A l \in S : Retryable(attempts[l])
      /\ \A l \in S : wallet[l] \notin {"prompt", "acked"}
  BY RetryableRows DEF LaneInv, WalletShape, Waits
<1> HIDE DEF S
<1>5. RowsShape' /\ FateShape' /\ RequestShape'
  BY <1>1, <1>3, <1>4, RowsAdded
<1>6. TypeOK'
  BY <1>2, ReducedType DEF LaneInv, TypeOK, chain, Rows
<1>7. WalletShape'
  <2>1. \A l \in Lanes, n \in Numbers :
          \/ attempts'[l][n] = attempts[l][n]
          \/ l \in S /\ fate[l][n] = "absent"
    BY <1>1, FreeIsNext DEF LaneInv, FateShape
  <2> SUFFICES ASSUME NEW l \in Lanes PROVE WalletShape!(l)'
    BY DEF WalletShape
  <2>2. CASE l \in S
    BY <1>4, <2>1, <2>2 DEF LaneInv, WalletShape, Waits, chain
  <2>3. CASE l \notin S
    BY <2>1, <2>3 DEF LaneInv, WalletShape, Waits, chain
  <2> QED
    BY <2>2, <2>3
<1> QED
  BY <1>5, <1>6, <1>7 DEF LaneInv

LEMMA CloseExpiredStep ==
  ASSUME LaneInv, CloseExpired
  PROVE  LaneInv'
<1>1. /\ Reduced(attempts', moved, manual)
      /\ UNCHANGED <<protocol, clock, moved, manual, request, wallet, chain>>
  BY DEF CloseExpired
<1> DEFINE Closed(row) == [row EXCEPT !.outcome = "cancelled", !.lease = FALSE]
<1>2. \A row \in Row : /\ Closed(row) \in Row /\ Closed(row).outcome = "cancelled"
                       /\ Closed(row).receipt = row.receipt
                       /\ Closed(row).reference = row.reference
  BY DEF Row, Outcomes
<1>3. \A l \in Lanes, n \in Numbers :
        attempts'[l][n] = IF Closable(l, attempts[l][n]) THEN Closed(attempts[l][n])
                          ELSE attempts[l][n]
  BY DEF CloseExpired
<1>4. attempts' \in Rows
  <2> HIDE DEF Closed
  <2>1. attempts' = [l \in Lanes |-> [n \in Numbers |->
                      IF Closable(l, attempts[l][n]) THEN Closed(attempts[l][n])
                      ELSE attempts[l][n]]]
    BY DEF CloseExpired, Closed
  <2> QED
    BY <1>2, <2>1, RowsAreTyped DEF LaneInv, Rows
<1> HIDE DEF Closed
<1>5. \A l \in Lanes, n \in Numbers :
        \/ attempts'[l][n] = attempts[l][n]
        \/ /\ protocol[l] # "client"
           /\ attempts[l][n].outcome = "started" /\ attempts[l][n].receipt = "none"
           /\ fate[l][n] = "absent"
           /\ attempts'[l][n].outcome = "cancelled" /\ attempts'[l][n].receipt = "none"
  BY <1>2, <1>3, RowsAreTyped DEF Closable, LaneInv, RowsShape, Decided, FateShape
<1>6. RowsShape'
  BY <1>5 DEF LaneInv, RowsShape, InOrder, Decided
<1>7. FateShape'
  BY <1>1, <1>5 DEF LaneInv, FateShape, chain
<1>8. RequestShape'
  BY <1>1, <1>5, RequestsKept DEF LaneInv, RequestShape, chain
<1>9. TypeOK'
  BY <1>1, <1>4, ReducedType DEF LaneInv, TypeOK, chain, Rows
<1>10. WalletShape'
  <2>1. \A l \in Lanes, n \in Numbers : Waits(l, n)' <=> Waits(l, n)
    BY <1>5 DEF Waits
  <2> QED
    BY <1>1, <1>5, <2>1 DEF LaneInv, WalletShape, chain
<1> QED
  BY <1>6, <1>7, <1>8, <1>9, <1>10 DEF LaneInv

\* The actions that leave the attempts, the requests and the chain alone.
LEMMA OtherStep ==
  ASSUME LaneInv, NEW l \in Lanes,
         \/ Reduce \/ ReleaseExpiredUnused(l) \/ ObserveMovement(l)
         \/ TimePasses(l) \/ BlockhashExpires(l)
  PROVE  LaneInv'
<1>1. UNCHANGED <<protocol, attempts, manual, request, chain>>
  BY DEF Reduce, ReleaseExpiredUnused, ObserveMovement, TimePasses,
     BlockhashExpires, rows
<1>2. /\ clock' \in [Lanes -> {"open", "action_expired", "expired"}]
      /\ moved' \in [Lanes -> BOOLEAN]
      /\ wallet' \in [Lanes -> {"idle", "prompt", "acked", "sent", "declined",
                                "lapsed"}]
  BY DEF Reduce, ReleaseExpiredUnused, ObserveMovement, TimePasses,
     BlockhashExpires, rows, LaneInv, TypeOK
<1>3. reservation' \in [Lanes -> {"active", "released"}]
  <2>1. CASE Reduce
    BY <2>1, ReducedType DEF Reduce, LaneInv
  <2>2. CASE ReleaseExpiredUnused(l)
    BY <2>2 DEF ReleaseExpiredUnused, LaneInv, TypeOK
  <2>3. CASE reservation' = reservation
    BY <2>3 DEF LaneInv, TypeOK
  <2> QED
    BY <2>1, <2>2, <2>3 DEF ObserveMovement, TimePasses, BlockhashExpires, rows
<1>4. TypeOK'
  BY <1>1, <1>2, <1>3 DEF LaneInv, TypeOK, chain
<1>5. RowsShape' /\ FateShape'
  BY <1>1 DEF LaneInv, RowsShape, InOrder, Decided, FateShape, chain
<1>6. RequestShape'
  BY <1>1, RequestsKept DEF LaneInv, chain
<1>7. WalletShape'
  <2>1. \A k \in Lanes : \/ wallet'[k] = wallet[k]
                         \/ wallet[k] = "acked" /\ wallet'[k] = "lapsed"
    <3>1. CASE BlockhashExpires(l)
      BY <3>1 DEF BlockhashExpires, LaneInv, TypeOK
    <3>2. CASE wallet' = wallet
      BY <3>2
    <3> QED
      BY <3>1, <3>2 DEF Reduce, ReleaseExpiredUnused, ObserveMovement, TimePasses
  <2>2. \A k \in Lanes, n \in Numbers : Waits(k, n)' <=> Waits(k, n)
    BY <1>1 DEF Waits
  <2>3. \A k \in Lanes : wallet[k] = "acked" => protocol[k] \notin ServerOwned
    BY DEF LaneInv, WalletShape
  <2> QED
    BY <1>1, <2>1, <2>2, <2>3 DEF LaneInv, WalletShape, chain
<1> QED
  BY <1>4, <1>5, <1>6, <1>7 DEF LaneInv

LEMMA ExecuteStep ==
  ASSUME LaneInv, NEW l \in Lanes, NEW n \in Numbers, Execute(l, n)
  PROVE  LaneInv'
<1>1. /\ UNCHANGED <<protocol, clock, rows, request, wallet, posts>>
      /\ fate[l][n] = "sent"
  BY DEF Execute
<1>2. PICK f \in {"landed", "reverted", "dropped"} : SetFate(l, n, f)
  BY DEF Execute
<1>3. /\ fate' \in [Lanes -> [Numbers -> {"absent", "sent", "landed", "reverted",
                                          "dropped"}]]
      /\ \A k \in Lanes, m \in Numbers :
           fate'[k][m] = IF k = l /\ m = n THEN f ELSE fate[k][m]
  BY <1>2, FateIsSet DEF LaneInv
<1>4. TypeOK'
  BY <1>1, <1>3 DEF LaneInv, TypeOK, rows
<1>5. RowsShape'
  BY <1>1 DEF LaneInv, RowsShape, InOrder, Decided, rows
<1>6. FateShape'
  BY <1>1, <1>3 DEF LaneInv, FateShape, rows
<1>7. RequestShape'
  BY <1>1, <1>3, RequestsKept DEF LaneInv, RequestShape, rows
<1>8. WalletShape'
  BY <1>1, <1>3 DEF LaneInv, WalletShape, Waits, rows
<1> QED
  BY <1>4, <1>5, <1>6, <1>7, <1>8 DEF LaneInv

LEMMA LaneInit == Init => LaneInv
<1> SUFFICES ASSUME Init PROVE LaneInv
  OBVIOUS
<1>1. 1 \in Numbers
  BY DEF Numbers
<1>2. TypeOK
  <2>1. attempts \in [Lanes -> [Numbers -> Row]]
    BY NewRows DEF Init
  <2>2. request \in [Requests -> [pc : {"idle", "admitted", "posted"},
                                 lane : Lanes \cup {NoLane}, attempt : Numbers]]
    BY <1>1 DEF Init, IdleRequest
  <2>3. \A r \in Requests : request[r].pc = "idle"
    BY DEF Init, IdleRequest
  <2> QED
    BY <2>1, <2>2, <2>3 DEF Init, TypeOK
<1>3. RowsShape /\ FateShape
  BY DEF Init, RowsShape, InOrder, Decided, FateShape, NoAttempt
<1>4. RequestShape
  BY DEF Init, RequestShape, Admitted, IdleRequest
<1>5. WalletShape
  BY DEF Init, WalletShape, Waits, NoAttempt
<1> QED
  BY <1>2, <1>3, <1>4, <1>5 DEF LaneInv

LEMMA LaneStutter ==
  ASSUME LaneInv, UNCHANGED vars
  PROVE  LaneInv'
BY DEF LaneInv, TypeOK, RowsShape, InOrder, Decided, FateShape, RequestShape,
   Admitted, WalletShape, Waits, vars, rows, chain

LEMMA LaneNext == LaneInv /\ [Next]_vars => LaneInv'
<1> SUFFICES ASSUME LaneInv, [Next]_vars PROVE LaneInv'
  OBVIOUS
<1>1. ASSUME NEW r \in Requests, Server(r) PROVE LaneInv'
  BY <1>1, PostStep, ReplyStep, RequestDiesStep DEF Server
<1>2. ASSUME NEW r \in Requests, NEW l \in Lanes, NEW n \in Numbers, Admit(r, l, n)
       PROVE LaneInv'
  BY <1>2, AdmitStep
<1>3. ASSUME NEW l \in Lanes, NEW n \in Numbers, User(l, n) PROVE LaneInv'
  BY <1>3, RegisterStep, WalletSendsStep, ReportSubmittedStep, ReportUnknownStep,
     ReportStoppedStep DEF User
<1>4. ASSUME NEW l \in Lanes, NEW n \in Numbers,
             Worker(l, n) \/ LeaseLapses(l, n) \/ Execute(l, n)
       PROVE LaneInv'
  BY <1>4, ResolveProviderStep, ReceiptStep, LeaseLapsesStep, ExecuteStep DEF Worker
<1>5. ASSUME NEW l \in Lanes,
             \/ Start(l) \/ WalletDeclines(l) \/ ReleaseExpiredUnused(l)
             \/ ObserveMovement(l) \/ Passes(l)
       PROVE LaneInv'
  BY <1>5, StartStep, WalletDeclinesStep, OtherStep DEF Passes
<1>6. ASSUME CancelWaiting \/ ExpireWait PROVE LaneInv'
  BY <1>6, CancelStep DEF CancelWaiting, ExpireWait
<1>7. ASSUME CloseExpired PROVE LaneInv'
  BY <1>7, CloseExpiredStep
<1>8. ASSUME Reduce PROVE LaneInv'
  <2>1. PICK l \in Lanes : TRUE
    BY <1>8 DEF Reduce, Reduced, LaneInv, TypeOK
  <2> QED
    BY <1>8, <2>1, OtherStep
<1> QED
  BY <1>1, <1>2, <1>3, <1>4, <1>5, <1>6, <1>7, <1>8, LaneStutter DEF Next

LEMMA LaneInvHolds == Spec => []LaneInv
BY LaneInit, LaneNext, PTL DEF Spec

-----------------------------------------------------------------------------
(* The reservations.                                                       *)

\* Nothing of the lane is underway and nothing will be started again.
Idle(all, l) ==
  /\ clock[l] # "open" \/ HasStopped(all)
  /\ IF protocol[l] \in ServerOwned
     THEN \A n \in Numbers :
            /\ ~Pending(all[l][n])
            /\ all[l][n].receipt = "finalized" => protocol[l] = "safe"
     ELSE \/ \E k \in Lanes \ {l} : Stopped(all[k])
          \/ \A n \in Numbers : ~Holds(all[l][n])

\* A released reservation whose cash did not move belongs to an idle lane.
CashShape ==
  \A l \in Lanes :
    /\ moved[l] => \E n \in Numbers : fate[l][n] = "landed"
    /\ reservation[l] = "released" /\ ~moved[l] => Idle(attempts, l)

LEMMA UnheldIsIdle ==
  ASSUME NEW all \in Rows, Decided(all), NEW l \in Lanes,
         \A n \in Numbers : ~Holds(all[l][n]), clock[l] # "open" \/ HasStopped(all)
  PROVE  Idle(all, l)
BY DEF Idle, Holds, Pending, Decided

LEMMA StoppedIsUnheld ==
  ASSUME NEW all \in Rows, InOrder(all), NEW l \in Lanes, StoppedLane(all[l])
  PROVE  \A n \in Numbers : ~Holds(all[l][n])
<1>1. PICK m \in Latest(all[l]) : all[l][m].outcome \in {"failed", "cancelled"}
  BY DEF StoppedLane, Stopped
<1>2. m \in Numbers /\ \A n \in Numbers : all[l][n].outcome # "none" => n <= m
  BY DEF Latest, Made
<1> TAKE n \in Numbers
<1>3. CASE n = m
  BY <1>1, <1>3 DEF Holds
<1>4. CASE n # m
  BY <1>1, <1>2, <1>4, NumbersAreNat DEF InOrder, Holds
<1> QED
  BY <1>3, <1>4

LEMMA FreedIsIdle ==
  ASSUME NEW all \in Rows, InOrder(all), Decided(all), NEW mv, NEW man \in BOOLEAN,
         NEW l \in Lanes, l \in Freed(all, mv, man), ~mv[l]
  PROVE  Idle(all, l)
<1>1. CASE Status(all, mv, man) = "stopped"
  <2>1. /\ ~Uncertain(all)
        /\ \/ Ended(all) /\ ~ExternalEffect(all, mv)
           \/ RanOut(all, mv)
    BY <1>1 DEF Status
  <2>2. CASE Ended(all) /\ ~ExternalEffect(all, mv)
    <3>1. PICK k \in Lanes : StoppedLane(all[k])
      BY <2>2 DEF Ended
    <3>2. HasStopped(all) /\ Stopped(all[k])
      BY <3>1 DEF HasStopped, StoppedLane
    <3>3. CASE k = l
      BY <3>1, <3>2, <3>3, StoppedIsUnheld, UnheldIsIdle
    <3>4. CASE k # l
      <4>1. \A n \in Numbers :
              /\ ~Pending(all[l][n])
              /\ all[l][n].receipt = "finalized" => protocol[l] = "safe"
        BY <2>2 DEF ExternalEffect, Unresolved, MovedMoney
      <4> QED
        BY <3>2, <3>4, <4>1 DEF Idle
    <3> QED
      BY <3>3, <3>4
  <2>3. CASE RanOut(all, mv)
    <3>1. \A n \in Numbers : ~Holds(all[l][n])
      BY <2>3 DEF RanOut, Made, Holds
    <3> QED
      BY <2>3, <3>1, UnheldIsIdle DEF RanOut
  <2> QED
    BY <2>1, <2>2, <2>3
<1>2. CASE StoppedLane(all[l])
  <2>1. HasStopped(all)
    BY <1>2 DEF HasStopped, StoppedLane
  <2> QED
    BY <1>2, <2>1, StoppedIsUnheld, UnheldIsIdle
<1>3. CASE ~Held(all[l], l)
  BY <1>3, UnheldIsIdle DEF Held
<1> QED
  BY <1>1, <1>2, <1>3 DEF Freed

\* What a step may do to an attempt.
RowMove(l, n) ==
  LET old == attempts[l][n]
      new == attempts'[l][n]
  IN /\ old.receipt # "none" => new = old
     /\ old.outcome \in {"failed", "cancelled"} => new.outcome = old.outcome
     /\ new.receipt = "finalized" => old.receipt = "finalized" \/ Pending(old)
     /\ Idle(attempts, l) =>
          /\ Holds(new) => Holds(old)
          /\ protocol[l] \in ServerOwned /\ Pending(new) => Pending(old)

LEMMA OneRowMoves ==
  ASSUME TypeOK, NEW l \in Lanes, NEW n \in Numbers, NEW row \in Row,
         SetRow(l, n, row), attempts[l][n].receipt = "none",
         attempts[l][n].outcome \notin {"failed", "cancelled"},
         row.receipt = "finalized" => Pending(attempts[l][n]),
         Idle(attempts, l) =>
           /\ Holds(row) => Holds(attempts[l][n])
           /\ protocol[l] \in ServerOwned /\ Pending(row) => Pending(attempts[l][n])
  PROVE  \A k \in Lanes, m \in Numbers : RowMove(k, m)
<1>1. \A k \in Lanes, m \in Numbers :
        attempts'[k][m] = IF k = l /\ m = n THEN row ELSE attempts[k][m]
  BY RowIsSet, RowsAreTyped
<1> TAKE k \in Lanes, m \in Numbers
<1>2. CASE k = l /\ m = n
  BY <1>1, <1>2 DEF RowMove
<1>3. CASE ~(k = l /\ m = n)
  BY <1>1, <1>3 DEF RowMove
<1> QED
  BY <1>2, <1>3

LEMMA IdleIsStuck ==
  ASSUME LaneInv, NEW l \in Lanes, Idle(attempts, l)
  PROVE  /\ ~Actionable(attempts, l)
         /\ \A n \in Numbers : attempts[l][n].outcome = "started" =>
              ~(clock[l] = "open" /\ Actionable(Without(l, n), l))
<1>1. ~Actionable(attempts, l)
  BY DEF Idle, Actionable
<1> SUFFICES ASSUME NEW n \in Numbers, attempts[l][n].outcome = "started",
                    clock[l] = "open"
             PROVE  HasStopped(Without(l, n))
  BY <1>1 DEF Actionable
<1>2. PICK k \in Lanes : Stopped(attempts[k])
  BY DEF Idle, HasStopped
<1>3. k # l
  <2>1. attempts[l][n].receipt = "none"
    BY DEF LaneInv, RowsShape, Decided
  <2>2. \A m \in Numbers : attempts[l][m].outcome \notin {"failed", "cancelled"}
    BY <2>1, WaitIsLast DEF LaneInv, RowsShape, Decided
  <2> QED
    BY <1>2, <2>2, StoppedRow DEF LaneInv
<1>4. Without(l, n)[k] = attempts[k]
  BY <1>3 DEF Without, LaneInv, TypeOK
<1> QED
  BY <1>2, <1>4 DEF HasStopped

\* The reports and the worker's evidence, one attempt each.
LEMMA AttemptMoves ==
  ASSUME LaneInv, NEW l \in Lanes, NEW n \in Numbers,
         \/ User(l, n) \/ Worker(l, n) \/ LeaseLapses(l, n) \/ Execute(l, n)
         \/ \E r \in Requests : Admit(r, l, n)
  PROVE  \A k \in Lanes, m \in Numbers : RowMove(k, m)
<1>1. CASE UNCHANGED attempts
  BY <1>1 DEF RowMove
<1>2. CASE \E r \in Requests : Admit(r, l, n)
  <2> DEFINE row == [attempts[l][n] EXCEPT !.outcome = "ambiguous",
                       !.reference = IF protocol[l] = "safe" THEN "chain"
                                     ELSE "none"]
  <2>1. /\ row \in Row /\ row.outcome = "ambiguous"
        /\ row.receipt = attempts[l][n].receipt
    <3>1. row \in Row
      BY RowsAreTyped, WrittenRows DEF LaneInv, Outcomes
    <3>2. row.outcome = "ambiguous" /\ row.receipt = attempts[l][n].receipt
      BY RowsAreTyped DEF LaneInv, Row
    <3> QED
      BY <3>1, <3>2
  <2>2. /\ SetRow(l, n, row) /\ attempts[l][n].outcome = "started"
        /\ clock[l] = "open" /\ Actionable(Without(l, n), l)
    BY <1>2 DEF Admit, Prepared
  <2> HIDE DEF row
  <2>3. ~Idle(attempts, l)
    BY <2>2, IdleIsStuck
  <2> QED
    BY <2>1, <2>2, <2>3, OneRowMoves DEF LaneInv, RowsShape, Decided
<1>3. CASE Register(l, n) \/ ReportUnknown(l, n) \/ ReportSubmitted(l, n)
  <2>1. PICK row \in Row :
          /\ SetRow(l, n, row) /\ row.outcome \in {"submitted", "ambiguous"}
          /\ row.receipt = attempts[l][n].receipt
    <3> DEFINE old == attempts[l][n]
               signed == [old EXCEPT !.outcome = "ambiguous", !.reference = "chain"]
               unknown == [old EXCEPT !.outcome = "ambiguous"]
               sent == [old EXCEPT !.outcome = "submitted", !.reference = "chain"]
    <3>1. signed \in Row /\ unknown \in Row /\ sent \in Row
      BY RowsAreTyped, WrittenRows DEF LaneInv, Outcomes
    <3>2. /\ signed.outcome = "ambiguous" /\ signed.receipt = old.receipt
          /\ unknown.outcome = "ambiguous" /\ unknown.receipt = old.receipt
          /\ sent.outcome = "submitted" /\ sent.receipt = old.receipt
      BY RowsAreTyped DEF LaneInv, Row
    <3>3. SetRow(l, n, signed) \/ SetRow(l, n, unknown) \/ SetRow(l, n, sent)
      BY <1>3 DEF Register, ReportUnknown, ReportSubmitted
    <3> HIDE DEF signed, unknown, sent
    <3> QED
      BY <3>1, <3>2, <3>3
  <2>2. /\ protocol[l] \notin ServerOwned
        /\ attempts[l][n].outcome \in {"started", "ambiguous"}
        /\ attempts[l][n].reference = "none" \/ attempts[l][n].outcome = "started"
    BY <1>3 DEF Register, ReportUnknown, ReportSubmitted, ServerOwned
  <2>3. attempts[l][n].receipt = "none"
    BY <2>2 DEF LaneInv, RowsShape, Decided
  <2> QED
    BY <2>1, <2>2, <2>3, OneRowMoves DEF LaneInv, Holds
<1>4. CASE ReportStopped(l, n) \/ LeaseLapses(l, n)
  <2>1. PICK row \in Row :
          /\ SetRow(l, n, row) /\ row.outcome \in {"started", "failed", "cancelled"}
          /\ row.receipt = attempts[l][n].receipt
    <3> DEFINE old == attempts[l][n]
               failed == [old EXCEPT !.outcome = "failed"]
               cancelled == [old EXCEPT !.outcome = "cancelled"]
               lapsed == [old EXCEPT !.lease = FALSE]
    <3>1. failed \in Row /\ cancelled \in Row /\ lapsed \in Row
      BY RowsAreTyped, WrittenRows DEF LaneInv, Outcomes
    <3>2. attempts[l][n].outcome = "started"
      BY <1>4 DEF ReportStopped, LeaseLapses
    <3>3. /\ failed.outcome = "failed" /\ failed.receipt = old.receipt
          /\ cancelled.outcome = "cancelled" /\ cancelled.receipt = old.receipt
          /\ lapsed.outcome = "started" /\ lapsed.receipt = old.receipt
      BY <3>2, RowsAreTyped DEF LaneInv, Row
    <3>4. SetRow(l, n, failed) \/ SetRow(l, n, cancelled) \/ SetRow(l, n, lapsed)
      <4>1. CASE ReportStopped(l, n)
        <5>1. PICK o \in {"failed", "cancelled"} :
                SetRow(l, n, [attempts[l][n] EXCEPT !.outcome = o])
          BY <4>1 DEF ReportStopped
        <5> QED
          BY <5>1
      <4>2. CASE LeaseLapses(l, n)
        BY <4>2 DEF LeaseLapses
      <4> QED
        BY <1>4, <4>1, <4>2
    <3> HIDE DEF failed, cancelled, lapsed
    <3> QED
      BY <3>1, <3>3, <3>4
  <2>2. attempts[l][n].outcome = "started"
    BY <1>4 DEF ReportStopped, LeaseLapses
  <2>3. attempts[l][n].receipt = "none"
    BY <2>2 DEF LaneInv, RowsShape, Decided
  <2> QED
    BY <2>1, <2>2, <2>3, OneRowMoves DEF LaneInv, Holds, Pending
<1>5. CASE ResolveProvider(l, n)
  <2> DEFINE found == [attempts[l][n] EXCEPT !.reference = "chain"]
             lost == [attempts[l][n] EXCEPT !.outcome = "failed",
                                            !.reference = "none"]
  <2>1. attempts[l][n].outcome = "ambiguous" /\ attempts[l][n].receipt = "none"
    BY <1>5 DEF ResolveProvider, LaneInv, RowsShape, Decided
  <2>2. /\ found \in Row /\ lost \in Row
        /\ found.receipt = "none" /\ lost.receipt = "none"
    <3>1. found \in Row /\ lost \in Row
      BY RowsAreTyped, WrittenRows DEF LaneInv, Outcomes
    <3>2. found.receipt = "none" /\ lost.receipt = "none"
      BY <2>1, RowsAreTyped DEF LaneInv, Row
    <3> QED
      BY <3>1, <3>2
  <2>3. SetRow(l, n, found) \/ SetRow(l, n, lost)
    BY <1>5 DEF ResolveProvider
  <2> HIDE DEF found, lost
  <2> QED
    BY <2>1, <2>2, <2>3, OneRowMoves DEF LaneInv, Holds, Pending
<1>6. CASE Receipt(l, n)
  <2>1. PICK receipt \in {"failed", "finalized"} :
          SetRow(l, n, [attempts[l][n] EXCEPT !.receipt = receipt])
    BY <1>6 DEF Receipt
  <2> DEFINE row == [attempts[l][n] EXCEPT !.receipt = receipt]
  <2>2. /\ row \in Row /\ row.outcome = attempts[l][n].outcome
        /\ row.receipt = receipt
    <3>1. row \in Row
      BY RowsAreTyped, WrittenRows DEF LaneInv
    <3>2. row.outcome = attempts[l][n].outcome /\ row.receipt = receipt
      BY RowsAreTyped DEF LaneInv, Row
    <3> QED
      BY <3>1, <3>2
  <2>3. Pending(attempts[l][n])
    BY <1>6 DEF Receipt
  <2>4. SetRow(l, n, row)
    BY <2>1
  <2> HIDE DEF row
  <2> QED
    BY <2>2, <2>3, <2>4, OneRowMoves DEF LaneInv, Holds, Pending
<1> QED
  BY <1>1, <1>2, <1>3, <1>4, <1>5, <1>6 DEF User, Worker, WalletSends, Execute, rows

LEMMA StartMoves ==
  ASSUME LaneInv, NEW l \in Lanes, Start(l)
  PROVE  \A k \in Lanes, m \in Numbers : RowMove(k, m)
<1> DEFINE new == [Started EXCEPT !.lease = protocol[l] # "client"]
<1>1. PICK n \in Free(attempts[l]) : SetRow(l, n, new)
  BY DEF Start
<1>2. new \in Row /\ new.receipt = "none"
  BY NewRows DEF Started, NoAttempt
<1>3. /\ n \in Numbers /\ attempts[l][n].outcome = "none"
      /\ attempts[l][n].receipt = "none"
  BY FreeIsNext DEF LaneInv, RowsShape, Decided
<1>4. ~Idle(attempts, l)
  BY IdleIsStuck DEF Start
<1> HIDE DEF new
<1> QED
  BY <1>1, <1>2, <1>3, <1>4, OneRowMoves DEF LaneInv

LEMMA ManyMove ==
  ASSUME LaneInv, CancelRetryable \/ CloseExpired
  PROVE  \A k \in Lanes, m \in Numbers : RowMove(k, m)
<1> TAKE k \in Lanes, m \in Numbers
<1>1. \/ attempts'[k][m] = attempts[k][m]
      \/ /\ attempts[k][m].outcome \in {"none", "started"}
         /\ attempts[k][m].receipt = "none"
         /\ attempts'[k][m].outcome = "cancelled" /\ attempts'[k][m].receipt = "none"
  <2>1. CASE CancelRetryable
    <3>1. attempts'[k][m] = IF Retryable(attempts[k]) /\ m \in Free(attempts[k])
                            THEN Cancelled ELSE attempts[k][m]
      BY <2>1 DEF CancelRetryable
    <3> QED
      BY <3>1, FreeIsNext DEF LaneInv, RowsShape, Decided, Cancelled, NoAttempt
  <2>2. CASE CloseExpired
    <3>1. attempts'[k][m] =
            IF Closable(k, attempts[k][m])
            THEN [attempts[k][m] EXCEPT !.outcome = "cancelled", !.lease = FALSE]
            ELSE attempts[k][m]
      BY <2>2 DEF CloseExpired
    <3>2. Closable(k, attempts[k][m]) =>
            attempts[k][m].outcome = "started" /\ attempts[k][m].receipt = "none"
      BY DEF Closable, LaneInv, RowsShape, Decided
    <3> QED
      BY <3>1, <3>2, RowsAreTyped DEF LaneInv, Row
  <2> QED
    BY <2>1, <2>2
<1> QED
  BY <1>1 DEF RowMove, Holds, Pending

LEMMA RowsMove ==
  ASSUME LaneInv, [Next]_vars
  PROVE  \A k \in Lanes, m \in Numbers : RowMove(k, m)
<1>1. CASE UNCHANGED attempts
  BY <1>1 DEF RowMove
<1>2. ASSUME NEW r \in Requests, Reply(r), ~UNCHANGED attempts
       PROVE \A k \in Lanes, m \in Numbers : RowMove(k, m)
  <2> DEFINE l == request[r].lane
             n == request[r].attempt
  <2>1. l \in Lanes /\ n \in Numbers
    BY <1>2 DEF Reply, LaneInv, TypeOK
  <2> HIDE DEF l, n
  <2>2. PICK ref \in {"handle", "chain"} :
          /\ attempts[l][n].outcome = "ambiguous"
          /\ attempts[l][n].reference = "none"
          /\ SetRow(l, n, [attempts[l][n] EXCEPT !.reference = ref])
    BY <1>2 DEF Reply, l, n
  <2> DEFINE row == [attempts[l][n] EXCEPT !.reference = ref]
  <2>3. /\ row \in Row /\ row.outcome = "ambiguous"
        /\ row.receipt = attempts[l][n].receipt
    <3>1. row \in Row
      BY <2>1, RowsAreTyped, WrittenRows DEF LaneInv
    <3>2. row.outcome = "ambiguous" /\ row.receipt = attempts[l][n].receipt
      BY <2>1, <2>2, RowsAreTyped DEF LaneInv, Row
    <3> QED
      BY <3>1, <3>2
  <2>4. attempts[l][n].receipt = "none"
    BY <2>1, <2>2 DEF LaneInv, RowsShape, Decided
  <2>5. SetRow(l, n, row)
    BY <2>2
  <2> HIDE DEF row
  <2> QED
    BY <2>1, <2>2, <2>3, <2>4, <2>5, OneRowMoves DEF LaneInv, Holds, Pending
<1>3. ASSUME NEW r \in Requests, Server(r)
       PROVE \A k \in Lanes, m \in Numbers : RowMove(k, m)
  BY <1>1, <1>2, <1>3 DEF Server, Post, RequestDies, rows
<1>4. ASSUME NEW l \in Lanes,
             \/ WalletDeclines(l) \/ ReleaseExpiredUnused(l)
             \/ ObserveMovement(l) \/ Passes(l) \/ Reduce
       PROVE UNCHANGED attempts
  BY <1>4 DEF WalletDeclines, ReleaseExpiredUnused, ObserveMovement, Passes,
     TimePasses, BlockhashExpires, Reduce, rows
<1>5. Reduce => UNCHANGED attempts
  BY DEF Reduce
<1>6. UNCHANGED vars => UNCHANGED attempts
  BY DEF vars, rows
<1> QED
  BY <1>1, <1>3, <1>4, <1>5, <1>6, AttemptMoves, StartMoves, ManyMove
     DEF Next, CancelWaiting, ExpireWait

\* The only steps that reach the chain.
LEMMA FateActions ==
  ASSUME [Next]_vars
  PROVE  \/ UNCHANGED fate
         \/ \E r \in Requests : Post(r)
         \/ \E l \in Lanes, n \in Numbers : WalletSends(l, n) \/ Execute(l, n)
<1>1. ASSUME NEW r \in Requests, Server(r)
       PROVE UNCHANGED fate \/ Post(r)
  BY <1>1 DEF Server, Reply, RequestDies, chain
<1>2. ASSUME NEW r \in Requests, NEW l \in Lanes, NEW n \in Numbers, Admit(r, l, n)
       PROVE UNCHANGED fate
  BY <1>2 DEF Admit, chain
<1>3. ASSUME NEW l \in Lanes, NEW n \in Numbers,
             User(l, n) \/ Worker(l, n) \/ LeaseLapses(l, n)
       PROVE UNCHANGED fate \/ WalletSends(l, n)
  BY <1>3 DEF User, Worker, Register, ReportSubmitted, ReportUnknown, ReportStopped,
     ResolveProvider, Receipt, LeaseLapses, chain
<1>4. ASSUME NEW l \in Lanes,
             \/ Start(l) \/ WalletDeclines(l) \/ ReleaseExpiredUnused(l)
             \/ ObserveMovement(l) \/ Passes(l)
       PROVE UNCHANGED fate
  BY <1>4 DEF Start, WalletDeclines, ReleaseExpiredUnused, ObserveMovement, Passes,
     TimePasses, BlockhashExpires, chain
<1>5. CancelWaiting \/ ExpireWait \/ CloseExpired \/ Reduce \/ UNCHANGED vars
         => UNCHANGED fate
  BY DEF CancelWaiting, ExpireWait, CloseExpired, Reduce, vars, chain
<1> QED
  BY <1>1, <1>2, <1>3, <1>4, <1>5 DEF Next

\* A transfer that landed has landed.
LEMMA FateMoves ==
  ASSUME LaneInv, [Next]_vars
  PROVE  \A k \in Lanes, m \in Numbers : fate[k][m] = "landed" => fate'[k][m] = "landed"
<1>1. CASE UNCHANGED fate
  BY <1>1
<1>2. ASSUME NEW l \in Lanes, NEW n \in Numbers, NEW f \in {"sent", "landed",
             "reverted", "dropped"}, fate[l][n] # "landed", SetFate(l, n, f)
       PROVE \A k \in Lanes, m \in Numbers :
               fate[k][m] = "landed" => fate'[k][m] = "landed"
  BY <1>2, FateIsSet DEF LaneInv
<1>3. ASSUME NEW r \in Requests, Post(r)
       PROVE \A k \in Lanes, m \in Numbers :
               fate[k][m] = "landed" => fate'[k][m] = "landed"
  <2> DEFINE l == request[r].lane
             n == request[r].attempt
  <2>1. l \in Lanes /\ n \in Numbers /\ Admitted(r, l, n) /\ SetFate(l, n, "sent")
    BY <1>3 DEF LaneInv, TypeOK, Post, Admitted
  <2>2. fate[l][n] = "absent"
    BY <2>1 DEF LaneInv, RequestShape
  <2> HIDE DEF l, n
  <2> QED
    BY <1>2, <2>1, <2>2
<1>4. ASSUME NEW l \in Lanes, NEW n \in Numbers, WalletSends(l, n)
       PROVE \A k \in Lanes, m \in Numbers :
               fate[k][m] = "landed" => fate'[k][m] = "landed"
  <2>1. LaneInv'
    BY <1>4, WalletSendsStep
  <2>2. SetFate(l, n, "sent") /\ CountPost(l, n)
    BY <1>4 DEF WalletSends, CountPost
  <2>3. posts'[l][n] = posts[l][n] + 1 /\ fate'[l][n] = "sent"
    <3>1. posts'[l][n] = posts[l][n] + 1
      BY <2>2, PostIsCounted DEF LaneInv
    <3>2. fate'[l][n] = "sent"
      BY <2>2, FateIsSet DEF LaneInv
    <3> QED
      BY <3>1, <3>2
  <2>4. posts[l][n] \in Nat /\ posts'[l][n] = 1
    BY <2>1, <2>3 DEF LaneInv, FateShape, TypeOK
  <2>5. fate[l][n] # "landed"
    BY <2>3, <2>4 DEF LaneInv, FateShape
  <2> QED
    BY <1>2, <2>2, <2>5
<1>5. ASSUME NEW l \in Lanes, NEW n \in Numbers, Execute(l, n)
       PROVE \A k \in Lanes, m \in Numbers :
               fate[k][m] = "landed" => fate'[k][m] = "landed"
  BY <1>2, <1>5 DEF Execute
<1> QED
  BY <1>1, <1>3, <1>4, <1>5, FateActions

\* What a step may do to a lane: time and movement do not go back, and a
\* reservation is released for cash that moved or for an idle lane.
LaneMove(l) ==
  /\ clock[l] # "open" => clock'[l] # "open"
  /\ moved[l] => moved'[l]
  /\ moved'[l] => moved[l] \/ \E n \in Numbers : fate[l][n] = "landed"
  /\ reservation[l] = "released" => reservation'[l] = "released"
  /\ reservation'[l] = "released" =>
       reservation[l] = "released" \/ moved'[l] \/ Idle(attempts', l)

LEMMA ReducedMoves ==
  ASSUME LaneInv, LaneInv', Reduced(attempts', moved', manual),
         UNCHANGED <<protocol, clock>>, NEW l \in Lanes,
         moved[l] => moved'[l],
         moved'[l] => moved[l] \/ \E n \in Numbers : fate[l][n] = "landed"
  PROVE  LaneMove(l)
<1>1. /\ reservation[l] = "released" => reservation'[l] = "released"
      /\ reservation'[l] = "released" =>
           reservation[l] = "released" \/ l \in Freed(attempts', moved', manual)
  BY ReducedType DEF LaneInv
<1>2. attempts' \in Rows /\ InOrder(attempts') /\ Decided(attempts')
  BY DEF LaneInv, TypeOK, Rows, RowsShape
<1>3. manual \in BOOLEAN
  BY DEF LaneInv, TypeOK
<1>4. l \in Freed(attempts', moved', manual) /\ ~moved'[l] => Idle(attempts', l)
  BY <1>2, <1>3, FreedIsIdle
<1> QED
  BY <1>1, <1>4 DEF LaneMove

LEMMA LanesMove ==
  ASSUME LaneInv, [Next]_vars
  PROVE  protocol' = protocol /\ \A l \in Lanes : LaneMove(l)
<1>0. LaneInv'
  BY LaneNext
<1>1. ASSUME UNCHANGED <<clock, moved, reservation>>
       PROVE \A l \in Lanes : LaneMove(l)
  BY <1>1 DEF LaneMove
<1>2. ASSUME NEW r \in Requests, Server(r)
       PROVE UNCHANGED <<protocol, clock, moved, reservation>>
  BY <1>2 DEF Server, Post, Reply, RequestDies, rows
<1>3. ASSUME NEW r \in Requests, NEW l \in Lanes, NEW n \in Numbers, Admit(r, l, n)
       PROVE UNCHANGED <<protocol, clock, moved, reservation>>
  BY <1>3 DEF Admit
<1>4. ASSUME NEW l \in Lanes, NEW n \in Numbers,
             \/ User(l, n) \/ Worker(l, n) \/ LeaseLapses(l, n) \/ Execute(l, n)
       PROVE \/ UNCHANGED <<protocol, clock, moved, reservation>>
             \/ ReportStopped(l, n) \/ Receipt(l, n)
  BY <1>4 DEF User, Worker, Register, WalletSends, ReportSubmitted, ReportUnknown,
     ResolveProvider, LeaseLapses, Execute, rows
<1>5. ASSUME NEW l \in Lanes, NEW n \in Numbers, ReportStopped(l, n) \/ Receipt(l, n)
       PROVE protocol' = protocol /\ \A k \in Lanes : LaneMove(k)
  <2>1. /\ UNCHANGED <<protocol, clock>>
        /\ Reduced(attempts', moved', manual)
    BY <1>5 DEF ReportStopped, Receipt
  <2>2. \A k \in Lanes : /\ moved[k] => moved'[k]
                         /\ moved'[k] => \/ moved[k]
                                         \/ \E m \in Numbers : fate[k][m] = "landed"
    <3>1. CASE moved' = moved
      BY <3>1
    <3>2. CASE fate[l][n] = "landed" /\ moved' = [moved EXCEPT ![l] = TRUE]
      BY <3>2 DEF LaneInv, TypeOK
    <3> QED
      BY <1>5, <3>1, <3>2 DEF ReportStopped, Receipt
  <2> QED
    BY <1>0, <2>1, <2>2, ReducedMoves
<1>6. ASSUME NEW l \in Lanes, Start(l) \/ WalletDeclines(l) \/ BlockhashExpires(l)
       PROVE UNCHANGED <<protocol, clock, moved, reservation>>
  BY <1>6 DEF Start, WalletDeclines, BlockhashExpires, rows
<1>7. ASSUME NEW l \in Lanes, ReleaseExpiredUnused(l)
       PROVE protocol' = protocol /\ \A k \in Lanes : LaneMove(k)
  <2>1. /\ UNCHANGED <<protocol, clock, attempts, moved>>
        /\ \A k \in Lanes : reservation'[k] = IF k = l THEN "released" ELSE reservation[k]
        /\ clock[l] # "open" /\ \A n \in Numbers : ~Holds(attempts[l][n])
    BY <1>7 DEF ReleaseExpiredUnused, Held, LaneInv, TypeOK
  <2>2. Idle(attempts', l)
    BY <2>1, UnheldIsIdle, RowsAreTyped DEF LaneInv, RowsShape
  <2> QED
    BY <2>1, <2>2 DEF LaneMove
<1>8. ASSUME NEW l \in Lanes, ObserveMovement(l) \/ TimePasses(l)
       PROVE protocol' = protocol /\ \A k \in Lanes : LaneMove(k)
  <2>1. CASE ObserveMovement(l)
    <3>1. /\ UNCHANGED <<protocol, clock, reservation>>
          /\ \E n \in Numbers : fate[l][n] = "landed"
          /\ moved' = [moved EXCEPT ![l] = TRUE]
      BY <2>1 DEF ObserveMovement
    <3>2. \A k \in Lanes : moved'[k] = (k = l \/ moved[k])
      BY <3>1 DEF LaneInv, TypeOK
    <3> QED
      BY <3>1, <3>2 DEF LaneMove
  <2>2. CASE TimePasses(l)
    <3>1. /\ UNCHANGED <<protocol, moved, reservation>>
          /\ \A k \in Lanes : clock[k] # "open" => clock'[k] # "open"
      BY <2>2 DEF TimePasses, rows, LaneInv, TypeOK
    <3> QED
      BY <3>1 DEF LaneMove
  <2> QED
    BY <1>8, <2>1, <2>2
<1>9. ASSUME CancelWaiting \/ ExpireWait \/ CloseExpired \/ Reduce
       PROVE protocol' = protocol /\ \A k \in Lanes : LaneMove(k)
  <2>1. /\ UNCHANGED <<protocol, clock, moved>>
        /\ Reduced(attempts', moved', manual)
    BY <1>9 DEF CancelWaiting, ExpireWait, CloseExpired, Reduce
  <2> QED
    BY <1>0, <2>1, ReducedMoves
<1>10. UNCHANGED vars => UNCHANGED <<protocol, clock, moved, reservation>>
  BY DEF vars, rows
<1> QED
  BY <1>1, <1>2, <1>3, <1>4, <1>5, <1>6, <1>7, <1>8, <1>9, <1>10 DEF Next, Passes

LEMMA StoppedRows ==
  LaneInv => \A i \in Lanes, m \in Numbers :
    attempts[i][m].outcome \in {"failed", "cancelled"} => Stopped(attempts[i])
BY StoppedRow DEF LaneInv

\* What is idle stays idle.
LEMMA IdleStays ==
  ASSUME LaneInv, LaneInv', UNCHANGED protocol, NEW l \in Lanes,
         clock[l] # "open" => clock'[l] # "open",
         \A k \in Lanes, m \in Numbers : RowMove(k, m), Idle(attempts, l)
  PROVE  Idle(attempts, l)'
<1>1. \A k \in Lanes : Stopped(attempts[k]) => Stopped(attempts[k])'
  <2> TAKE k \in Lanes
  <2> HAVE Stopped(attempts[k])
  <2>1. PICK n \in Numbers : attempts[k][n].outcome \in {"failed", "cancelled"}
    BY StoppedRow DEF LaneInv
  <2>2. attempts'[k][n].outcome \in {"failed", "cancelled"}
    BY <2>1 DEF RowMove
  <2>3. LaneInv' => (\A i \in Lanes, m \in Numbers :
          attempts[i][m].outcome \in {"failed", "cancelled"} => Stopped(attempts[i]))'
    BY StoppedRows, PTL
  <2> QED
    BY <2>2, <2>3
<1>2. HasStopped(attempts) => HasStopped(attempts')
  BY <1>1 DEF HasStopped
<1>3. \A n \in Numbers :
        /\ Holds(attempts'[l][n]) => Holds(attempts[l][n])
        /\ protocol[l] \in ServerOwned /\ Pending(attempts'[l][n]) =>
             Pending(attempts[l][n])
        /\ attempts'[l][n].receipt = "finalized" =>
             attempts[l][n].receipt = "finalized" \/ Pending(attempts[l][n])
  BY DEF RowMove
<1>4. clock'[l] # "open" \/ HasStopped(attempts')
  BY <1>2 DEF Idle
<1>5. CASE protocol[l] \in ServerOwned
  <2>1. \A n \in Numbers :
          /\ ~Pending(attempts[l][n])
          /\ attempts[l][n].receipt = "finalized" => protocol[l] = "safe"
    BY <1>5 DEF Idle
  <2> QED
    BY <1>3, <1>4, <1>5, <2>1 DEF Idle
<1>6. CASE protocol[l] \notin ServerOwned
  <2>1. \/ \E k \in Lanes \ {l} : Stopped(attempts[k])
        \/ \A n \in Numbers : ~Holds(attempts[l][n])
    BY <1>6 DEF Idle
  <2> QED
    BY <1>1, <1>3, <1>4, <1>6, <2>1 DEF Idle
<1> QED
  BY <1>5, <1>6

LEMMA CashNext == LaneInv /\ CashShape /\ [Next]_vars => CashShape'
<1> SUFFICES ASSUME LaneInv, CashShape, [Next]_vars PROVE CashShape'
  OBVIOUS
<1>1. LaneInv' /\ protocol' = protocol
  BY LaneNext, LanesMove
<1> SUFFICES ASSUME NEW l \in Lanes PROVE CashShape!(l)'
  BY DEF CashShape
<1>2. LaneMove(l)
  BY LanesMove
<1>3. moved'[l] => \E n \in Numbers : fate'[l][n] = "landed"
  BY <1>2, FateMoves DEF LaneMove, CashShape
<1>4. ASSUME reservation'[l] = "released", ~moved'[l] PROVE Idle(attempts, l)'
  <2>1. CASE reservation[l] = "released"
    <3>1. Idle(attempts, l)
      BY <1>2, <1>4, <2>1 DEF LaneMove, CashShape
    <3>2. clock[l] # "open" => clock'[l] # "open"
      BY <1>2 DEF LaneMove
    <3> QED
      BY <1>1, <3>1, <3>2, RowsMove, IdleStays
  <2>2. CASE Idle(attempts', l)
    <3>1. clock[l] # "open" => clock'[l] # "open"
      BY <1>2 DEF LaneMove
    <3> QED
      BY <1>1, <2>2, <3>1 DEF Idle
  <2> QED
    BY <1>2, <1>4, <2>1, <2>2 DEF LaneMove
<1> QED
  BY <1>3, <1>4

LEMMA CashInit == Init => CashShape
BY DEF Init, CashShape

LEMMA CashHolds == Spec => [](LaneInv /\ CashShape)
BY LaneInit, LaneNext, CashInit, CashNext, PTL DEF Spec

-----------------------------------------------------------------------------
(* The results.                                                            *)

\* Every variable of the lanes keeps its type.
THEOREM TypeCorrect == Spec => []TypeOK
<1>1. LaneInv => TypeOK
  BY DEF LaneInv
<1> QED
  BY LaneInvHolds, <1>1, PTL

\* However many requests, retries, crashes and lapsed leases there are, an
\* attempt is posted at most once and a lane never has two attempts whose
\* transfer may land or has landed.
THEOREM LaneMovesOnce == Spec => []OneTransferPerLane
<1>1. LaneInv => OneTransferPerLane
  <2> SUFFICES ASSUME LaneInv, NEW l \in Lanes, NEW n \in Numbers
               PROVE  /\ posts[l][n] <= 1
                      /\ MayStillMove(l, n) =>
                           \A m \in Numbers \ {n} : ~MayStillMove(l, m)
    BY DEF OneTransferPerLane
  <2>1. posts[l][n] <= 1
    <3>1. posts[l][n] = 0 \/ posts[l][n] = 1
      BY DEF LaneInv, FateShape
    <3> QED
      BY <3>1
  <2>2. \A m \in Numbers : MayStillMove(l, m) =>
          attempts[l][m].outcome # "none" /\ attempts[l][m].receipt # "failed"
    BY DEF MayStillMove, LaneInv, FateShape
  <2> QED
    BY <2>1, <2>2, WaitIsLast DEF LaneInv
<1> QED
  BY LaneInvHolds, <1>1, PTL

\* An attempt on record as failed or cancelled has nothing that may land, and
\* no request of the server will still post it.
THEOREM StoppedIsUnsent == Spec => []StoppedWasNotSent
<1>1. LaneInv => StoppedWasNotSent
  BY DEF LaneInv, StoppedWasNotSent, FateShape, RequestShape, Admitted
<1> QED
  BY LaneInvHolds, <1>1, PTL

\* What a server or a registered browser has sent, and no receipt has decided,
\* is on record as pending.
THEOREM UncertaintyIsOnRecord == Spec => []SentIsOnRecord
<1>1. LaneInv => SentIsOnRecord
  <2> SUFFICES ASSUME LaneInv, NEW l \in Lanes, NEW n \in Numbers,
                      protocol[l] # "client", fate[l][n] = "sent"
               PROVE  Pending(attempts[l][n])
    BY DEF SentIsOnRecord, InFlight
  <2>1. attempts[l][n].receipt \in {"none", "failed", "finalized"}
    BY DEF LaneInv, TypeOK, Row
  <2>2. attempts[l][n].outcome = "ambiguous" /\ attempts[l][n].receipt = "none"
    BY <2>1 DEF LaneInv, FateShape
  <2> QED
    BY <2>2 DEF Pending
<1> QED
  BY LaneInvHolds, <1>1, PTL

\* Receipts, stopped attempts and released reservations are final.
THEOREM DecisionsAreFinal == Spec => DecidedIsFinal
<1> DEFINE Final ==
      \A l \in Lanes :
       /\ reservation[l] = "released" => reservation'[l] = "released"
       /\ \A n \in Numbers :
            /\ attempts[l][n].receipt # "none"
                 => attempts'[l][n] = attempts[l][n]
            /\ attempts[l][n].outcome \in {"failed", "cancelled"}
                 => attempts'[l][n].outcome = attempts[l][n].outcome
<1>1. LaneInv /\ [Next]_vars => [Final]_vars
  BY RowsMove, LanesMove DEF RowMove, LaneMove
<1> HIDE DEF Final
<1>2. Spec => [][Final]_vars
  BY LaneInvHolds, <1>1, PTL DEF Spec
<1> QED
  BY <1>2 DEF DecidedIsFinal, Final

\* The reservation behind a transfer that is underway, or has landed unseen,
\* is not given back; a browser's may be, if a sibling of its lane stopped.
THEOREM CashIsReserved == Spec => []SubmittedLaneKeepsItsCash
<1>1. LaneInv /\ CashShape => SubmittedLaneKeepsItsCash
  <2> SUFFICES ASSUME LaneInv, CashShape, NEW l \in Lanes, NEW n \in Numbers,
                      MayStillMove(l, n), ~CashIsKept(l, n)
               PROVE  protocol[l] \notin ServerOwned /\ SiblingStopped(l)
    BY DEF SubmittedLaneKeepsItsCash
  <2>1. Idle(attempts, l)
    BY DEF CashShape, CashIsKept, LaneInv, TypeOK
  <2>2. /\ attempts[l][n].outcome \in {"started", "submitted", "ambiguous"}
        /\ attempts[l][n].receipt # "failed"
        /\ protocol[l] \in ServerOwned => attempts[l][n].outcome = "ambiguous"
    <3>1. attempts[l][n].outcome \in Outcomes
      BY DEF LaneInv, TypeOK, Row
    <3> QED
      BY <3>1 DEF MayStillMove, LaneInv, FateShape, Outcomes, ServerOwned
  <2>3. attempts[l][n].receipt \in {"none", "finalized"}
    BY <2>2 DEF LaneInv, TypeOK, Row
  <2>4. protocol[l] \notin ServerOwned
    BY <2>1, <2>2, <2>3 DEF Idle, Pending, CashIsKept
  <2> QED
    BY <2>1, <2>2, <2>4 DEF Idle, Holds, SiblingStopped
<1> QED
  BY CashHolds, <1>1, PTL

-----------------------------------------------------------------------------
(* The rows implement LaneCash.                                            *)

Moving(l) == \E n \in Numbers : fate[l][n] = "sent"
Spent(l) == ~Moving(l) /\ \E n \in Numbers : fate[l][n] = "landed"

LEMMA CashValues == \A l \in Lanes :
  Cash[l] = IF protocol[l] \notin ServerOwned THEN "held"
            ELSE IF Moving(l) THEN "moving"
            ELSE IF Spent(l) THEN "spent"
            ELSE IF reservation[l] = "released" THEN "returned" ELSE "held"
BY DEF Cash, Moving, Spent

LEMMA CashValuesNext == \A l \in Lanes :
  Cash'[l] = IF protocol'[l] \notin ServerOwned THEN "held"
             ELSE IF Moving(l)' THEN "moving"
             ELSE IF Spent(l)' THEN "spent"
             ELSE IF reservation'[l] = "released" THEN "returned" ELSE "held"
BY DEF Cash, Moving, Spent

LEMMA CashIsFunction ==
  /\ Cash = [l \in Lanes |-> Cash[l]]
  /\ Cash' = [l \in Lanes |-> Cash'[l]]
BY DEF Cash

\* The transfer of a lane the server owns is alone, and its cash is reserved.
LEMMA TransferIsAlone ==
  ASSUME LaneInv, CashShape, NEW l \in Lanes, NEW n \in Numbers,
         protocol[l] \in ServerOwned, Pending(attempts[l][n]),
         fate[l][n] # "landed"
  PROVE  /\ reservation[l] = "active"
         /\ \A m \in Numbers \ {n} : fate[l][m] \notin {"sent", "landed"}
<1>1. \A m \in Numbers \ {n} : fate[l][m] \notin {"sent", "landed"}
  BY WaitIsLast DEF Pending, LaneInv, FateShape
<1>2. ~moved[l]
  BY <1>1 DEF CashShape
<1>3. reservation[l] # "released"
  BY <1>2 DEF CashShape, Idle
<1> QED
  BY <1>1, <1>3 DEF LaneInv, TypeOK

\* One lane changes.
LEMMA OneLaneChanges ==
  ASSUME NEW l \in Lanes, \A k \in Lanes \ {l} : Cash'[k] = Cash[k],
         \/ Cash[l] = "held" /\ Cash'[l] = "moving"
         \/ Cash[l] = "moving" /\ Cash'[l] \in {"spent", "held"}
  PROVE  Promise!Next
<1>1. Cash' = [Cash EXCEPT ![l] = Cash'[l]]
  BY CashIsFunction
<1> QED
  BY <1>1 DEF Promise!Next, Promise!Move, Promise!Land, Promise!Fail, Promise!Change

LEMMA CashStep ==
  ASSUME LaneInv, CashShape, [Next]_vars
  PROVE  [Promise!Next]_Cash
<1>1. protocol' = protocol /\ \A l \in Lanes : LaneMove(l)
  BY LanesMove
<1>2. CASE UNCHANGED fate
  <2> DEFINE S == {l \in Lanes : Cash[l] = "held" /\ Cash'[l] = "returned"}
  <2>1. \A l \in Lanes : /\ Moving(l)' <=> Moving(l)
                         /\ Spent(l)' <=> Spent(l)
    BY <1>2 DEF Moving, Spent
  <2>2. \A l \in Lanes : \/ Cash'[l] = Cash[l]
                         \/ Cash[l] = "held" /\ Cash'[l] = "returned"
    BY <1>1, <2>1, CashValues, CashValuesNext DEF LaneMove
  <2>3. Cash' = [l \in Lanes |-> IF l \in S THEN "returned" ELSE Cash[l]]
    BY <2>2, CashIsFunction
  <2>4. S \in SUBSET {l \in Lanes : Cash[l] = "held"}
    OBVIOUS
  <2> QED
    BY <2>3, <2>4 DEF Promise!Next, Promise!Return
<1>3. ASSUME NEW l \in Lanes, NEW n \in Numbers,
             NEW f \in {"sent", "landed", "reverted", "dropped"}, SetFate(l, n, f),
             reservation' = reservation
       PROVE /\ \A m \in Numbers : fate'[l][m] = IF m = n THEN f ELSE fate[l][m]
             /\ \A k \in Lanes \ {l} : Cash'[k] = Cash[k]
  <2>1. \A k \in Lanes, m \in Numbers :
          fate'[k][m] = IF k = l /\ m = n THEN f ELSE fate[k][m]
    BY <1>3, FateIsSet DEF LaneInv
  <2>2. \A k \in Lanes \ {l} : (Moving(k)' <=> Moving(k)) /\ (Spent(k)' <=> Spent(k))
    BY <2>1 DEF Moving, Spent
  <2> QED
    BY <1>1, <1>3, <2>1, <2>2, CashValues, CashValuesNext
<1>4. ASSUME NEW r \in Requests, Post(r) PROVE Promise!Next
  <2> DEFINE l == request[r].lane
             n == request[r].attempt
  <2>1. l \in Lanes /\ n \in Numbers /\ Admitted(r, l, n)
    BY <1>4 DEF LaneInv, TypeOK, Post, Admitted
  <2>2. SetFate(l, n, "sent") /\ reservation' = reservation
    BY <1>4 DEF Post, rows
  <2> HIDE DEF l, n
  <2>3. /\ Pending(attempts[l][n]) /\ fate[l][n] = "absent"
        /\ protocol[l] \in ServerOwned
    BY <2>1 DEF LaneInv, RequestShape, Pending
  <2>4. /\ reservation[l] = "active"
        /\ \A m \in Numbers : fate[l][m] \notin {"sent", "landed"}
    BY <2>1, <2>3, TransferIsAlone
  <2>5. Cash[l] = "held"
    BY <2>1, <2>4, CashValues DEF Moving, Spent
  <2>6. fate'[l][n] = "sent" /\ \A k \in Lanes \ {l} : Cash'[k] = Cash[k]
    BY <1>3, <2>1, <2>2
  <2>7. Cash'[l] = "moving"
    <3>1. \E m \in Numbers : fate'[l][m] = "sent"
      BY <2>1, <2>6
    <3>2. protocol'[l] \in ServerOwned
      BY <1>1, <2>3
    <3> QED
      BY <2>1, <3>1, <3>2, CashValuesNext DEF Moving
  <2> QED
    BY <2>1, <2>5, <2>6, <2>7, OneLaneChanges
<1>5. ASSUME NEW l \in Lanes, NEW n \in Numbers, WalletSends(l, n)
       PROVE UNCHANGED Cash
  <2>1. SetFate(l, n, "sent") /\ reservation' = reservation
    BY <1>5 DEF WalletSends, rows
  <2>2. protocol[l] \notin ServerOwned
    BY <1>5 DEF WalletSends, LaneInv, WalletShape
  <2>3. Cash'[l] = "held" /\ Cash[l] = "held"
    BY <1>1, <2>2, CashValues, CashValuesNext
  <2>4. \A k \in Lanes : Cash'[k] = Cash[k]
    BY <1>3, <2>1, <2>3
  <2> QED
    BY <2>4, CashIsFunction
<1>6. ASSUME NEW l \in Lanes, NEW n \in Numbers, Execute(l, n)
       PROVE [Promise!Next]_Cash
  <2>1. fate[l][n] = "sent" /\ reservation' = reservation
    BY <1>6 DEF Execute, rows
  <2>2. PICK f \in {"landed", "reverted", "dropped"} : SetFate(l, n, f)
    BY <1>6 DEF Execute
  <2>3. /\ \A m \in Numbers : fate'[l][m] = IF m = n THEN f ELSE fate[l][m]
        /\ \A k \in Lanes \ {l} : Cash'[k] = Cash[k]
    BY <1>3, <2>1, <2>2
  <2>4. CASE protocol[l] \notin ServerOwned
    <3>1. Cash'[l] = "held" /\ Cash[l] = "held"
      BY <1>1, <2>4, CashValues, CashValuesNext
    <3>2. UNCHANGED Cash
      BY <2>3, <3>1, CashIsFunction
    <3> QED
      BY <3>2
  <2>5. CASE protocol[l] \in ServerOwned
    <3>1. attempts[l][n].outcome = "ambiguous" /\ attempts[l][n].receipt = "none"
      <4>1. attempts[l][n].receipt \in {"none", "failed", "finalized"}
        BY DEF LaneInv, TypeOK, Row
      <4> QED
        BY <2>1, <2>5, <4>1 DEF LaneInv, FateShape, ServerOwned
    <3>2. /\ reservation[l] = "active"
          /\ \A m \in Numbers \ {n} : fate[l][m] \notin {"sent", "landed"}
      BY <2>1, <2>5, <3>1, TransferIsAlone DEF Pending
    <3>3. Cash[l] = "moving"
      BY <2>1, <2>5, CashValues DEF Moving
    <3>4. ~Moving(l)'
      BY <2>3, <3>2 DEF Moving
    <3>5. Cash'[l] \in {"spent", "held"}
      BY <1>1, <2>1, <2>5, <3>2, <3>4, CashValuesNext
    <3> QED
      BY <2>3, <3>3, <3>5, OneLaneChanges
  <2> QED
    BY <2>4, <2>5
<1> QED
  BY <1>2, <1>4, <1>5, <1>6, FateActions

\* The lanes the server owns implement LaneCash: cash that was given back never
\* moves, and cash that moved never moves again.
THEOREM LanesImplementCash == Spec => ImplementsLaneCash
<1>1. Init => Promise!Init
  <2> SUFFICES ASSUME Init PROVE \A l \in Lanes : Cash[l] = "held"
    BY CashIsFunction DEF Promise!Init
  <2> QED
    BY CashValues DEF Init, Moving, Spent
<1>2. LaneInv /\ CashShape /\ [Next]_vars => [Promise!Next]_Cash
  BY CashStep
<1> QED
  BY <1>1, <1>2, CashHolds, PTL DEF Spec, ImplementsLaneCash, Promise!Spec

=============================================================================

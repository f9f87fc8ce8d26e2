---------------------- MODULE DelegatedExecutorProofs ----------------------
(***************************************************************************)
(* Theorems of DelegatedExecutor for every set of receipts, children,      *)
(* router passes and executor workers.  RoutingInv relates the receipts,   *)
(* their children and what the passes remember; its core is that what a    *)
(* pass read of a finished child stays true, and that a child is left by   *)
(* its receipt only when it can no longer move the deposit.  CallInv adds  *)
(* the workers: while calls are shorter than the replay interval, one      *)
(* worker at a time is past the boundary of an attempt.                    *)
(* TriesInv bounds the tries of a receipt by the passes that may still     *)
(* have it tried again.                                                    *)
(***************************************************************************)
EXTENDS DelegatedExecutor, FiniteSetTheorems, TLAPS

\* Children are created for a receipt, and only created ones reach the wire.
OwnersMatch ==
  \A c \in Children : /\ owner[c] = NoReceipt <=> life[c] = "free"
                      /\ life[c] = "free" => wire[c] = "none"

BindingsMatch ==
  \A r \in Receipts :
    /\ receipt[r].status \in {"observed", "review"} => receipt[r].child = NoChild
    /\ receipt[r].status \in {"routing", "ready"} => receipt[r].child \in Children
    /\ receipt[r].child \in Children => owner[receipt[r].child] = r
    /\ receipt[r].status = "ready" => wire[receipt[r].child] = "landed"

\* Only finished children of web receipts are left behind.
DetachedIsOver ==
  \A c \in Children :
    owner[c] \in Receipts /\ receipt[owner[c]].child # c =>
      life[c] \in Over /\ ByClient(c)

EndsAreReal ==
  \A c \in Children :
    /\ life[c] = "completed" => wire[c] = "landed"
    /\ life[c] = "reverted" => wire[c] = "reverted"
    /\ ByClient(c) /\ life[c] \in {"planned", "failed", "cancelled"} => wire[c] = "none"

\* What a pass remembers of a child, and what it read of a finished one.
IsTrue(x) ==
  /\ x.status = "routing" =>
       x.receipt \in Receipts /\ x.child \in Children /\ owner[x.child] = x.receipt
  /\ x.read # "free" => x.status = "routing"
  /\ x.read \in {"completed"} \cup Over => life[x.child] = x.read

SeenIsTrue == \A w \in Routers : IsTrue(seen[w])

RoutingInv ==
  /\ RoutingTypeOK /\ OwnersMatch /\ BindingsMatch /\ DetachedIsOver
  /\ EndsAreReal /\ SeenIsTrue

-----------------------------------------------------------------------------
(* The kinds of steps.                                                     *)

\* The life of child c moves on.
Moves(c, to) ==
  /\ life[c] \in {"planned", "started", "ambiguous", "sent", "stuck"}
  /\ to \in Lives \ {"free", "planned"}
  /\ to = "completed" => wire[c] = "landed"
  /\ to = "reverted" => wire[c] = "reverted"
  /\ ByClient(c) /\ to \in {"failed", "cancelled"} => wire[c] = "none"
  /\ life' = [life EXCEPT ![c] = to]
  /\ UNCHANGED <<receipt, delegated, owner, wire, seen>>

\* The transfer of child c moves on.
Travels(c, to) ==
  /\ \/ wire[c] = "none" /\ to = "pending"
     \/ wire[c] = "pending" /\ to \in {"landed", "reverted"}
  /\ life[c] # "free"
  /\ ByClient(c) => wire[c] = "pending" \/ life[c] \in {"started", "ambiguous"}
  /\ wire' = [wire EXCEPT ![c] = to]
  /\ UNCHANGED <<receipt, delegated, owner, life, seen>>

\* Receipt r changes without a new child.
Turns(r) ==
  /\ \/ /\ receipt[r].status \in {"observed", "review"}
        /\ receipt'[r].status \in {"observed", "review", "recovery"}
        /\ receipt'[r].child = receipt[r].child
     \/ /\ receipt[r].status = "routing" /\ receipt'[r].status = "recovery"
        /\ receipt'[r].child = receipt[r].child
     \/ /\ receipt[r].status = "routing" /\ receipt'[r].status = "ready"
        /\ receipt'[r].child = receipt[r].child
        /\ wire[receipt[r].child] = "landed"
     \/ /\ receipt[r].status = "routing" /\ receipt'[r].status = "review"
        /\ receipt'[r].child = NoChild
        /\ life[receipt[r].child] \in Over /\ ByClient(receipt[r].child)
  /\ receipt' \in [Receipts -> ReceiptRow]
  /\ \A o \in Receipts \ {r} : receipt'[o] = receipt[o]
  /\ UNCHANGED <<delegated, owner, life, wire>>

\* Receipt r is bound to the new child c.
Seen == [receipt : Receipts \cup {NoReceipt}, status : Statuses,
         child : Children \cup {NoChild}, tries : Nat,
         begun : BOOLEAN, read : Lives]

Binds(r, c) ==
  /\ Linked(r, c)
  /\ receipt[r].status \in {"observed", "review"}
  /\ seen' \in [Routers -> Seen]
  /\ \A w \in Routers : seen'[w] = seen[w] \/ seen'[w] = Idle

\* Only what a pass remembers changes.
Looks ==
  /\ UNCHANGED <<receipt, delegated, owner, life, wire>>
  /\ RoutingTypeOK' /\ SeenIsTrue'

StepOfAKind ==
  \/ \E c \in Children : \E to \in Lives : Moves(c, to)
  \/ \E c \in Children : \E to \in {"pending", "landed", "reverted"} : Travels(c, to)
  \/ \E r \in Receipts : Turns(r) /\ RoutingTypeOK' /\ SeenIsTrue'
  \/ \E r \in Receipts : \E c \in Children : Binds(r, c)
  \/ Looks

LEMMA MovesKeeps ==
  ASSUME RoutingInv, NEW c \in Children, NEW to, Moves(c, to)
  PROVE  RoutingInv'
PROOF
<1>1. /\ life'[c] = to /\ \A d \in Children \ {c} : life'[d] = life[d]
      /\ UNCHANGED <<receipt, delegated, owner, wire, seen>>
      /\ life' \in [Children -> Lives]
  BY DEF Moves, RoutingInv, RoutingTypeOK
<1>2. \A d \in Children : ByClient(d)' = ByClient(d)
  BY <1>1 DEF ByClient
<1>3. RoutingTypeOK'
  BY <1>1 DEF RoutingInv, RoutingTypeOK
<1>4. OwnersMatch' /\ BindingsMatch'
  BY <1>1 DEF RoutingInv, OwnersMatch, BindingsMatch, Moves
<1>5. life[c] \notin Over \cup {"completed", "free"}
  BY DEF Moves, Over
<1>6. DetachedIsOver'
  BY <1>1, <1>2, <1>5 DEF RoutingInv, DetachedIsOver
<1>7. EndsAreReal'
  BY <1>1, <1>2 DEF RoutingInv, EndsAreReal, Moves
<1>8. SeenIsTrue'
  BY <1>1, <1>5 DEF RoutingInv, SeenIsTrue, IsTrue, Over
<1> QED
  BY <1>3, <1>4, <1>6, <1>7, <1>8 DEF RoutingInv

LEMMA TravelsKeeps ==
  ASSUME RoutingInv, NEW c \in Children, NEW to, Travels(c, to)
  PROVE  RoutingInv'
PROOF
<1>1. /\ wire'[c] = to /\ \A d \in Children \ {c} : wire'[d] = wire[d]
      /\ UNCHANGED <<receipt, delegated, owner, life, seen>>
      /\ wire' \in [Children -> {"none", "pending", "landed", "reverted"}]
  BY DEF Travels, RoutingInv, RoutingTypeOK
<1>2. RoutingTypeOK'
  BY <1>1 DEF RoutingInv, RoutingTypeOK
<1>3. OwnersMatch' /\ DetachedIsOver' /\ SeenIsTrue'
  BY <1>1 DEF RoutingInv, OwnersMatch, DetachedIsOver, SeenIsTrue, IsTrue,
       Travels, ByClient
<1>4. BindingsMatch'
  <2>1. wire[c] # "landed"
    BY DEF Travels
  <2> QED
    BY <1>1, <2>1 DEF RoutingInv, BindingsMatch
<1>5. EndsAreReal'
  BY <1>1 DEF RoutingInv, EndsAreReal, Travels, ByClient
<1> QED
  BY <1>2, <1>3, <1>4, <1>5 DEF RoutingInv

LEMMA TurnsKeeps ==
  ASSUME RoutingInv, NEW r \in Receipts, Turns(r), RoutingTypeOK', SeenIsTrue'
  PROVE  RoutingInv'
PROOF
<1>1. /\ \A o \in Receipts \ {r} : receipt'[o] = receipt[o]
      /\ UNCHANGED <<delegated, owner, life, wire>>
  BY DEF Turns
<1>2. OwnersMatch' /\ EndsAreReal'
  BY <1>1 DEF RoutingInv, OwnersMatch, EndsAreReal, ByClient
<1>3. BindingsMatch'
  BY <1>1, NothingAssumption DEF RoutingInv, BindingsMatch, Turns
<1>4. DetachedIsOver'
  BY <1>1 DEF RoutingInv, DetachedIsOver, BindingsMatch, Turns, ByClient
<1> QED
  BY <1>2, <1>3, <1>4 DEF RoutingInv

\* A new child is free before and belongs to nobody.
LEMMA BindsKeeps ==
  ASSUME RoutingInv, NEW r \in Receipts, NEW c \in Children, Binds(r, c)
  PROVE  RoutingInv'
PROOF
<1> USE DEF Binds
<1>1. /\ life[c] = "free" /\ owner[c] = NoReceipt /\ wire[c] = "none"
      /\ life'[c] = "planned" /\ owner'[c] = r
      /\ \A d \in Children \ {c} : life'[d] = life[d] /\ owner'[d] = owner[d]
      /\ life' \in [Children -> Lives]
      /\ owner' \in [Children -> Receipts \cup {NoReceipt}]
      /\ UNCHANGED <<delegated, wire>>
  BY DEF Linked, RoutingInv, RoutingTypeOK, OwnersMatch, Lives
<1>2. /\ receipt'[r].status = "routing" /\ receipt'[r].child = c
      /\ \A o \in Receipts \ {r} : receipt'[o] = receipt[o]
      /\ receipt' \in [Receipts -> ReceiptRow]
  <2>1. receipt' = [receipt EXCEPT ![r] =
          [@ EXCEPT !.status = "routing", !.child = c, !.quoted = FALSE]]
    BY DEF Linked, RoutingInv, RoutingTypeOK, ReceiptRow
  <2>2. receipt[r] \in ReceiptRow
    BY DEF RoutingInv, RoutingTypeOK
  <2>3. [receipt[r] EXCEPT !.status = "routing", !.child = c, !.quoted = FALSE]
          \in ReceiptRow
    BY <2>2 DEF ReceiptRow, Statuses
  <2> QED
    BY <2>1, <2>2, <2>3 DEF RoutingInv, RoutingTypeOK, ReceiptRow
<1>3. RoutingTypeOK'
  BY <1>1, <1>2 DEF RoutingInv, RoutingTypeOK, Seen
<1>4. receipt[r].child = NoChild
  BY DEF RoutingInv, BindingsMatch
<1>5. OwnersMatch' /\ EndsAreReal'
  BY <1>1, NothingAssumption DEF RoutingInv, OwnersMatch, EndsAreReal, ByClient
<1>6. BindingsMatch'
  BY <1>1, <1>2, NothingAssumption DEF RoutingInv, BindingsMatch
<1>7. DetachedIsOver'
  BY <1>1, <1>2, <1>4, NothingAssumption DEF RoutingInv, DetachedIsOver, ByClient
<1>8. SeenIsTrue'
  BY <1>1, NothingAssumption DEF RoutingInv, SeenIsTrue, IsTrue, Idle, Over
<1> QED
  BY <1>3, <1>5, <1>6, <1>7, <1>8 DEF RoutingInv

LEMMA KindKeeps == RoutingInv /\ StepOfAKind => RoutingInv'
PROOF
<1> SUFFICES ASSUME RoutingInv, StepOfAKind PROVE RoutingInv'
  OBVIOUS
<1>1. CASE Looks
  BY <1>1 DEF Looks, RoutingInv, OwnersMatch, BindingsMatch, DetachedIsOver,
    EndsAreReal, ByClient
<1> QED
  BY <1>1, MovesKeeps, TravelsKeeps, TurnsKeeps, BindsKeeps DEF StepOfAKind

-----------------------------------------------------------------------------
(* Each kind of step is a step of DepositConversion, or none.              *)

LEMMA KindConverts ==
  RoutingInv /\ StepOfAKind => [Conversion!Next]_(Conversion!vars)
PROOF
<1> SUFFICES ASSUME RoutingInv, StepOfAKind
             PROVE  [Conversion!Next]_(Conversion!vars)
  OBVIOUS
<1>1. ASSUME UNCHANGED <<receipt, wire>> PROVE UNCHANGED Conversion!vars
  BY <1>1 DEF Conversion!vars, Bound, Phases, Phase, Moved
<1>2. ASSUME NEW c \in Children, NEW to \in {"pending", "landed", "reverted"},
             Travels(c, to)
      PROVE  [Conversion!Next]_(Conversion!vars)
  <2>1. /\ wire' = [wire EXCEPT ![c] = to] /\ wire[c] # "landed"
        /\ wire \in [Children -> {"none", "pending", "landed", "reverted"}]
        /\ UNCHANGED <<receipt, life, owner, delegated>>
    BY <1>2 DEF Travels, RoutingInv, RoutingTypeOK
  <2>2. UNCHANGED <<Bound, Phases>>
    BY <2>1 DEF Bound, Phases, Phase
  <2>3. CASE to # "landed"
    <3>1. Moved' = Moved
      BY <2>1, <2>3 DEF Moved
    <3> QED
      BY <2>2, <3>1 DEF Conversion!vars
  <2>4. CASE to = "landed"
    <3> DEFINE r == owner[c]
    <3>1. wire[c] = "pending" /\ life[c] # "free"
      BY <1>2, <2>4 DEF Travels
    <3>2. r \in Receipts
      BY <3>1 DEF RoutingInv, RoutingTypeOK, OwnersMatch
    <3>3. receipt[r].child = c
      BY <3>1, <3>2 DEF RoutingInv, DetachedIsOver, EndsAreReal, Over
    <3>4. receipt[r].status \in {"routing", "recovery"}
      BY <3>1, <3>2, <3>3, NothingAssumption
         DEF RoutingInv, BindingsMatch, RoutingTypeOK, ReceiptRow, Statuses
    <3>5. Phases[r] \in {"converting", "stopped"} /\ Bound[r] = c
      BY <3>2, <3>3, <3>4 DEF Phases, Phase, Bound
    <3>6. Moved' = Moved \cup {c}
      BY <2>1, <2>4 DEF Moved
    <3>7. Conversion!Move(r)
      BY <2>2, <3>5, <3>6, NothingAssumption DEF Conversion!Move
    <3> QED
      BY <3>2, <3>7 DEF Conversion!Next
  <2> QED
    BY <2>3, <2>4
<1>3. ASSUME NEW r \in Receipts, Turns(r)
      PROVE  [Conversion!Next]_(Conversion!vars)
  <2>1. /\ \A o \in Receipts \ {r} : receipt'[o] = receipt[o]
        /\ UNCHANGED <<delegated, owner, life, wire>>
    BY <1>3 DEF Turns
  <2>2. Moved' = Moved
    BY <2>1 DEF Moved
  <2>3. /\ Phases' = [Phases EXCEPT ![r] = Phase(r)']
        /\ Bound' = [Bound EXCEPT ![r] = receipt'[r].child]
    <3>1. \A o \in Receipts \ {r} : Phase(o)' = Phase(o)
      BY <2>1 DEF Phase
    <3>2. Phases' = [Phases EXCEPT ![r] = Phase(r)']
      BY <3>1 DEF Phases
    <3> QED
      BY <2>1, <3>2 DEF Bound
  <2>4. Phases[r] = Phase(r) /\ Bound[r] = receipt[r].child
    BY DEF Phases, Bound
  <2>5. CASE /\ receipt[r].status \in {"observed", "review", "routing"}
             /\ receipt'[r].status = "recovery"
             /\ receipt'[r].child = receipt[r].child
    <3>1. Phase(r) \in {"held", "converting"} /\ Phase(r)' = "stopped"
      BY <2>5 DEF Phase
    <3>2. Bound' = Bound
      BY <2>3, <2>5 DEF Bound
    <3>3. Conversion!Stop(r)
      BY <2>2, <2>3, <2>4, <3>1, <3>2 DEF Conversion!Stop
    <3> QED
      BY <3>3 DEF Conversion!Next
  <2>6. CASE /\ receipt[r].status \in {"observed", "review"}
             /\ receipt'[r].status \in {"observed", "review"}
             /\ receipt'[r].child = receipt[r].child
    <3>1. Phase(r)' = Phase(r)
      BY <2>6 DEF Phase
    <3>2. Bound' = Bound /\ Phases' = Phases
      BY <2>3, <2>6, <3>1 DEF Bound, Phases
    <3> QED
      BY <2>2, <3>2 DEF Conversion!vars
  <2>7. CASE /\ receipt[r].status = "routing" /\ receipt'[r].status = "ready"
             /\ receipt'[r].child = receipt[r].child
             /\ wire[receipt[r].child] = "landed"
    <3>1. Phase(r) = "converting" /\ Phase(r)' = "converted"
      BY <2>7 DEF Phase
    <3>2. Bound' = Bound
      BY <2>3, <2>7 DEF Bound
    <3>3. Bound[r] \in Moved
      BY <2>4, <2>7 DEF Moved, RoutingInv, BindingsMatch
    <3>4. Conversion!Deliver(r)
      BY <2>2, <2>3, <2>4, <3>1, <3>2, <3>3 DEF Conversion!Deliver
    <3> QED
      BY <3>4 DEF Conversion!Next
  <2>8. CASE /\ receipt[r].status = "routing" /\ receipt'[r].status = "review"
             /\ receipt'[r].child = NoChild
             /\ life[receipt[r].child] \in Over /\ ByClient(receipt[r].child)
    <3>1. Phase(r) = "converting" /\ Phase(r)' = "held"
      BY <2>8 DEF Phase
    <3>2. Bound[r] \notin Moved
      BY <2>4, <2>8 DEF Moved, RoutingInv, EndsAreReal, Over
    <3>3. Conversion!Return(r)
      BY <2>2, <2>3, <2>4, <2>8, <3>1, <3>2 DEF Conversion!Return
    <3> QED
      BY <3>3 DEF Conversion!Next
  <2> QED
    BY <1>3, <2>5, <2>6, <2>7, <2>8 DEF Turns
<1>4. ASSUME NEW r \in Receipts, NEW c \in Children, Binds(r, c)
      PROVE  [Conversion!Next]_(Conversion!vars)
  <2>1. /\ life[c] = "free" /\ UNCHANGED wire
        /\ receipt' = [receipt EXCEPT ![r].status = "routing", ![r].child = c,
                                      ![r].quoted = FALSE]
        /\ receipt[r].status \in {"observed", "review"}
    BY <1>4 DEF Binds, Linked
  <2>2. /\ receipt'[r].status = "routing" /\ receipt'[r].child = c
        /\ \A o \in Receipts \ {r} : receipt'[o] = receipt[o]
    BY <2>1 DEF RoutingInv, RoutingTypeOK, ReceiptRow
  <2>3. /\ Phases' = [Phases EXCEPT ![r] = "converting"]
        /\ Bound' = [Bound EXCEPT ![r] = c]
        /\ Moved' = Moved
    <3>1. \A o \in Receipts \ {r} : Phase(o)' = Phase(o)
      BY <2>2 DEF Phase
    <3>2. Phase(r)' = "converting"
      BY <2>2 DEF Phase
    <3>3. Phases' = [Phases EXCEPT ![r] = "converting"]
      BY <3>1, <3>2 DEF Phases
    <3>4. Bound' = [Bound EXCEPT ![r] = c]
      BY <2>2 DEF Bound
    <3> QED
      BY <2>1, <2>2, <3>3, <3>4 DEF Moved
  <2>4. Phases[r] = "held"
    BY <2>1 DEF Phases, Phase
  <2>5. c \notin Moved /\ \A o \in Receipts : Bound[o] # c
    BY <2>1, NothingAssumption
       DEF RoutingInv, OwnersMatch, BindingsMatch, Moved, Bound
  <2>6. Conversion!Begin(r, c)
    BY <2>3, <2>4, <2>5 DEF Conversion!Begin
  <2> QED
    BY <2>6 DEF Conversion!Next
<1> QED
  BY <1>1, <1>2, <1>3, <1>4 DEF StepOfAKind, Moves, Looks

-----------------------------------------------------------------------------
(* Every action of the router, the user and the chain is of a kind.        *)

LEMMA SeenStep ==
  ASSUME RoutingInv, NEW w \in Routers, NEW x \in Seen, IsTrue(x),
         seen' = [seen EXCEPT ![w] = x], UNCHANGED <<owner, life>>
  PROVE  seen' \in [Routers -> Seen] /\ SeenIsTrue'
BY DEF RoutingInv, RoutingTypeOK, Seen, SeenIsTrue, IsTrue

LEMMA IdleIsTrue == Idle \in Seen /\ IsTrue(Idle)
BY TriesAssumption, NothingAssumption
   DEF Idle, Seen, IsTrue, Statuses, Lives, Over

LEMMA ListLooks ==
  ASSUME RoutingInv, NEW w \in Routers, NEW r \in Receipts, List(w, r)
  PROVE  Looks
PROOF
<1> DEFINE c == receipt[r].child
           x == [receipt |-> r, status |-> receipt[r].status, child |-> c,
                 tries |-> receipt[r].tries, read |-> "free",
                 begun |-> c \in Children /\ Begun(c)]
<1>1. seen' = [seen EXCEPT ![w] = x] /\ UNCHANGED <<receipt, delegated, owner, life, wire>>
  BY DEF List
<1>2. receipt[r] \in ReceiptRow
  BY DEF RoutingInv, RoutingTypeOK
<1>3. x \in Seen
  <2>1. (c \in Children /\ Begun(c)) \in BOOLEAN
    OBVIOUS
  <2> HIDE DEF c
  <2>2. c \in Children \cup {NoChild}
    BY <1>2 DEF c, ReceiptRow
  <2> QED
    BY <1>2, <2>1, <2>2 DEF Seen, ReceiptRow, Lives, Over
<1>4. IsTrue(x)
  BY DEF IsTrue, RoutingInv, BindingsMatch, Over
<1>5. seen' \in [Routers -> Seen] /\ SeenIsTrue'
  BY <1>1, <1>3, <1>4, SeenStep
<1> QED
  BY <1>1, <1>5 DEF Looks, RoutingInv, RoutingTypeOK, Seen

LEMMA ReadLooks ==
  ASSUME RoutingInv, NEW w \in Routers, ReadChild(w)
  PROVE  Looks
PROOF
<1> DEFINE x == [seen[w] EXCEPT !.read = life[seen[w].child]]
<1>1. /\ seen' = [seen EXCEPT ![w] = x]
      /\ UNCHANGED <<receipt, delegated, owner, life, wire>>
      /\ seen[w].status = "routing"
  BY DEF ReadChild, RoutingInv, RoutingTypeOK
<1>2. seen[w] \in Seen /\ IsTrue(seen[w]) /\ seen[w].child \in Children
  BY <1>1 DEF RoutingInv, RoutingTypeOK, Seen, SeenIsTrue, IsTrue
<1>3. x \in Seen /\ IsTrue(x)
  BY <1>1, <1>2 DEF Seen, IsTrue, RoutingInv, RoutingTypeOK
<1>4. seen' \in [Routers -> Seen] /\ SeenIsTrue'
  BY <1>1, <1>3, SeenStep
<1> QED
  BY <1>1, <1>4 DEF Looks, RoutingInv, RoutingTypeOK, Seen

LEMMA IdleLooks ==
  ASSUME RoutingInv, NEW w \in Routers, Leave(w) \/ Defer(w)
  PROVE  Looks
PROOF
<1>1. /\ seen' = [seen EXCEPT ![w] = Idle]
      /\ UNCHANGED <<receipt, delegated, owner, life, wire>>
  BY DEF Leave, Defer
<1>2. seen' \in [Routers -> Seen] /\ SeenIsTrue'
  BY <1>1, SeenStep, IdleIsTrue
<1> QED
  BY <1>1, <1>2 DEF Looks, RoutingInv, RoutingTypeOK, Seen

\* A pass that ends with receipt r changed, or unchanged.
LEMMA EndOfPass ==
  ASSUME RoutingInv, NEW w \in Routers, NEW r \in Receipts, NEW row \in ReceiptRow,
         seen' = [seen EXCEPT ![w] = Idle] \/ seen' = seen,
         UNCHANGED <<delegated, owner, life, wire>>,
         \/ receipt' = receipt
         \/ receipt' = [receipt EXCEPT ![r] = row] /\ Turns(r)
  PROVE  StepOfAKind
PROOF
<1>1. seen' \in [Routers -> Seen] /\ SeenIsTrue'
  <2>1. CASE seen' = [seen EXCEPT ![w] = Idle]
    BY <2>1, SeenStep, IdleIsTrue
  <2>2. CASE seen' = seen
    BY <2>2 DEF RoutingInv, RoutingTypeOK, Seen, SeenIsTrue, IsTrue
  <2> QED
    BY <2>1, <2>2
<1>2. RoutingTypeOK'
  BY <1>1 DEF RoutingInv, RoutingTypeOK, Seen
<1> QED
  BY <1>1, <1>2 DEF StepOfAKind, Looks

LEMMA RecordIsOfAKind ==
  ASSUME RoutingInv, NEW w \in Routers, Record(w) PROVE StepOfAKind
PROOF
<1> DEFINE r == seen[w].receipt
<1>1. /\ r \in Receipts
      /\ seen' = [seen EXCEPT ![w] = Idle]
      /\ UNCHANGED <<delegated, owner, life, wire>>
  BY DEF Record
<1>2. receipt \in [Receipts -> ReceiptRow] /\ receipt[r] \in ReceiptRow
  BY <1>1 DEF RoutingInv, RoutingTypeOK
<1>3. CASE receipt' = receipt
  BY <1>1, <1>2, <1>3, EndOfPass
<1>4. ASSUME NEW row \in ReceiptRow, receipt' = [receipt EXCEPT ![r] = row],
             receipt[r].status \in {"observed", "review"},
             row.status \in {"observed", "review", "recovery"},
             row.child = receipt[r].child
      PROVE  StepOfAKind
  <2>1. Turns(r)
    BY <1>1, <1>2, <1>4 DEF Turns
  <2> QED
    BY <1>1, <1>4, <2>1, EndOfPass
<1> DEFINE planned == [receipt[r] EXCEPT !.status = "review", !.planned = TRUE,
                                         !.tries = @ + 1]
           stopped == [receipt[r] EXCEPT !.status = "recovery", !.tries = @ + 1]
           again == [receipt[r] EXCEPT !.tries = @ + 1]
<1>5. planned \in ReceiptRow /\ stopped \in ReceiptRow /\ again \in ReceiptRow
  <2>1. receipt[r].tries + 1 \in Nat
    BY <1>2 DEF ReceiptRow
  <2> QED
    BY <1>2, <2>1 DEF ReceiptRow, Statuses
<1>6. /\ planned.status = "review" /\ planned.child = receipt[r].child
      /\ stopped.status = "recovery" /\ stopped.child = receipt[r].child
      /\ again.status = receipt[r].status /\ again.child = receipt[r].child
  BY <1>2 DEF ReceiptRow
<1>7. \/ receipt' = receipt
      \/ /\ receipt[r].status \in {"observed", "review"}
         /\ \/ receipt' = [receipt EXCEPT ![r] = planned]
            \/ receipt' = [receipt EXCEPT ![r] = stopped]
            \/ receipt' = [receipt EXCEPT ![r] = again]
  BY <1>1, <1>2 DEF Record, ReceiptRow
<1> HIDE DEF planned, stopped, again
<1> QED
  BY <1>3, <1>4, <1>5, <1>6, <1>7

LEMMA SettleIsOfAKind ==
  ASSUME RoutingInv, NEW w \in Routers, Settle(w) PROVE StepOfAKind
PROOF
<1> DEFINE s == seen[w]
           r == s.receipt
           row(new) == [receipt[r] EXCEPT
             !.status = new, !.child = IF new = "review" THEN NoChild ELSE @,
             !.planned = @ \/ new = "review"]
<1>1. /\ r \in Receipts /\ s.read # "free"
      /\ seen' = [seen EXCEPT ![w] = Idle]
      /\ UNCHANGED <<delegated, owner, life, wire>>
  BY DEF Settle
<1>2. /\ receipt \in [Receipts -> ReceiptRow] /\ receipt[r] \in ReceiptRow
      /\ IsTrue(s) /\ s.child \in Children /\ owner[s.child] = r
  BY <1>1 DEF RoutingInv, RoutingTypeOK, SeenIsTrue, IsTrue
<1>3. CASE receipt' = receipt
  BY <1>1, <1>2, <1>3, EndOfPass
<1>4. CASE receipt' # receipt
  <2>1. PICK new \in {Outcome(s)} \cup (IF Outcome(s) = "review" THEN {"recovery"} ELSE {}) :
          /\ new # "routing"
          /\ receipt[r].status = "routing" /\ receipt[r].child = s.child
          /\ receipt' = [receipt EXCEPT ![r].status = new,
               ![r].child = IF new = "review" THEN NoChild ELSE @,
               ![r].planned = @ \/ new = "review"]
    BY <1>1, <1>4 DEF Settle
  <2>2. /\ new \in {"ready", "review", "recovery"}
        /\ new = "ready" => s.read = "completed"
        /\ new = "review" => s.read \in Over /\ r \notin delegated
    BY <2>1 DEF Outcome
  <2>3. row(new) \in ReceiptRow
    BY <1>2, <2>2 DEF ReceiptRow, Statuses
  <2>8. receipt' = [receipt EXCEPT ![r] = row(new)]
    BY <1>1, <1>2, <2>1 DEF ReceiptRow
  <2>4. /\ receipt'[r] = row(new)
        /\ row(new).status = new
        /\ row(new).child = IF new = "review" THEN NoChild ELSE receipt[r].child
        /\ receipt' \in [Receipts -> ReceiptRow]
        /\ \A o \in Receipts \ {r} : receipt'[o] = receipt[o]
    BY <1>1, <1>2, <2>3, <2>8 DEF ReceiptRow
  <2>5. new = "ready" => wire[receipt[r].child] = "landed"
    BY <1>2, <2>1, <2>2 DEF IsTrue, RoutingInv, EndsAreReal
  <2>6. new = "review" => life[receipt[r].child] \in Over /\ ByClient(receipt[r].child)
    BY <1>1, <1>2, <2>1, <2>2 DEF IsTrue, ByClient
  <2>7. Turns(r)
    BY <1>1, <2>1, <2>2, <2>4, <2>5, <2>6 DEF Turns
  <2> QED
    BY <1>1, <2>3, <2>8, <2>7, EndOfPass
<1> QED
  BY <1>3, <1>4

LEMMA ReviewIsOfAKind ==
  ASSUME RoutingInv, NEW r \in Receipts, Quote(r) \/ GiveUpReview(r)
  PROVE  StepOfAKind
PROOF
<1>1. /\ receipt[r].status = "review"
      /\ UNCHANGED <<delegated, owner, life, wire, seen>>
  BY DEF Quote, GiveUpReview
<1>2. receipt \in [Receipts -> ReceiptRow] /\ receipt[r] \in ReceiptRow
  BY DEF RoutingInv, RoutingTypeOK
<1>3. PICK row \in ReceiptRow : /\ receipt' = [receipt EXCEPT ![r] = row]
                                /\ row.status \in {"review", "recovery"}
                                /\ row.child = receipt[r].child
  <2>1. CASE Quote(r)
    <3>1. [receipt[r] EXCEPT !.quoted = ~@] \in ReceiptRow
      BY <1>2 DEF ReceiptRow
    <3> QED
      BY <1>1, <1>2, <2>1, <3>1 DEF Quote, ReceiptRow
  <2>2. CASE GiveUpReview(r)
    <3>1. [receipt[r] EXCEPT !.status = "recovery"] \in ReceiptRow
      BY <1>2 DEF ReceiptRow, Statuses
    <3> QED
      BY <1>1, <1>2, <2>2, <3>1 DEF GiveUpReview, ReceiptRow
  <2> QED
    BY <2>1, <2>2
<1>4. Turns(r)
  BY <1>1, <1>2, <1>3 DEF Turns
<1>5. RoutingTypeOK' /\ SeenIsTrue'
  BY <1>1, <1>2, <1>3 DEF RoutingInv, RoutingTypeOK, SeenIsTrue, IsTrue
<1> QED
  BY <1>4, <1>5 DEF StepOfAKind

LEMMA LinkIsOfAKind ==
  ASSUME RoutingInv, NEW c \in Children,
         \/ \E w \in Routers : Create(w, c)
         \/ \E r \in Receipts : CommitReview(r, c)
  PROVE  StepOfAKind
PROOF
<1>1. ASSUME NEW w \in Routers, Create(w, c) PROVE StepOfAKind
  <2>1. /\ seen[w].receipt \in Receipts
        /\ Binds(seen[w].receipt, c)
    BY <1>1, SeenStep, IdleIsTrue
       DEF Create, Binds, RoutingInv, RoutingTypeOK, Seen
  <2> QED
    BY <2>1 DEF StepOfAKind
<1>2. ASSUME NEW r \in Receipts, CommitReview(r, c) PROVE StepOfAKind
  <2>1. Binds(r, c)
    BY <1>2 DEF CommitReview, Binds, RoutingInv, RoutingTypeOK, Seen
  <2> QED
    BY <2>1 DEF StepOfAKind
<1> QED
  BY <1>1, <1>2

LEMMA ChildIsOfAKind ==
  ASSUME RoutingInv, NEW c \in Children,
         \/ ClientStarts(c) \/ WalletSends(c) \/ ClientReports(c)
         \/ Cancel(c) \/ Execute(c) \/ Observe(c) \/ Escalate(c)
  PROVE  StepOfAKind
PROOF
<1>1. CASE WalletSends(c)
  <2>1. Travels(c, "pending")
    BY <1>1 DEF WalletSends, Travels
  <2> QED
    BY <2>1 DEF StepOfAKind
<1>2. CASE Execute(c)
  <2>1. life[c] # "free"
    BY <1>2 DEF Execute, RoutingInv, OwnersMatch
  <2>2. PICK to \in {"landed", "reverted"} : Travels(c, to)
    BY <1>2, <2>1 DEF Execute, Travels
  <2> QED
    BY <2>2 DEF StepOfAKind
<1>3. ASSUME ClientStarts(c) \/ ClientReports(c) \/ Cancel(c) \/ Observe(c) \/ Escalate(c)
      PROVE  \E to \in Lives : Moves(c, to)
  BY <1>3 DEF ClientStarts, ClientReports, Cancel, Observe, Escalate, Lives1, Moves,
    Lives, Over, RoutingInv, EndsAreReal, ByClient
<1> QED
  BY <1>1, <1>2, <1>3 DEF StepOfAKind

LEMMA RoutingIsOfAKind == RoutingInv /\ RoutingNext => StepOfAKind
BY ListLooks, ReadLooks, IdleLooks, RecordIsOfAKind, SettleIsOfAKind,
  ReviewIsOfAKind, LinkIsOfAKind, ChildIsOfAKind DEF RoutingNext, StepOfAKind

-----------------------------------------------------------------------------
(* The executor.                                                           *)

\* Workers hold children of Telegram receipts, and only those lapse.
HoldsOwn ==
  /\ \A w \in Executors :
       /\ exec[w].doing = "idle" => exec[w].child = NoChild
       /\ exec[w].doing # "idle" => exec[w].child \in Children /\ ByExecutor(exec[w].child)
       /\ exec[w].doing = "answered" => exec[w].answer # "none"
  /\ \A c \in lapsed : ByExecutor(c)

ExecInv == TypeOK /\ RoutingInv /\ HoldsOwn

LEMMA RestIsOfAKind == ExecInv /\ UNCHANGED routingVars => StepOfAKind
BY DEF routingVars, StepOfAKind, Looks, ExecInv, RoutingInv, RoutingTypeOK,
  SeenIsTrue, IsTrue

LEMMA WritesIsOfAKind ==
  ASSUME NEW c \in Children, ByExecutor(c),
         NEW to \in {"started", "ambiguous", "sent", "failed"},
         life[c] \in {"planned", "started", "ambiguous"},
         Writes(c, to), UNCHANGED wire
  PROVE  StepOfAKind
PROOF
<1>1. Moves(c, to)
  BY DEF Writes, Moves, Lives, Over, ByExecutor, ByClient
<1>2. to \in Lives
  BY DEF Lives, Over
<1> QED
  BY <1>1, <1>2 DEF StepOfAKind

LEMMA ClaimIsOfAKind ==
  ASSUME ExecInv, NEW c \in Children,
         \/ RejectAttempt(c) \/ Lapse(c) \/ LookupReference(c)
         \/ \E w \in Executors : ClaimAttempt(w, c) \/ Recover(w, c)
  PROVE  StepOfAKind
BY RestIsOfAKind, WritesIsOfAKind
   DEF RejectAttempt, Lapse, LookupReference, ClaimAttempt, Recover

LEMMA WorkerIsOfAKind ==
  ASSUME ExecInv, NEW w \in Executors,
         Cross(w) \/ Void(w) \/ Inspect(w) \/ Call(w) \/ Resolve(w) \/ Drop(w)
  PROVE  StepOfAKind
PROOF
<1> DEFINE c == exec[w].child
<1>1. ASSUME exec[w].doing # "idle" PROVE c \in Children /\ ByExecutor(c)
  BY <1>1 DEF ExecInv, HoldsOwn
<1>2. CASE Inspect(w) \/ Drop(w)
  BY <1>2, RestIsOfAKind DEF Inspect, Drop
<1>3. CASE Cross(w) \/ Void(w) \/ Resolve(w)
  <2>1. exec[w].doing # "idle"
    BY <1>3 DEF Cross, Void, Resolve
  <2>2. \/ UNCHANGED routingVars
        \/ /\ UNCHANGED wire
           /\ life[c] \in {"started", "ambiguous"}
           /\ \E to \in {"ambiguous", "sent", "failed"} : Writes(c, to)
    BY <1>3 DEF Cross, Void, Resolve, routingVars
  <2> QED
    BY <1>1, <2>1, <2>2, RestIsOfAKind, WritesIsOfAKind
<1>4. CASE Call(w)
  <2>1. c \in Children /\ ByExecutor(c)
    BY <1>1, <1>4 DEF Call
  <2>2. CASE wire[c] # "none"
    <3>1. wire' = wire
      BY <1>4, <2>1, <2>2 DEF Call, ExecInv, RoutingInv, RoutingTypeOK
    <3> QED
      BY <1>4, <3>1, RestIsOfAKind DEF Call, routingVars
  <2>3. CASE wire[c] = "none"
    <3>1. life[c] # "free" /\ ~ByClient(c)
      BY <2>1, NothingAssumption
         DEF ByExecutor, ByClient, ExecInv, RoutingInv, RoutingTypeOK, OwnersMatch
    <3>2. Travels(c, "pending")
      BY <1>4, <2>1, <2>3, <3>1 DEF Call, Travels, ExecInv, RoutingInv, RoutingTypeOK
    <3> QED
      BY <2>1, <3>2 DEF StepOfAKind
  <2> QED
    BY <2>2, <2>3
<1> QED
  BY <1>2, <1>3, <1>4

\* What belongs to the executor stays its own.
LEMMA OwnStays ==
  ASSUME RoutingInv, StepOfAKind, NEW c \in Children, ByExecutor(c)
  PROVE  ByExecutor(c)'
PROOF
<1>1. owner[c] \in Receipts /\ life[c] # "free"
  BY NothingAssumption DEF ByExecutor, RoutingInv, RoutingTypeOK, OwnersMatch
<1>2. UNCHANGED delegated /\ owner'[c] = owner[c]
  BY <1>1 DEF StepOfAKind, Moves, Travels, Turns, Binds, Linked, Looks,
    RoutingInv, RoutingTypeOK
<1> QED
  BY <1>2 DEF ByExecutor

LEMMA ExecInit == Init => ExecInv
PROOF
<1> SUFFICES ASSUME Init PROVE ExecInv
  OBVIOUS
<1>1. RoutingTypeOK
  <2>1. ASSUME NEW r \in Receipts PROVE receipt[r] \in ReceiptRow
    <3>1. PICK st \in {"observed", "review"} :
            receipt[r] = [status |-> st, child |-> NoChild, planned |-> FALSE,
                          quoted |-> FALSE, tries |-> 0]
      BY DEF Init, RoutingInit
    <3> QED
      BY <3>1 DEF ReceiptRow, Statuses
  <2>2. receipt \in [Receipts -> ReceiptRow]
    BY <2>1 DEF Init, RoutingInit
  <2> QED
    BY <2>2, IdleIsTrue DEF Init, RoutingInit, RoutingTypeOK, Seen, Lives
<1>2. \A r \in Receipts : receipt[r].status \in {"observed", "review"}
                          /\ receipt[r].child = NoChild
  BY DEF Init, RoutingInit
<1>3. OwnersMatch /\ BindingsMatch /\ DetachedIsOver /\ EndsAreReal
  BY <1>2, NothingAssumption DEF Init, RoutingInit, OwnersMatch, BindingsMatch,
    DetachedIsOver, EndsAreReal, Over
<1>4. SeenIsTrue
  BY IdleIsTrue DEF Init, RoutingInit, SeenIsTrue
<1>5. TypeOK /\ HoldsOwn
  BY <1>1 DEF Init, TypeOK, HoldsOwn, Free
<1> QED
  BY <1>1, <1>3, <1>4, <1>5 DEF ExecInv, RoutingInv

LEMMA StepIsOfAKind == ExecInv /\ [Next]_vars => StepOfAKind
PROOF
<1> SUFFICES ASSUME ExecInv, [Next]_vars PROVE StepOfAKind
  OBVIOUS
<1>1. CASE UNCHANGED vars
  BY <1>1, RestIsOfAKind DEF vars, routingVars
<1>2. CASE Routed(RoutingNext)
  BY <1>2, RoutingIsOfAKind DEF Routed, ExecInv
<1> QED
  BY <1>1, <1>2, ClaimIsOfAKind, WorkerIsOfAKind DEF Next

\* The workers and the lapsed attempts, in one step.
ExecRow == [child : Children \cup {NoChild},
            doing : {"idle", "claimed", "execute", "replay", "answered"},
            answer : {"none", "transaction", "not_broadcast"}]

WorkerStep(w, x) ==
  /\ x \in ExecRow
  /\ x.doing = "idle" => x.child = NoChild
  /\ x.doing # "idle" => x.child \in Children /\ ByExecutor(x.child)
  /\ x.doing = "answered" => x.answer # "none"
  /\ exec' = [exec EXCEPT ![w] = x]

LEMMA WorkerSteps ==
  ASSUME ExecInv, [Next]_vars
  PROVE  /\ UNCHANGED exec \/ \E w \in Executors : \E x \in ExecRow : WorkerStep(w, x)
         /\ lapsed' \subseteq lapsed \cup {c \in Children : ByExecutor(c)}
PROOF
<1>1. exec \in [Executors -> ExecRow] /\ lapsed \subseteq Children
  BY DEF ExecInv, TypeOK, ExecRow
<1>2. Free \in ExecRow /\ Free.doing = "idle" /\ Free.child = NoChild
  BY DEF Free, ExecRow
<1>3. ASSUME NEW c \in Children, NEW doing \in {"claimed", "execute", "replay"},
             ByExecutor(c), NEW w \in Executors,
             exec' = [exec EXCEPT ![w] = Holding(c, doing)]
      PROVE  \E x \in ExecRow : WorkerStep(w, x)
  <2>1. /\ Holding(c, doing) \in ExecRow
        /\ Holding(c, doing).child = c /\ Holding(c, doing).doing = doing
    BY DEF Holding, ExecRow
  <2> QED
    BY <1>3, <2>1 DEF WorkerStep
<1>4. ASSUME NEW w \in Executors, exec' = [exec EXCEPT ![w] = Free]
      PROVE  \E x \in ExecRow : WorkerStep(w, x)
  BY <1>2, <1>4 DEF WorkerStep
<1>5. ASSUME NEW w \in Executors, exec[w].doing # "idle",
             NEW answer \in {"transaction", "not_broadcast"},
             exec' = [exec EXCEPT ![w] =
               [@ EXCEPT !.doing = "answered", !.answer = answer]]
      PROVE  \E x \in ExecRow : WorkerStep(w, x)
  <2> DEFINE x == [exec[w] EXCEPT !.doing = "answered", !.answer = answer]
  <2>1. x \in ExecRow /\ x.child = exec[w].child /\ x.doing = "answered" /\ x.answer = answer
    BY <1>1 DEF ExecRow
  <2>2. exec[w].child \in Children /\ ByExecutor(exec[w].child)
    BY <1>5 DEF ExecInv, HoldsOwn
  <2>3. exec' = [exec EXCEPT ![w] = x]
    BY <1>1, <1>5
  <2> HIDE DEF x
  <2>4. WorkerStep(w, x)
    BY <2>1, <2>2, <2>3 DEF WorkerStep
  <2> QED
    BY <2>1, <2>4
<1>6. ASSUME NEW c \in Children, NEW w \in Executors, ClaimAttempt(w, c) \/ Recover(w, c)
      PROVE  (\E x \in ExecRow : WorkerStep(w, x)) /\ lapsed' \subseteq lapsed
  BY <1>3, <1>6 DEF ClaimAttempt, Recover, Writes
<1>7. ASSUME NEW w \in Executors, Cross(w) PROVE (\E x \in ExecRow : WorkerStep(w, x)) /\ lapsed' \subseteq lapsed
  BY <1>3, <1>7 DEF Cross, Writes, ExecInv, HoldsOwn
<1>8. ASSUME NEW w \in Executors, Inspect(w) \/ Call(w) \/ Resolve(w) \/ Void(w) \/ Drop(w)
      PROVE  (\E x \in ExecRow : WorkerStep(w, x)) /\ lapsed' \subseteq lapsed
  <2>1. CASE Resolve(w) \/ Void(w) \/ Drop(w)
    BY <1>4, <2>1 DEF Resolve, Void, Drop, Writes
  <2>2. CASE Inspect(w)
    BY <1>4, <1>5, <2>2 DEF Inspect
  <2>3. CASE Call(w)
    <3>1. exec' = [exec EXCEPT ![w] =
                    [@ EXCEPT !.doing = "answered", !.answer = "transaction"]]
      BY <1>1, <2>3 DEF Call, ExecRow
    <3> QED
      BY <1>5, <2>3, <3>1 DEF Call
  <2> QED
    BY <1>8, <2>1, <2>2, <2>3
<1>9. ASSUME NEW c \in Children, RejectAttempt(c) \/ Lapse(c) \/ LookupReference(c)
      PROVE  UNCHANGED exec /\ lapsed' \subseteq lapsed \cup {d \in Children : ByExecutor(d)}
  BY <1>9 DEF RejectAttempt, Lapse, LookupReference, Writes
<1> QED
  BY <1>6, <1>7, <1>8, <1>9 DEF Next, Routed, vars

LEMMA ExecStep == ExecInv /\ [Next]_vars => ExecInv'
PROOF
<1> SUFFICES ASSUME ExecInv, [Next]_vars PROVE ExecInv'
  OBVIOUS
<1>1. StepOfAKind
  BY StepIsOfAKind
<1>2. RoutingInv'
  BY <1>1, KindKeeps DEF ExecInv
<1>3. \A c \in Children : ByExecutor(c) => ByExecutor(c)'
  BY <1>1, OwnStays DEF ExecInv
<1>4. exec \in [Executors -> ExecRow] /\ lapsed \subseteq Children
  BY DEF ExecInv, TypeOK, ExecRow
<1>5. exec' \in [Executors -> ExecRow] /\ lapsed' \subseteq Children
  BY <1>4, WorkerSteps DEF WorkerStep
<1>6. TypeOK'
  BY <1>2, <1>5 DEF TypeOK, RoutingInv, ExecRow
<1>7. \A c \in lapsed' : ByExecutor(c)'
  BY <1>3, <1>4, WorkerSteps DEF ExecInv, HoldsOwn
<1>8. HoldsOwn'
  <2>1. CASE UNCHANGED exec
    BY <1>3, <1>7, <2>1 DEF ExecInv, HoldsOwn
  <2>2. ASSUME NEW w \in Executors, NEW x \in ExecRow, WorkerStep(w, x)
        PROVE  HoldsOwn'
    <3>1. exec'[w] = x /\ \A v \in Executors \ {w} : exec'[v] = exec[v]
      BY <1>4, <2>2 DEF WorkerStep
    <3> QED
      BY <1>3, <1>7, <2>2, <3>1 DEF ExecInv, HoldsOwn, WorkerStep
  <2> QED
    BY <2>1, <2>2, WorkerSteps
<1> QED
  BY <1>2, <1>6, <1>8 DEF ExecInv

LEMMA Invariant == Spec => []ExecInv
BY ExecInit, ExecStep, PTL DEF Spec

-----------------------------------------------------------------------------
(* Theorems.                                                               *)

\* Receipts, children, passes, workers and attempts keep their types.
THEOREM TypeCorrect == Spec => []TypeOK
BY Invariant, PTL DEF ExecInv

\* The router, the user and the executor refine DepositConversion: for any
\* number of passes and workers, slow calls included, a deposit is moved by
\* one child at most, the one its receipt is bound to.
THEOREM DepositsAreConvertedOnce == Spec => ImplementsConversion
PROOF
<1>1. Init => Conversion!Init
  <2> SUFFICES ASSUME Init PROVE Conversion!Init
    OBVIOUS
  <2>1. \A r \in Receipts : receipt[r].status \in {"observed", "review"}
                            /\ receipt[r].child = NoChild
    BY DEF Init, RoutingInit
  <2>2. \A r \in Receipts : Phase(r) = "held"
    BY <2>1 DEF Phase
  <2> QED
    BY <2>1, <2>2 DEF Conversion!Init, Bound, Phases, Moved, Init, RoutingInit
<1>2. ExecInv /\ [Next]_vars => [Conversion!Next]_(Conversion!vars)
  BY StepIsOfAKind, KindConverts DEF ExecInv
<1> QED
  BY <1>1, <1>2, Invariant, PTL DEF Spec, ImplementsConversion, Conversion!Spec

\* Of the children a receipt has had, only the one it is bound to can have a
\* transfer that still lands or has landed: what ReceiptRouting detaches sent
\* nothing or was reverted.  Slow calls included.
THEOREM LiveTransfersAreBound == Spec => []LiveTransferIsBound
PROOF
<1>1. ExecInv => LiveTransferIsBound
  <2> SUFFICES ASSUME ExecInv, NEW c \in Children,
                      wire[c] \in {"pending", "landed"},
                      receipt[owner[c]].child # c
               PROVE  FALSE
    BY DEF LiveTransferIsBound
  <2>1. owner[c] \in Receipts
    BY DEF ExecInv, RoutingInv, RoutingTypeOK, OwnersMatch
  <2>2. life[c] \in Over /\ ByClient(c)
    BY <2>1 DEF ExecInv, RoutingInv, DetachedIsOver
  <2> QED
    BY <2>2 DEF ExecInv, RoutingInv, EndsAreReal, Over
<1> QED
  BY <1>1, Invariant, PTL

-----------------------------------------------------------------------------
(* One worker at a time is past the boundary.                              *)

InCall(w, c) ==
  exec[w].child = c /\ exec[w].doing \in {"execute", "replay", "answered"}

Uncalled == {"planned", "started", "failed", "cancelled"}

\* An attempt that is not on record was not called and is not being called; a
\* call ends before its attempt can be taken over; a first call finds nothing.
CallInv ==
  /\ \A c \in Children : ByExecutor(c) /\ life[c] \in Uncalled =>
       wire[c] = "none" /\ \A w \in Executors : ~InCall(w, c)
  /\ \A c \in Children : \A v, w \in Executors :
       InCall(v, c) /\ InCall(w, c) => v = w
  /\ \A c \in lapsed : life[c] = "ambiguous" => \A w \in Executors : ~InCall(w, c)
  /\ \A w \in Executors : \A c \in Children :
       /\ InCall(w, c)
       /\ exec[w].doing = "execute" \/ exec[w].answer = "not_broadcast"
       => wire[c] = "none"

\* What the router, the user and the chain do to the executor's children.
LEMMA RoutingLeaves ==
  ASSUME ExecInv, RoutingNext, NEW c \in Children
  PROVE  /\ ByExecutor(c) =>
              /\ \/ life'[c] = life[c]
                 \/ life'[c] \notin Uncalled \cup {"ambiguous"}
                 \/ life[c] = "planned" /\ life'[c] = "cancelled"
              /\ wire[c] = "none" => wire'[c] = "none"
         /\ ~ByExecutor(c) /\ ByExecutor(c)' =>
              /\ life'[c] = "planned" /\ wire'[c] = "none"
              /\ \A w \in Executors : ~InCall(w, c)
PROOF
<1>1. /\ life \in [Children -> Lives]
      /\ wire \in [Children -> {"none", "pending", "landed", "reverted"}]
      /\ owner \in [Children -> Receipts \cup {NoReceipt}]
      /\ delegated \subseteq Receipts
  BY DEF ExecInv, TypeOK, RoutingTypeOK
<1>2. ASSUME NEW d \in Children,
             \/ ClientStarts(d) \/ WalletSends(d) \/ ClientReports(d)
      PROVE  /\ ~ByExecutor(d) /\ UNCHANGED <<owner, delegated>>
             /\ c # d => life'[c] = life[c] /\ wire'[c] = wire[c]
  BY <1>1, <1>2 DEF ClientStarts, WalletSends, ClientReports, Lives1, ByClient, ByExecutor
<1>3. ASSUME NEW d \in Children, Cancel(d) \/ Execute(d) \/ Observe(d) \/ Escalate(d)
      PROVE  /\ UNCHANGED <<owner, delegated>>
             /\ c # d => life'[c] = life[c] /\ wire'[c] = wire[c]
             /\ wire[c] = "none" => wire'[c] = "none"
             /\ \/ life'[c] = life[c]
                \/ life'[c] \in {"completed", "reverted", "stuck"}
                \/ life[c] = "planned" /\ life'[c] = "cancelled"
  BY <1>1, <1>3 DEF Cancel, Execute, Observe, Escalate, Lives1
<1>4. ASSUME NEW r \in Receipts, NEW d \in Children, Linked(r, d)
      PROVE  /\ c # d => life'[c] = life[c] /\ owner'[c] = owner[c]
             /\ UNCHANGED <<delegated, wire>>
             /\ c = d => /\ life[c] = "free" /\ life'[c] = "planned"
                         /\ wire[c] = "none" /\ ~ByExecutor(c)
                         /\ \A w \in Executors : ~InCall(w, c)
  <2>1. c = d => life[c] = "free" /\ owner[c] = NoReceipt /\ wire[c] = "none"
    BY <1>4 DEF Linked, ExecInv, RoutingInv, OwnersMatch
  <2>2. c = d => ~ByExecutor(c)
    BY <1>1, <2>1, NothingAssumption DEF ByExecutor
  <2>3. \A w \in Executors : InCall(w, c) => ByExecutor(c)
    BY DEF InCall, ExecInv, HoldsOwn
  <2> QED
    BY <1>1, <1>4, <2>1, <2>2, <2>3 DEF Linked
<1>5. ASSUME UNCHANGED <<owner, delegated, life, wire>>
      PROVE  /\ life'[c] = life[c] /\ wire'[c] = wire[c]
             /\ ByExecutor(c)' = ByExecutor(c)
  BY <1>5 DEF ByExecutor
<1>6. CASE \E d \in Children : ClientStarts(d) \/ WalletSends(d) \/ ClientReports(d)
  BY <1>2, <1>6 DEF ByExecutor
<1>7. CASE \E d \in Children : Cancel(d) \/ Execute(d) \/ Observe(d) \/ Escalate(d)
  BY <1>3, <1>7 DEF ByExecutor, Uncalled
<1>8. CASE \E r \in Receipts : \E d \in Children : Linked(r, d)
  BY <1>4, <1>8 DEF ByExecutor, Uncalled
<1>9. CASE UNCHANGED <<owner, delegated, life, wire>>
  BY <1>5, <1>9
<1>10. \/ \E d \in Children : \/ ClientStarts(d) \/ WalletSends(d) \/ ClientReports(d)
                              \/ Cancel(d) \/ Execute(d) \/ Observe(d) \/ Escalate(d)
       \/ \E r \in Receipts : \E d \in Children : Linked(r, d)
       \/ UNCHANGED <<owner, delegated, life, wire>>
  BY DEF RoutingNext, List, Create, Leave, Record, Defer, ReadChild, Settle,
    Quote, GiveUpReview, CommitReview
<1> QED
  BY <1>6, <1>7, <1>8, <1>9, <1>10

LEMMA CallsUnderRouting ==
  ASSUME ExecInv, ExecInv', CallInv, Routed(RoutingNext) PROVE CallInv'
PROOF
<1>1. UNCHANGED <<exec, lapsed>> /\ RoutingNext
  BY DEF Routed
<1>2. \A w \in Executors, c \in Children : InCall(w, c)' = InCall(w, c)
  BY <1>1 DEF InCall
<1>3. \A w \in Executors, c \in Children : InCall(w, c) => ByExecutor(c)
  BY DEF InCall, ExecInv, HoldsOwn
<1>4. \A c \in Children : ByExecutor(c) =>
         /\ \/ life'[c] = life[c]
            \/ life'[c] \notin Uncalled \cup {"ambiguous"}
            \/ life[c] = "planned" /\ life'[c] = "cancelled"
         /\ wire[c] = "none" => wire'[c] = "none"
  BY <1>1, RoutingLeaves
<1>5. \A c \in Children : ~ByExecutor(c) /\ ByExecutor(c)' =>
         wire'[c] = "none" /\ \A w \in Executors : ~InCall(w, c)
  BY <1>1, RoutingLeaves
<1>6. \A c \in lapsed : c \in Children /\ ByExecutor(c)
  BY DEF ExecInv, HoldsOwn, TypeOK
<1>7. \A c \in Children : ByExecutor(c)' /\ life'[c] \in Uncalled =>
        wire'[c] = "none" /\ \A w \in Executors : ~InCall(w, c)
  BY <1>4, <1>5 DEF CallInv, Uncalled
<1>8. \A c \in lapsed : life'[c] = "ambiguous" => \A w \in Executors : ~InCall(w, c)
  BY <1>4, <1>6 DEF CallInv
<1>9. \A w \in Executors : \A c \in Children :
        /\ InCall(w, c)
        /\ exec[w].doing = "execute" \/ exec[w].answer = "not_broadcast"
        => wire'[c] = "none"
  BY <1>3, <1>4 DEF CallInv
<1>10. \A c \in Children : \A v, w \in Executors :
         InCall(v, c) /\ InCall(w, c) => v = w
  BY DEF CallInv
<1>11. \A c \in Children : ByExecutor(c)' /\ life'[c] \in Uncalled =>
         wire'[c] = "none" /\ \A w \in Executors : ~InCall(w, c)'
  BY <1>2, <1>7
<1>12. \A c \in Children : \A v, w \in Executors :
         InCall(v, c)' /\ InCall(w, c)' => v = w
  BY <1>2, <1>10
<1>13. \A c \in lapsed' : life'[c] = "ambiguous" => \A w \in Executors : ~InCall(w, c)'
  BY <1>1, <1>2, <1>6, <1>8
<1>14. \A w \in Executors : \A c \in Children :
         /\ InCall(w, c)'
         /\ exec'[w].doing = "execute" \/ exec'[w].answer = "not_broadcast"
         => wire'[c] = "none"
  BY <1>1, <1>2, <1>9
<1> QED
  BY <1>11, <1>12, <1>13, <1>14 DEF CallInv

\* A child other than c is not touched by a step of one worker at c.
Elsewhere(w, c) ==
  /\ \A v \in Executors \ {w} : exec'[v] = exec[v]
  /\ \A d \in Children \ {c} : life'[d] = life[d] /\ wire'[d] = wire[d]
  /\ lapsed' \subseteq lapsed
  /\ UNCHANGED <<owner, delegated>>

LEMMA CallsUnderClaims ==
  ASSUME ~SlowCalls, ExecInv, CallInv, NEW c \in Children,
         \/ RejectAttempt(c) \/ Lapse(c) \/ LookupReference(c)
         \/ \E w \in Executors : ClaimAttempt(w, c) \/ Recover(w, c)
  PROVE  CallInv'
PROOF
<1>1. /\ exec \in [Executors -> ExecRow] /\ lapsed \subseteq Children
      /\ life \in [Children -> Lives]
      /\ wire \in [Children -> {"none", "pending", "landed", "reverted"}]
  BY DEF ExecInv, TypeOK, RoutingTypeOK, ExecRow
<1>2. CASE RejectAttempt(c) \/ LookupReference(c)
  <2>1. /\ UNCHANGED <<exec, wire, owner, delegated>> /\ lapsed' \subseteq lapsed
        /\ \A d \in Children \ {c} : life'[d] = life[d]
        /\ \/ life'[c] = "sent"
           \/ life[c] = "planned" /\ life'[c] = "failed"
    BY <1>1, <1>2 DEF RejectAttempt, LookupReference, Writes
  <2> QED
    BY <1>1, <2>1 DEF CallInv, InCall, ByExecutor, Uncalled
<1>3. CASE Lapse(c)
  <2>1. life[c] = "ambiguous" => \A w \in Executors : ~InCall(w, c)
    BY <1>3 DEF Lapse, Calling, InCall
  <2> QED
    BY <1>1, <1>3, <2>1 DEF Lapse, routingVars, CallInv, InCall, ByExecutor
<1>4. ASSUME NEW w \in Executors, ClaimAttempt(w, c)
      PROVE  CallInv'
  <2>1. /\ exec'[w] = Holding(c, "claimed") /\ Elsewhere(w, c) /\ UNCHANGED wire
        /\ life[c] = "planned" /\ life'[c] = "started" /\ ByExecutor(c)
    BY <1>1, <1>4 DEF ClaimAttempt, Writes, Elsewhere
  <2>2. \A v \in Executors, d \in Children : InCall(v, d)' => v # w /\ InCall(v, d)
    BY <2>1 DEF InCall, Holding, Elsewhere
  <2>3. \A v \in Executors : v # w => exec'[v] = exec[v]
    BY <2>1 DEF Elsewhere
  <2> QED
    BY <1>1, <2>1, <2>2, <2>3 DEF CallInv, ByExecutor, Uncalled, Elsewhere
<1>5. ASSUME NEW w \in Executors, Recover(w, c)
      PROVE  CallInv'
  <2>1. /\ c \in lapsed /\ lapsed' = lapsed \ {c}
        /\ UNCHANGED <<life, wire, owner, delegated>>
        /\ \A v \in Executors \ {w} : exec'[v] = exec[v]
        /\ \/ life[c] = "started" /\ exec'[w] = Holding(c, "claimed")
           \/ life[c] = "ambiguous" /\ exec'[w] = Holding(c, "replay")
    BY <1>1, <1>5 DEF Recover, routingVars
  <2>2. \A v \in Executors, d \in Children :
          InCall(v, d)' => \/ v # w /\ InCall(v, d)
                           \/ /\ v = w /\ d = c /\ life[c] = "ambiguous"
                              /\ exec'[w].doing = "replay" /\ exec'[w].answer = "none"
    BY <2>1 DEF InCall, Holding
  <2>3. life[c] = "ambiguous" => \A v \in Executors : ~InCall(v, c)
    BY <2>1 DEF CallInv
  <2> QED
    BY <1>1, <2>1, <2>2, <2>3 DEF CallInv, ByExecutor, Uncalled
<1> QED
  BY <1>2, <1>3, <1>4, <1>5

LEMMA CallsUnderWork ==
  ASSUME ExecInv, CallInv, NEW w \in Executors,
         Cross(w) \/ Void(w) \/ Inspect(w) \/ Call(w) \/ Resolve(w) \/ Drop(w)
  PROVE  CallInv'
PROOF
<1> DEFINE c == exec[w].child
<1>1. /\ exec \in [Executors -> ExecRow] /\ lapsed \subseteq Children
      /\ life \in [Children -> Lives]
      /\ wire \in [Children -> {"none", "pending", "landed", "reverted"}]
  BY DEF ExecInv, TypeOK, RoutingTypeOK, ExecRow
<1>2. exec[w].doing # "idle" => c \in Children /\ ByExecutor(c)
  BY DEF ExecInv, HoldsOwn
<1>3. ASSUME exec'[w] = Free, Elsewhere(w, c), UNCHANGED wire,
             \/ life'[c] = life[c]
             \/ life'[c] \notin Uncalled \cup {"ambiguous"}
             \/ /\ life'[c] = "failed" /\ wire[c] = "none"
                /\ \A v \in Executors \ {w} : ~InCall(v, c)
      PROVE  CallInv'
  <2>1. \A v \in Executors, d \in Children :
          InCall(v, d)' => v # w /\ InCall(v, d) /\ exec'[v] = exec[v]
    BY <1>3, NothingAssumption DEF InCall, Free, Elsewhere
  <2> QED
    BY <1>1, <1>3, <2>1 DEF CallInv, ByExecutor, Uncalled, Elsewhere
<1>4. CASE Drop(w)
  BY <1>1, <1>3, <1>4 DEF Drop, routingVars, Elsewhere
<1>5. CASE Void(w)
  <2>1. c \in Children /\ ByExecutor(c)
    BY <1>2, <1>5 DEF Void
  <2>2. life[c] = "started" =>
          wire[c] = "none" /\ \A v \in Executors : ~InCall(v, c)
    BY <2>1 DEF CallInv, Uncalled
  <2> QED
    BY <1>1, <1>3, <1>5, <2>1, <2>2 DEF Void, Writes, Elsewhere
<1>6. CASE Resolve(w)
  <2>1. c \in Children /\ ByExecutor(c) /\ InCall(w, c)
    BY <1>2, <1>6 DEF Resolve, InCall
  <2>2. \A v \in Executors \ {w} : ~InCall(v, c)
    BY <2>1 DEF CallInv
  <2>3. exec[w].answer # "transaction" => wire[c] = "none"
    BY <1>1, <1>6, <2>1 DEF Resolve, CallInv, ExecInv, HoldsOwn, ExecRow
  <2> QED
    BY <1>1, <1>3, <1>6, <2>1, <2>2, <2>3 DEF Resolve, Writes, Elsewhere, Uncalled
<1>7. CASE Cross(w)
  <2>1. /\ exec'[w] = Holding(c, "execute") /\ Elsewhere(w, c) /\ UNCHANGED wire
        /\ life[c] = "started" /\ life'[c] = "ambiguous" /\ lapsed' = lapsed \ {c}
        /\ c \in Children /\ ByExecutor(c)
    BY <1>1, <1>2, <1>7 DEF Cross, Writes, Elsewhere
  <2>2. wire[c] = "none" /\ \A v \in Executors : ~InCall(v, c)
    BY <2>1 DEF CallInv, Uncalled
  <2>3. \A v \in Executors, d \in Children :
          InCall(v, d)' => \/ v # w /\ InCall(v, d) /\ exec'[v] = exec[v]
                           \/ v = w /\ d = c
    BY <2>1 DEF InCall, Holding, Elsewhere
  <2> QED
    BY <1>1, <2>1, <2>2, <2>3 DEF CallInv, ByExecutor, Uncalled, Elsewhere
<1>8. CASE Inspect(w)
  <2>1. CASE exec[w].doing # "execute"
    BY <1>1, <1>3, <1>8, <2>1 DEF Inspect, routingVars, Elsewhere
  <2>2. CASE exec[w].doing = "execute"
    <3>1. /\ exec'[w].child = c /\ exec'[w].doing = "answered"
          /\ Elsewhere(w, c) /\ UNCHANGED <<wire, life, lapsed>>
      BY <1>1, <1>8, <2>2 DEF Inspect, routingVars, Elsewhere, ExecRow
    <3>2. c \in Children /\ InCall(w, c) /\ wire[c] = "none"
      BY <1>2, <2>2 DEF InCall, CallInv
    <3>3. \A v \in Executors, d \in Children :
            InCall(v, d)' => /\ InCall(v, d)
                             /\ exec'[v] = exec[v] \/ d = c
      BY <3>1, <3>2 DEF InCall, Elsewhere
    <3> QED
      BY <1>1, <3>1, <3>2, <3>3 DEF CallInv, ByExecutor, Elsewhere
  <2> QED
    BY <2>1, <2>2
<1>9. CASE Call(w)
  <2>1. /\ exec'[w].child = c /\ exec'[w].doing = "answered"
        /\ exec'[w].answer = "transaction"
        /\ Elsewhere(w, c) /\ UNCHANGED <<life, lapsed>>
        /\ c \in Children /\ ByExecutor(c) /\ InCall(w, c)
    BY <1>1, <1>2, <1>9 DEF Call, Elsewhere, ExecRow, InCall
  <2>2. /\ life[c] \notin Uncalled
        /\ \A v \in Executors : InCall(v, c) => v = w
    BY <2>1 DEF CallInv
  <2>3. \A v \in Executors, d \in Children :
          InCall(v, d)' => /\ InCall(v, d)
                           /\ \/ v = w /\ d = c
                              \/ v # w /\ d # c /\ exec'[v] = exec[v]
    BY <2>1, <2>2 DEF InCall, Elsewhere
  <2> QED
    BY <1>1, <2>1, <2>2, <2>3 DEF CallInv, ByExecutor, Elsewhere
<1> QED
  BY <1>4, <1>5, <1>6, <1>7, <1>8, <1>9

LEMMA CallsInit == Init => CallInv
BY DEF Init, RoutingInit, CallInv, InCall, Free, Uncalled

LEMMA CallsStep ==
  ASSUME ~SlowCalls, ExecInv, ExecInv', CallInv, [Next]_vars PROVE CallInv'
PROOF
<1>1. CASE UNCHANGED vars
  BY <1>1 DEF vars, CallInv, InCall, ByExecutor
<1> QED
  BY <1>1, CallsUnderRouting, CallsUnderClaims, CallsUnderWork DEF Next

\* What was called is on record: no worker that dies, pauses or answers late
\* leaves behind a transfer the system takes for untouched, as long as no call
\* outlives the replay interval.
THEOREM CallsAreOnRecord == Spec => [](~SlowCalls => CalledIsOnRecord)
PROOF
<1>1. Init => ExecInv /\ (~SlowCalls => CallInv)
  BY ExecInit, CallsInit
<1>2. ExecInv /\ (~SlowCalls => CallInv) /\ [Next]_vars =>
        ExecInv' /\ (~SlowCalls => CallInv)'
  BY ExecStep, CallsStep
<1>3. ExecInv /\ (~SlowCalls => CallInv) => (~SlowCalls => CalledIsOnRecord)
  <2> SUFFICES ASSUME ExecInv, CallInv, NEW c \in Children, wire[c] # "none"
               PROVE  life[c] \notin {"free", "planned", "failed", "cancelled"}
                        \cup (IF ByExecutor(c) THEN {"started"} ELSE {})
    BY DEF CalledIsOnRecord
  <2>1. life[c] # "free" /\ owner[c] \in Receipts
    BY DEF ExecInv, RoutingInv, OwnersMatch, RoutingTypeOK
  <2>2. CASE ByExecutor(c)
    BY <2>1, <2>2 DEF CallInv, Uncalled
  <2>3. CASE ~ByExecutor(c)
    BY <2>1, <2>3 DEF ByExecutor, ByClient, ExecInv, RoutingInv, EndsAreReal
  <2> QED
    BY <2>2, <2>3
<1> QED
  BY <1>1, <1>2, <1>3, PTL DEF Spec

-----------------------------------------------------------------------------
(* The tries of a receipt.                                                 *)

\* The passes that may still have receipt r tried again.
Hopeful(r) ==
  {w \in Routers : /\ seen[w].receipt = r /\ seen[w].status = "observed"
                   /\ seen[w].tries + 1 < MaxTries}

\* Once the tries are used up no pass becomes hopeful, and each that still is
\* has one try left.
TriesInv(r) ==
  /\ receipt[r].status = "review" /\ ~receipt[r].planned => receipt[r].tries = 0
  /\ receipt[r].status = "observed" =>
       \/ receipt[r].tries + 1 < MaxTries
       \/ receipt[r].tries = 0
       \/ receipt[r].tries + Cardinality(Hopeful(r)) + 2 <= MaxTries + Cardinality(Routers)
  /\ receipt[r].tries < MaxTries + Cardinality(Routers)

\* What a step does to the tries of receipt r: nothing, ...
KeepsTries(r) ==
  /\ receipt'[r].status = receipt[r].status
  /\ receipt'[r].planned = receipt[r].planned
  /\ receipt'[r].tries = receipt[r].tries
  /\ Hopeful(r)' \subseteq Hopeful(r) \/ receipt[r].tries + 1 < MaxTries

\* ... they are of no use any more, ...
LeavesTries(r) ==
  /\ receipt'[r].status # "observed"
  /\ receipt'[r].status = "review" => receipt'[r].planned
  /\ \/ receipt'[r].tries = receipt[r].tries
     \/ /\ receipt'[r].tries = receipt[r].tries + 1 /\ Routers # {}
        /\ \/ receipt[r].status = "observed"
           \/ receipt[r].status = "review" /\ ~receipt[r].planned

\* ... or a hopeful pass adds one.
AddsTry(r, w) ==
  /\ w \in Hopeful(r) /\ Hopeful(r)' = Hopeful(r) \ {w}
  /\ receipt[r].status = "observed" /\ receipt'[r].status = "observed"
  /\ receipt'[r].tries = receipt[r].tries + 1

LEMMA HopefulIsFinite ==
  ASSUME NEW S \in SUBSET Routers
  PROVE  /\ IsFiniteSet(S) /\ Cardinality(S) \in Nat
         /\ Cardinality(S) <= Cardinality(Routers)
         /\ Cardinality(Routers) \in Nat
         /\ \A w \in S : Cardinality(S \ {w}) = Cardinality(S) - 1 /\ Cardinality(S) # 0
BY RoutersAssumption, FS_Subset, FS_CardinalityType, FS_RemoveElement, FS_EmptySet

LEMMA TriesKept ==
  ASSUME RoutingTypeOK, RoutingTypeOK', NEW r \in Receipts, TriesInv(r),
         \/ KeepsTries(r)
         \/ LeavesTries(r)
         \/ \E w \in Routers : AddsTry(r, w)
  PROVE  TriesInv(r)'
PROOF
<1> DEFINE n == Cardinality(Hopeful(r))
           m == Cardinality(Hopeful(r))'
           k == Cardinality(Routers)
<1>1. Hopeful(r) \subseteq Routers /\ Hopeful(r)' \subseteq Routers
  BY DEF Hopeful
<1>2. n \in Nat /\ m \in Nat /\ k \in Nat /\ n <= k /\ m <= k
  BY <1>1, HopefulIsFinite
<1>3. receipt[r].tries \in Nat /\ receipt'[r].tries \in Nat /\ MaxTries \in Nat \ {0}
  BY TriesAssumption DEF RoutingTypeOK, ReceiptRow
<1>4. CASE KeepsTries(r)
  <2>1. Hopeful(r)' \subseteq Hopeful(r) => m <= n
    BY <1>1, HopefulIsFinite, FS_Subset
  <2> HIDE DEF n, m, k
  <2>2. TriesInv(r)' <=>
          /\ receipt'[r].status = "review" /\ ~receipt'[r].planned => receipt'[r].tries = 0
          /\ receipt'[r].status = "observed" =>
               \/ receipt'[r].tries + 1 < MaxTries \/ receipt'[r].tries = 0
               \/ receipt'[r].tries + m + 2 <= MaxTries + k
          /\ receipt'[r].tries < MaxTries + k
    BY DEF TriesInv, m, k
  <2>3. /\ receipt[r].status = "review" /\ ~receipt[r].planned => receipt[r].tries = 0
        /\ receipt[r].status = "observed" =>
             \/ receipt[r].tries + 1 < MaxTries \/ receipt[r].tries = 0
             \/ receipt[r].tries + n + 2 <= MaxTries + k
        /\ receipt[r].tries < MaxTries + k
    BY DEF TriesInv, n, k
  <2> QED
    BY <1>2, <1>3, <1>4, <2>1, <2>2, <2>3 DEF KeepsTries
<1>5. CASE LeavesTries(r)
  <2>1. Routers # {} => k # 0
    BY HopefulIsFinite
  <2>2. receipt[r].status = "observed" =>
          \/ receipt[r].tries + 1 < MaxTries \/ receipt[r].tries = 0
          \/ receipt[r].tries + n + 2 <= MaxTries + k
    BY DEF TriesInv
  <2>3. /\ receipt[r].status = "review" /\ ~receipt[r].planned => receipt[r].tries = 0
        /\ receipt[r].tries < MaxTries + k
    BY DEF TriesInv
  <2> HIDE DEF n, m, k
  <2>4. receipt'[r].tries < MaxTries + k
    BY <1>2, <1>3, <1>5, <2>1, <2>2, <2>3 DEF LeavesTries
  <2> QED
    BY <1>5, <2>4 DEF LeavesTries, TriesInv, k
<1>6. ASSUME NEW w \in Routers, AddsTry(r, w) PROVE TriesInv(r)'
  <2>1. m = n - 1 /\ n # 0
    BY <1>1, <1>6, HopefulIsFinite DEF AddsTry
  <2>2. MaxTries >= 2
    <3>1. seen[w].tries \in Nat /\ seen[w].tries + 1 < MaxTries
      BY <1>6 DEF AddsTry, Hopeful, RoutingTypeOK
    <3> QED
      BY <1>3, <3>1
  <2>3. \/ receipt[r].tries + 1 < MaxTries \/ receipt[r].tries = 0
        \/ receipt[r].tries + n + 2 <= MaxTries + k
    BY <1>6 DEF TriesInv, AddsTry
  <2> HIDE DEF n, m, k
  <2>4. /\ receipt'[r].tries < MaxTries + k
        /\ receipt'[r].tries + 1 < MaxTries \/ receipt'[r].tries + m + 2 <= MaxTries + k
    BY <1>2, <1>3, <1>6, <2>1, <2>2, <2>3 DEF AddsTry
  <2> QED
    BY <1>6, <2>4 DEF AddsTry, TriesInv, m, k
<1> QED
  BY <1>4, <1>5, <1>6

LEMMA HopefulAfter ==
  ASSUME RoutingTypeOK, NEW r \in Receipts, NEW w \in Routers,
         seen' = [seen EXCEPT ![w] = Idle]
  PROVE  Hopeful(r)' = Hopeful(r) \ {w}
BY NothingAssumption DEF Hopeful, Idle, RoutingTypeOK

LEMMA TriesUnderRecord ==
  ASSUME RoutingTypeOK, NEW r \in Receipts, NEW w \in Routers, Record(w)
  PROVE  \/ KeepsTries(r) \/ LeavesTries(r) \/ AddsTry(r, w)
PROOF
<1> DEFINE o == seen[w].receipt
<1>1. /\ o \in Receipts /\ Hopeful(r)' = Hopeful(r) \ {w}
      /\ receipt \in [Receipts -> ReceiptRow] /\ receipt[o] \in ReceiptRow
      /\ seen[w] \in Seen
  BY HopefulAfter DEF Record, RoutingTypeOK, Seen
<1>2. CASE receipt' = receipt
  BY <1>1, <1>2 DEF KeepsTries
<1>3. CASE /\ receipt' = [receipt EXCEPT ![o].status = "review", ![o].planned = TRUE,
                                       ![o].tries = @ + 1]
           /\ \/ receipt[o].status = "observed"
              \/ receipt[o].status = "review" /\ ~receipt[o].planned
  BY <1>1, <1>3 DEF KeepsTries, LeavesTries, ReceiptRow
<1>4. CASE /\ receipt' = [receipt EXCEPT ![o].status = "recovery", ![o].tries = @ + 1]
           /\ \/ receipt[o].status = "observed"
              \/ receipt[o].status = "review" /\ ~receipt[o].planned
  BY <1>1, <1>4 DEF KeepsTries, LeavesTries, ReceiptRow
<1>5. CASE /\ seen[w].status = "observed" /\ seen[w].tries + 1 < MaxTries
           /\ receipt[o].status = "observed"
           /\ receipt' = [receipt EXCEPT ![o].tries = @ + 1]
  <2>1. CASE r = o
    <3>1. w \in Hopeful(r)
      BY <1>5, <2>1 DEF Hopeful
    <3>2. receipt'[r].status = "observed" /\ receipt'[r].tries = receipt[r].tries + 1
      BY <1>1, <1>5, <2>1 DEF ReceiptRow
    <3> QED
      BY <1>1, <1>5, <2>1, <3>1, <3>2 DEF AddsTry
  <2>2. CASE r # o
    BY <1>1, <1>5, <2>2 DEF KeepsTries
  <2> QED
    BY <2>1, <2>2
<1> QED
  BY <1>2, <1>3, <1>4, <1>5 DEF Record

LEMMA TriesUnderRouters ==
  ASSUME RoutingTypeOK, NEW r \in Receipts, NEW w \in Routers,
         \/ \E o \in Receipts : List(w, o)
         \/ \E c \in Children : Create(w, c)
         \/ Leave(w) \/ Defer(w) \/ ReadChild(w) \/ Settle(w)
  PROVE  KeepsTries(r) \/ LeavesTries(r)
PROOF
<1>1. receipt \in [Receipts -> ReceiptRow] /\ seen \in [Routers -> Seen]
  BY DEF RoutingTypeOK, Seen
<1>2. ASSUME NEW o \in Receipts, List(w, o) PROVE KeepsTries(r)
  <2>1. /\ \A v \in Routers \ {w} : seen'[v] = seen[v]
        /\ seen'[w].receipt = o /\ seen'[w].tries = receipt[o].tries
        /\ receipt' = receipt
    BY <1>1, <1>2 DEF List
  <2>2. Hopeful(r)' \subseteq Hopeful(r) \/ receipt[r].tries + 1 < MaxTries
    BY <2>1 DEF Hopeful
  <2> QED
    BY <2>1, <2>2 DEF KeepsTries
<1>3. CASE ReadChild(w)
  <2>1. /\ receipt' = receipt
        /\ \A v \in Routers : /\ seen'[v].receipt = seen[v].receipt
                               /\ seen'[v].status = seen[v].status
                               /\ seen'[v].tries = seen[v].tries
    BY <1>1, <1>3 DEF ReadChild, Seen
  <2>2. Hopeful(r)' = Hopeful(r)
    BY <2>1 DEF Hopeful
  <2> QED
    BY <2>1, <2>2 DEF KeepsTries
<1>4. CASE Leave(w) \/ Defer(w)
  BY <1>4, HopefulAfter DEF Leave, Defer, KeepsTries
<1>5. ASSUME NEW c \in Children, Create(w, c) PROVE KeepsTries(r) \/ LeavesTries(r)
  BY <1>1, <1>5, HopefulAfter DEF Create, Linked, KeepsTries, LeavesTries, ReceiptRow
<1>6. CASE Settle(w)
  <2> DEFINE o == seen[w].receipt
  <2>1. o \in Receipts /\ Hopeful(r)' = Hopeful(r) \ {w}
    BY <1>6, HopefulAfter DEF Settle
  <2>2. CASE receipt' = receipt
    BY <2>1, <2>2 DEF KeepsTries
  <2>3. CASE receipt' # receipt
    <3>1. PICK new \in {"ready", "review", "recovery"} :
            receipt' = [receipt EXCEPT ![o].status = new,
              ![o].child = IF new = "review" THEN NoChild ELSE @,
              ![o].planned = @ \/ new = "review"]
      BY <1>6, <2>3 DEF Settle, Outcome
    <3>2. /\ receipt'[o].status = new /\ receipt'[o].tries = receipt[o].tries
          /\ new = "review" => receipt'[o].planned
          /\ r # o => receipt'[r] = receipt[r]
      BY <1>1, <2>1, <3>1 DEF ReceiptRow
    <3> QED
      BY <2>1, <3>2 DEF KeepsTries, LeavesTries
  <2> QED
    BY <2>2, <2>3
<1> QED
  BY <1>2, <1>3, <1>4, <1>5, <1>6

LEMMA TriesUnderRest ==
  ASSUME RoutingTypeOK, NEW r \in Receipts, UNCHANGED seen,
         \/ UNCHANGED receipt
         \/ \E o \in Receipts : Quote(o) \/ GiveUpReview(o)
         \/ \E o \in Receipts : \E c \in Children : CommitReview(o, c)
  PROVE  KeepsTries(r) \/ LeavesTries(r)
PROOF
<1>1. receipt \in [Receipts -> ReceiptRow] /\ Hopeful(r)' = Hopeful(r)
  BY DEF RoutingTypeOK, Hopeful
<1>2. CASE UNCHANGED receipt
  BY <1>1, <1>2 DEF KeepsTries
<1>3. ASSUME NEW o \in Receipts, Quote(o) PROVE KeepsTries(r)
  BY <1>1, <1>3 DEF Quote, KeepsTries, ReceiptRow
<1>4. ASSUME NEW o \in Receipts, GiveUpReview(o) PROVE KeepsTries(r) \/ LeavesTries(r)
  BY <1>1, <1>4 DEF GiveUpReview, KeepsTries, LeavesTries, ReceiptRow
<1>5. ASSUME NEW o \in Receipts, NEW c \in Children, CommitReview(o, c)
      PROVE  KeepsTries(r) \/ LeavesTries(r)
  <2>1. receipt' = [receipt EXCEPT ![o].status = "routing", ![o].child = c,
                                   ![o].quoted = FALSE]
    BY <1>5 DEF CommitReview, Linked
  <2>2. /\ receipt'[o].status = "routing" /\ receipt'[o].tries = receipt[o].tries
        /\ r # o => receipt'[r] = receipt[r]
    BY <1>1, <1>5, <2>1 DEF ReceiptRow
  <2> QED
    BY <1>1, <2>2 DEF KeepsTries, LeavesTries
<1> QED
  BY <1>2, <1>3, <1>4, <1>5

LEMMA TriesStep ==
  ASSUME RoutingTypeOK, RoutingTypeOK', [Next]_vars,
         \A r \in Receipts : TriesInv(r)
  PROVE  \A r \in Receipts : TriesInv(r)'
PROOF
<1> SUFFICES ASSUME NEW r \in Receipts PROVE TriesInv(r)'
  OBVIOUS
<1>1. CASE UNCHANGED <<receipt, seen>>
  BY <1>1, TriesUnderRest, TriesKept
<1>2. CASE RoutingNext
  <2>1. ASSUME NEW w \in Routers, Record(w) PROVE TriesInv(r)'
    BY <2>1, TriesUnderRecord, TriesKept
  <2>2. ASSUME NEW w \in Routers,
               \/ \E o \in Receipts : List(w, o)
               \/ \E c \in Children : Create(w, c)
               \/ Leave(w) \/ Defer(w) \/ ReadChild(w) \/ Settle(w)
        PROVE  TriesInv(r)'
    BY <2>2, TriesUnderRouters, TriesKept
  <2>3. ASSUME NEW o \in Receipts,
               Quote(o) \/ GiveUpReview(o) \/ \E c \in Children : CommitReview(o, c)
        PROVE  TriesInv(r)'
    <3>1. UNCHANGED seen
      BY <2>3 DEF Quote, GiveUpReview, CommitReview
    <3> QED
      BY <2>3, <3>1, TriesUnderRest, TriesKept
  <2>4. ASSUME NEW c \in Children,
               \/ ClientStarts(c) \/ WalletSends(c) \/ ClientReports(c)
               \/ Cancel(c) \/ Execute(c) \/ Observe(c) \/ Escalate(c)
        PROVE  TriesInv(r)'
    BY <1>1, <2>4 DEF ClientStarts, WalletSends, ClientReports, Cancel, Execute,
      Observe, Escalate, Lives1
  <2> QED
    BY <1>2, <2>1, <2>2, <2>3, <2>4 DEF RoutingNext
<1>3. CASE \E c \in Children : \/ RejectAttempt(c) \/ Lapse(c) \/ LookupReference(c)
                                \/ \E w \in Executors : ClaimAttempt(w, c) \/ Recover(w, c)
  BY <1>1, <1>3 DEF RejectAttempt, Lapse, LookupReference, ClaimAttempt, Recover,
    Writes, routingVars
<1>4. CASE \E w \in Executors : \/ Cross(w) \/ Void(w) \/ Inspect(w) \/ Call(w)
                                 \/ Resolve(w) \/ Drop(w)
  BY <1>1, <1>4 DEF Cross, Void, Inspect, Call, Resolve, Drop, Writes, routingVars
<1> QED
  BY <1>1, <1>2, <1>3, <1>4 DEF Next, Routed, vars

\* The tries of a receipt stay below their limit and the passes that may work on
\* it at the same time, for any limit and any number of passes: a receipt that
\* no route can be found for is not tried for ever.
THEOREM ReceiptsAreGivenUp == Spec => []TriesAreLimited
PROOF
<1> DEFINE Inv == \A r \in Receipts : TriesInv(r)
<1>1. Init => Inv
  <2> SUFFICES ASSUME Init, NEW r \in Receipts PROVE TriesInv(r)
    OBVIOUS
  <2>1. receipt[r].tries = 0
    BY DEF Init, RoutingInit
  <2>2. Cardinality(Routers) \in Nat /\ MaxTries \in Nat \ {0}
    BY HopefulIsFinite, TriesAssumption
  <2> QED
    BY <2>1, <2>2 DEF TriesInv
<1>2. TypeOK /\ TypeOK' /\ Inv /\ [Next]_vars => Inv'
  BY TriesStep DEF TypeOK
<1>3. Inv => TriesAreLimited
  BY DEF TriesInv, TriesAreLimited
<1> QED
  BY <1>1, <1>2, <1>3, TypeCorrect, PTL DEF Spec
=============================================================================

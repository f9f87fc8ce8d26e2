--------------------------- MODULE ReceiptRouting ---------------------------
(***************************************************************************)
(* From a recorded deposit to the operation that converts it.  Router      *)
(* passes list the receipts, with facts about the attempts of their child  *)
(* operation, and act on each of them later: they create a child, read its *)
(* lifecycle, settle the receipt.  The user may have a receipt under       *)
(* review quoted and commit the quote, and a sweep gives up receipts whose *)
(* money is no longer in the wallet.                                       *)
(* The children of web receipts are executed by the user's wallet, here    *)
(* with one action each (module SourceLanes has the protocols); those of   *)
(* Telegram receipts by the executor of module DelegatedExecutor, which    *)
(* extends this one and holds the specification.                           *)
(***************************************************************************)
EXTENDS Naturals, FiniteSets

CONSTANTS
  Receipts,   \* recorded deposits
  Children,   \* child operations that may be created, in this order
  Routers,    \* router passes
  MaxTries,   \* MAX_ROUTING_ATTEMPTS (5)
  NoReceipt,
  NoChild

ASSUME ChildrenAssumption == Children \subseteq Nat
ASSUME RoutersAssumption == IsFiniteSet(Routers)
ASSUME TriesAssumption == MaxTries \in Nat \ {0}
ASSUME NothingAssumption == NoReceipt \notin Receipts /\ NoChild \notin Children

VARIABLES
  receipt,    \* funding_receive_receipts rows
  delegated,  \* receipts of Telegram sessions
  owner,      \* owner[c]: the receipt child c was created for
  life,       \* what the lifecycle projector derives for a child
  wire,       \* the child's transfer: none, pending, landed or reverted
  seen        \* what a pass knows of the receipt it works on (volatile)

routingVars == <<receipt, delegated, owner, life, wire, seen>>

-----------------------------------------------------------------------------
Over == {"failed", "cancelled", "reverted"}
Lives == {"free", "planned", "started", "ambiguous", "sent", "completed", "stuck"}
           \cup Over
Statuses == {"observed", "review", "routing", "ready", "recovery"}

\* A receipt may ask for a review before it has been planned for one.
ReceiptRow ==
  [status : Statuses, child : Children \cup {NoChild},
   planned : BOOLEAN, quoted : BOOLEAN, tries : Nat]

Idle == [receipt |-> NoReceipt, status |-> "ready", child |-> NoChild, tries |-> 0,
         begun |-> FALSE, read |-> "free"]

RoutingTypeOK ==
  /\ receipt \in [Receipts -> ReceiptRow]
  /\ delegated \subseteq Receipts
  /\ owner \in [Children -> Receipts \cup {NoReceipt}]
  /\ life \in [Children -> Lives]
  /\ wire \in [Children -> {"none", "pending", "landed", "reverted"}]
  /\ seen \in [Routers ->
       [receipt : Receipts \cup {NoReceipt}, status : Statuses,
        child : Children \cup {NoChild}, tries : Nat,
        begun : BOOLEAN, read : Lives]]

RoutingInit ==
  /\ receipt \in [Receipts ->
       {[status |-> st, child |-> NoChild, planned |-> FALSE,
         quoted |-> FALSE, tries |-> 0] : st \in {"observed", "review"}}]
  /\ delegated \in SUBSET Receipts
  /\ owner = [c \in Children |-> NoReceipt]
  /\ life = [c \in Children |-> "free"]
  /\ wire = [c \in Children |-> "none"]
  /\ seen = [w \in Routers |-> Idle]

-----------------------------------------------------------------------------
(* The router.                                                             *)

\* The receipts a pass may list: it takes the oldest 25 of them, in the same
\* order every time, so that one of these need not ever be listed.
Due(r) ==
  \/ receipt[r].status \in {"observed", "routing"}
  \/ receipt[r].status = "review" /\ ~receipt[r].planned

\* An attempt of the child is unfinished or may have been broadcast.
Begun(c) ==
  life[c] \in {"started", "ambiguous", "sent", "reverted", "completed", "stuck"}

List(w, r) ==
  /\ seen[w] = Idle
  /\ Due(r)
  /\ LET c == receipt[r].child IN
     seen' = [seen EXCEPT ![w] =
       [receipt |-> r, status |-> receipt[r].status, child |-> c,
        tries |-> receipt[r].tries, read |-> "free",
        begun |-> c \in Children /\ Begun(c)]]
  /\ UNCHANGED <<receipt, delegated, owner, life, wire>>

\* The pass is over, or the process ends.
Leave(w) ==
  /\ seen[w] # Idle
  /\ seen' = [seen EXCEPT ![w] = Idle]
  /\ UNCHANGED <<receipt, delegated, owner, life, wire>>

\* A child operation is inserted for receipt r and linked to it, the link
\* under the lock of the receipt row.
Linked(r, c) ==
  /\ life[c] = "free" /\ \A d \in Children : d < c => life[d] # "free"
  /\ owner' = [owner EXCEPT ![c] = r]
  /\ life' = [life EXCEPT ![c] = "planned"]
  /\ receipt' = [receipt EXCEPT ![r].status = "routing", ![r].child = c,
                                ![r].quoted = FALSE]
  /\ UNCHANGED <<delegated, wire>>

Create(w, c) ==
  LET r == seen[w].receipt IN
  /\ r \in Receipts /\ seen[w].status = "observed"
  /\ receipt[r].status = "observed" /\ receipt[r].child = NoChild
  /\ Linked(r, c)
  /\ seen' = [seen EXCEPT ![w] = Idle]

\* mutant: nobody asks how often the receipt was tried.
RecordForEver(w) ==
  LET r == seen[w].receipt IN
  /\ r \in Receipts /\ seen[w].status = "observed"
  /\ seen' = [seen EXCEPT ![w] = Idle]
  /\ receipt[r].status = "observed"
  /\ receipt' = [receipt EXCEPT ![r].tries = @ + 1]
  /\ UNCHANGED <<delegated, owner, life, wire>>

\* No child can be created now, or ever: the receipt is put under review with a
\* plan for it, given up, or tried again.  Whether it may be tried again is
\* decided by the tries that were listed; each of the three adds one to the
\* tries of now, which another pass may have raised since.
Record(w) ==
  LET r == seen[w].receipt IN
  /\ r \in Receipts /\ seen[w].status \in {"observed", "review"}
  /\ seen' = [seen EXCEPT ![w] = Idle]
  /\ IF /\ receipt[r].child = NoChild
        /\ \/ receipt[r].status = "observed"
           \/ receipt[r].status = "review" /\ ~receipt[r].planned
     THEN \/ receipt' = [receipt EXCEPT ![r].status = "review", ![r].planned = TRUE,
                                        ![r].tries = @ + 1]
          \/ receipt' = [receipt EXCEPT ![r].status = "recovery", ![r].tries = @ + 1]
          \/ /\ seen[w].status = "observed" /\ seen[w].tries + 1 < MaxTries
             /\ receipt[r].status = "observed"
             /\ receipt' = [receipt EXCEPT ![r].tries = @ + 1]
     ELSE UNCHANGED receipt
  /\ UNCHANGED <<delegated, owner, life, wire>>

\* A route that is paused uses up no try.
Defer(w) ==
  /\ seen[w].receipt \in Receipts /\ seen[w].status = "observed"
  /\ seen' = [seen EXCEPT ![w] = Idle]
  /\ UNCHANGED <<receipt, delegated, owner, life, wire>>

\* The lifecycle of the child is derived from its facts of now.
ReadChild(w) ==
  /\ seen[w].receipt \in Receipts /\ seen[w].status = "routing"
  /\ seen[w].read = "free"
  /\ seen' = [seen EXCEPT ![w].read = life[seen[w].child]]
  /\ UNCHANGED <<receipt, delegated, owner, life, wire>>

\* mutant: the receipt takes over the status of a child that came to nothing.
OutcomeOfChild(s) ==
  CASE s.read = "completed" -> "ready"
    [] s.read = "stuck" -> "recovery"
    [] s.read \in Over -> s.read
    [] OTHER -> "routing"

\* What the receipt becomes, from the lifecycle read now and the flags listed
\* before; "routing" leaves it alone.
Outcome(s) ==
  CASE s.read = "completed" -> "ready"
    [] s.read = "stuck" -> "recovery"
    [] s.read \in Over ->
         IF s.receipt \notin delegated /\ ~s.begun THEN "review" ELSE "recovery"
    [] OTHER -> "routing"

\* mutant: the receipt may be bound to another child by now.
SettleAny(w) ==
  LET r == seen[w].receipt
      new == Outcome(seen[w])
  IN  /\ r \in Receipts /\ seen[w].read # "free"
      /\ seen' = [seen EXCEPT ![w] = Idle]
      /\ IF new # "routing" /\ receipt[r].status = "routing"
         THEN receipt' = [receipt EXCEPT ![r].status = new,
                ![r].child = IF new = "review" THEN NoChild ELSE @,
                ![r].planned = @ \/ new = "review"]
         ELSE UNCHANGED receipt
      /\ UNCHANGED <<delegated, owner, life, wire>>

\* The receipt is detached from a child it may try again without; when no plan
\* for a review can be made it is given up instead.
Settle(w) ==
  LET r == seen[w].receipt IN
  /\ r \in Receipts /\ seen[w].read # "free"
  /\ seen' = [seen EXCEPT ![w] = Idle]
  /\ \E new \in {Outcome(seen[w])}
                  \cup (IF Outcome(seen[w]) = "review" THEN {"recovery"} ELSE {}) :
       IF /\ new # "routing"
          /\ receipt[r].status = "routing" /\ receipt[r].child = seen[w].child
       THEN receipt' = [receipt EXCEPT ![r].status = new,
              ![r].child = IF new = "review" THEN NoChild ELSE @,
              ![r].planned = @ \/ new = "review"]
       ELSE UNCHANGED receipt
  /\ UNCHANGED <<delegated, owner, life, wire>>

-----------------------------------------------------------------------------
(* Review by the user, and the sweep.                                      *)

\* A quote is attached to the receipt, or runs out.
Quote(r) ==
  /\ receipt[r].status = "review" /\ receipt[r].planned
  /\ receipt' = [receipt EXCEPT ![r].quoted = ~@]
  /\ UNCHANGED <<delegated, owner, life, wire, seen>>

CommitReview(r, c) ==
  /\ receipt[r].status = "review" /\ receipt[r].quoted
  /\ receipt[r].child = NoChild
  /\ Linked(r, c)
  /\ UNCHANGED seen

\* The wallet's finalized balance no longer covers the receipt.
GiveUpReview(r) ==
  /\ receipt[r].status = "review" /\ receipt[r].planned /\ ~receipt[r].quoted
  /\ receipt' = [receipt EXCEPT ![r].status = "recovery"]
  /\ UNCHANGED <<delegated, owner, life, wire, seen>>

-----------------------------------------------------------------------------
(* The life of a child.                                                    *)

Lives1(c, from, to) ==
  /\ life[c] \in from
  /\ life' = [life EXCEPT ![c] = to]
  /\ UNCHANGED <<receipt, delegated, owner, seen>>

ByClient(c) == owner[c] \in Receipts \ delegated

ClientStarts(c) == ByClient(c) /\ Lives1(c, {"planned"}, "started") /\ UNCHANGED wire

WalletSends(c) ==
  /\ ByClient(c) /\ life[c] \in {"started", "ambiguous"} /\ wire[c] = "none"
  /\ wire' = [wire EXCEPT ![c] = "pending"]
  /\ UNCHANGED <<receipt, delegated, owner, life, seen>>

\* The wallet names its transaction, cannot tell, or has not sent it.
ClientReports(c) ==
  /\ ByClient(c)
  /\ \/ wire[c] # "none" /\ Lives1(c, {"started", "ambiguous"}, "sent")
     \/ Lives1(c, {"started"}, "ambiguous")
     \/ wire[c] = "none" /\ Lives1(c, {"started"}, "failed")
  /\ UNCHANGED wire

\* The user cancels an operation that has not begun, or its quote expires.
Cancel(c) == Lives1(c, {"planned"}, "cancelled") /\ UNCHANGED wire

Execute(c) ==
  /\ wire[c] = "pending"
  /\ \E end \in {"landed", "reverted"} : wire' = [wire EXCEPT ![c] = end]
  /\ UNCHANGED <<receipt, delegated, owner, life, seen>>

\* Final evidence of a transfer whose transaction is known.  A proven delivery
\* overrides that the operation was handed to a person.
Observe(c) ==
  /\ \/ wire[c] = "landed" /\ Lives1(c, {"sent", "stuck"}, "completed")
     \/ wire[c] = "reverted" /\ Lives1(c, {"sent"}, "reverted")
  /\ UNCHANGED wire

\* Evidence is contradictory or cannot be had, and the operation is handed to a
\* person.  (One that only ran out of time stays as it is for the router.)
Escalate(c) == Lives1(c, {"ambiguous", "sent"}, "stuck") /\ UNCHANGED wire

RoutingNext ==
  \/ \E w \in Routers : \/ \E r \in Receipts : List(w, r)
                        \/ \E c \in Children : Create(w, c)
                        \/ Leave(w) \/ Record(w) \/ Defer(w) \/ ReadChild(w) \/ Settle(w)
  \/ \E r \in Receipts : \/ Quote(r) \/ GiveUpReview(r)
                         \/ \E c \in Children : CommitReview(r, c)
  \/ \E c \in Children : \/ ClientStarts(c) \/ WalletSends(c) \/ ClientReports(c)
                         \/ Cancel(c) \/ Execute(c) \/ Observe(c) \/ Escalate(c)
=============================================================================

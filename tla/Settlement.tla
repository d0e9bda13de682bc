----------------------------- MODULE Settlement -----------------------------
(***************************************************************************)
(* Checkout, webhook and verify-on-callback for ONE learner and ONE paid   *)
(* course, path or cohort (payments.service.ts).  Orders of different      *)
(* learners or entities share no row, so one pair is enough.               *)
(*                                                                         *)
(* A request is a slot of the API process; each of its actions is the code *)
(* between two awaits, so requests interleave exactly where the event loop *)
(* lets them.  The price, the Earn-Back percentage and the revenue split   *)
(* that a checkout freezes on the order are one value of Terms.            *)
(***************************************************************************)
EXTENDS Naturals, Sequences, FiniteSets

CONSTANTS
  Orders,        \* ids of Order rows
  Sessions,      \* hosted-checkout sessions the gateway can open (a bound)
  Requests,      \* request slots of the API (a bound on concurrency)
  Terms,         \* what a checkout can freeze on an order
  DueTerms,      \* the terms that owe the instructor a guaranteed payout
  EscrowTerms,   \* the terms with an Earn-Back base, hence with a deadline
  Free,          \* the catalogue entry of an entity that became free
  None,          \* a null column or local
  MaxEdits,      \* bound on catalogue edits by the creator
  MaxAborts      \* bound on requests cut short (crash, thrown error)

ASSUME SettlementAssumption ==
  /\ DueTerms \subseteq Terms
  /\ EscrowTerms \subseteq Terms
  /\ None \notin Orders \cup Sessions \cup Terms
  /\ Free \notin Terms
  /\ MaxEdits \in Nat
  /\ MaxAborts \in Nat

VARIABLES
  status,        \* status[o]: Order.status, "absent" before the row exists
  terms,         \* terms[o]: the terms frozen on the row
  ref,           \* ref[o]: Order.providerRef
  deadline,      \* deadline[o]: the terms Order.earnBackDeadline came from
  payouts,       \* payouts[o]: InstructorPayout rows of the sale, oldest first
  queued,        \* <<o, i>>: the payout job of payouts[o][i] was enqueued
  enrolledBy,    \* "none", "direct" or "payment": who created the enrolment
  confirmations, \* confirmations[o]: PaymentConfirmed events (counted to 2)
  catalog,       \* the entity's current terms, or Free
  charge,        \* charge[s]: the gateway's record of session s
  acked,         \* sessions whose webhook was answered with a 2xx
  req,           \* req[r]: the local state of request r
  edits, aborts, \* how many of the bounded environment steps were taken
  reopened       \* reopened[o]: history, how often a checkout wrote over the
                 \* settled order o the status it had when it was looked up

orderVars == <<status, terms, ref, deadline>>
effectVars == <<payouts, queued, enrolledBy, confirmations>>
gatewayVars == <<charge, acked>>
boundVars == <<catalog, edits, aborts, reopened>>
vars == <<orderVars, effectVars, gatewayVars, boundVars, req>>

Settled == {"paid", "earn_back_issued"}
Statuses == Settled \cup {"absent", "pending", "failed"}
ChargeStates == {"unused", "open", "abandoned", "expired", "success"}
Pcs == {"idle", "price", "find", "write", "open", "saveRef", "ask", "markFailed",
        "read", "commit", "enqueue", "enrol", "announce"}

Idle == [pc |-> "idle", kind |-> "none", order |-> None, terms |-> None,
         session |-> None, row |-> 0]

Locals == [pc : Pcs, kind : {"none", "checkout", "webhook", "verify"},
           order : Orders \cup {None}, terms : Terms \cup {None},
           session : Sessions \cup {None}, row : Nat]

OrdersTyped ==
  /\ status \in [Orders -> Statuses]
  /\ terms \in [Orders -> Terms \cup {None}]
  /\ ref \in [Orders -> Sessions \cup {None}]
  /\ deadline \in [Orders -> Terms \cup {None}]

EffectsTyped ==
  /\ payouts \in [Orders -> Seq(Terms)]
  /\ queued \subseteq Orders \X Nat
  /\ enrolledBy \in {"none", "direct", "payment"}
  /\ confirmations \in [Orders -> 0..2]

GatewayTyped ==
  /\ charge \in [Sessions -> [order : Orders \cup {None},
                              terms : Terms \cup {None},
                              state : ChargeStates]]
  /\ acked \subseteq Sessions

BoundsTyped ==
  /\ catalog \in Terms \cup {Free}
  /\ edits \in 0..MaxEdits
  /\ aborts \in 0..MaxAborts
  /\ reopened \in [Orders -> Nat]

TypeOK == /\ OrdersTyped
          /\ EffectsTyped
          /\ GatewayTyped
          /\ BoundsTyped
          /\ req \in [Requests -> Locals]

Init ==
  /\ status = [o \in Orders |-> "absent"]
  /\ terms = [o \in Orders |-> None]
  /\ ref = [o \in Orders |-> None]
  /\ deadline = [o \in Orders |-> None]
  /\ payouts = [o \in Orders |-> <<>>]
  /\ queued = {}
  /\ enrolledBy = "none"
  /\ confirmations = [o \in Orders |-> 0]
  /\ catalog \in Terms
  /\ charge = [s \in Sessions |-> [order |-> None, terms |-> None,
                                   state |-> "unused"]]
  /\ acked = {}
  /\ req = [r \in Requests |-> Idle]
  /\ edits = 0
  /\ aborts = 0
  /\ reopened = [o \in Orders |-> 0]

----------------------------------------------------------------------------
(* Locals of a request.                                                    *)

At(r, pc) == req[r].pc = pc

Become(r, local) == req' = [req EXCEPT ![r] = local]

\* The request goes on to its next await.
Goto(r, pc) == Become(r, [req[r] EXCEPT !.pc = pc])

\* A webhook handler that returns normally is a 2xx to the gateway.
Answer(r) ==
  /\ Become(r, Idle)
  /\ acked' = acked \cup (IF req[r].kind = "webhook" THEN {req[r].session}
                                                     ELSE {})

----------------------------------------------------------------------------
(* initCheckout                                                            *)

\* Every checkout in flight needs a session: the bound on checkouts.
SessionLeft ==
  Cardinality({r \in Requests : req[r].pc \in {"price", "find", "write", "open"}})
    < Cardinality({s \in Sessions : charge[s].state = "unused"})

\* isEnrolled: an enrolled learner is turned away.
CheckoutStart(r) ==
  /\ At(r, "idle")
  /\ enrolledBy = "none"
  /\ SessionLeft
  /\ Become(r, [Idle EXCEPT !.pc = "price", !.kind = "checkout"])
  /\ UNCHANGED <<orderVars, effectVars, gatewayVars, boundVars>>

\* snapshots.build: the terms of the moment, unless the entity is free now.
CheckoutPrice(r) ==
  /\ At(r, "price")
  /\ \/ /\ catalog \in Terms
        /\ Become(r, [req[r] EXCEPT !.pc = "find", !.terms = catalog])
     \/ /\ catalog = Free
        /\ Become(r, Idle)
  /\ UNCHANGED <<orderVars, effectVars, gatewayVars, boundVars>>

\* "Reuse an existing unpaid order": any pending row, or none.
CheckoutFind(r) ==
  /\ At(r, "find")
  /\ LET pending == {o \in Orders : status[o] = "pending"}
     IN  \E found \in (IF pending = {} THEN {None} ELSE pending) :
           Become(r, [req[r] EXCEPT !.pc = "write", !.order = found])
  /\ UNCHANGED <<orderVars, effectVars, gatewayVars, boundVars>>

\* Update by id, whatever the row has become since, or create.  providerRef
\* and earnBackDeadline are not among the columns written.
CheckoutWrite(r) ==
  /\ At(r, "write")
  /\ \E o \in Orders :
       /\ IF req[r].order = None THEN status[o] = "absent" ELSE o = req[r].order
       /\ status' = [status EXCEPT ![o] = "pending"]
       /\ terms' = [terms EXCEPT ![o] = req[r].terms]
       /\ reopened' = [reopened EXCEPT ![o] =
                         IF status[o] \in Settled THEN @ + 1 ELSE @]
       /\ Become(r, [req[r] EXCEPT !.pc = "open", !.order = o])
  /\ UNCHANGED <<ref, deadline, effectVars, gatewayVars, catalog, edits, aborts>>

\* The gateway opens a hosted session for the order, or the call throws.
CheckoutOpen(r) ==
  /\ At(r, "open")
  /\ \/ \E s \in Sessions :
          /\ charge[s].state = "unused"
          /\ charge' = [charge EXCEPT ![s] = [order |-> req[r].order,
                                              terms |-> req[r].terms,
                                              state |-> "open"]]
          /\ Become(r, [req[r] EXCEPT !.pc = "saveRef", !.session = s])
     \/ /\ Become(r, Idle)
        /\ UNCHANGED charge
  /\ UNCHANGED <<orderVars, effectVars, acked, boundVars>>

CheckoutSaveRef(r) ==
  /\ At(r, "saveRef")
  /\ ref' = [ref EXCEPT ![req[r].order] = req[r].session]
  /\ Become(r, Idle)
  /\ UNCHANGED <<status, terms, deadline, effectVars, gatewayVars, boundVars>>

----------------------------------------------------------------------------
(* handleWebhook and verifyAndSettle                                       *)

\* A signed charge.success; the gateway may deliver it again at any time.
WebhookStart(r, s) ==
  /\ At(r, "idle")
  /\ charge[s].state = "success"
  /\ Become(r, [Idle EXCEPT !.pc = "read", !.kind = "webhook",
                            !.order = charge[s].order, !.session = s])
  /\ UNCHANGED <<orderVars, effectVars, gatewayVars, boundVars>>

\* The learner's callback page; a settled order is answered at once.
VerifyStart(r, o) ==
  /\ At(r, "idle")
  /\ status[o] \in {"pending", "failed"}
  /\ Become(r, [Idle EXCEPT !.pc = "ask", !.kind = "verify", !.order = o,
                            !.session = ref[o]])
  /\ UNCHANGED <<orderVars, effectVars, gatewayVars, boundVars>>

\* The charges the gateway can look up: by providerRef, else by order id.
Asked(r) == IF req[r].session # None
            THEN {req[r].session}
            ELSE {s \in Sessions : charge[s].order = req[r].order}

\* Mutant: an open session reads as paid.
VerifyAskOptimist(r) ==
  /\ At(r, "ask")
  /\ \E s \in Asked(r) : charge[s].state \in {"open", "success"}
  /\ Goto(r, "read")
  /\ UNCHANGED <<orderVars, effectVars, gatewayVars, boundVars>>

\* "abandoned" and "expired" read as failed; an unreachable gateway, like an
\* open session, as pending, which ends the request.
VerifyAsk(r) ==
  /\ At(r, "ask")
  /\ \/ \E s \in Asked(r) : charge[s].state = "success" /\ Goto(r, "read")
     \/ \E s \in Asked(r) : /\ charge[s].state \in {"abandoned", "expired"}
                            /\ Goto(r, "markFailed")
     \/ Become(r, Idle)
  /\ UNCHANGED <<orderVars, effectVars, gatewayVars, boundVars>>

\* Mutant: the update is not conditional on the order being pending.
VerifyMarkFailedAlways(r) ==
  /\ At(r, "markFailed")
  /\ status' = [status EXCEPT ![req[r].order] = "failed"]
  /\ Become(r, Idle)
  /\ UNCHANGED <<terms, ref, deadline, effectVars, gatewayVars, boundVars>>

\* updateMany: only an order that is still pending is marked.
VerifyMarkFailed(r) ==
  /\ At(r, "markFailed")
  /\ status' = [status EXCEPT ![req[r].order] =
                  IF @ = "pending" THEN "failed" ELSE @]
  /\ Become(r, Idle)
  /\ UNCHANGED <<terms, ref, deadline, effectVars, gatewayVars, boundVars>>

----------------------------------------------------------------------------
(* settleOrder                                                             *)

\* Mutant: any order that is not pending counts as settled.
SettleReadPendingOnly(r) ==
  /\ At(r, "read")
  /\ IF status[req[r].order] # "pending"
     THEN Answer(r)
     ELSE /\ Become(r, [req[r] EXCEPT !.pc = "commit",
                                      !.terms = terms[req[r].order]])
          /\ UNCHANGED acked
  /\ UNCHANGED <<orderVars, effectVars, charge, boundVars>>

\* findUnique: a settled order ends the request, any other row is kept as
\* the snapshot the rest of settleOrder works from.
SettleRead(r) ==
  /\ At(r, "read")
  /\ IF status[req[r].order] \in Settled
     THEN Answer(r)
     ELSE /\ Become(r, [req[r] EXCEPT !.pc = "commit",
                                      !.terms = terms[req[r].order]])
          /\ UNCHANGED acked
  /\ UNCHANGED <<orderVars, effectVars, charge, boundVars>>

\* Mutant: the update of the row is by id only.
CommitSaleAgain(r) ==
  LET o == req[r].order
      frozen == req[r].terms
  IN  /\ status' = [status EXCEPT ![o] = "paid"]
      /\ deadline' = [deadline EXCEPT ![o] =
                        IF frozen \in EscrowTerms THEN frozen ELSE None]
      /\ payouts' = [payouts EXCEPT ![o] =
                        IF frozen \in DueTerms THEN Append(@, frozen) ELSE @]
      /\ Goto(r, "enrol")
      /\ UNCHANGED <<terms, ref>>

\* The transaction: pending -> paid with deadline and payout row, computed
\* from the snapshot.
CommitSale(r) ==
  LET o == req[r].order
      frozen == req[r].terms
  IN  /\ status[o] = "pending"
      /\ status' = [status EXCEPT ![o] = "paid"]
      /\ deadline' = [deadline EXCEPT ![o] =
                        IF frozen \in EscrowTerms THEN frozen ELSE None]
      /\ IF frozen \in DueTerms
         THEN /\ payouts' = [payouts EXCEPT ![o] = Append(@, frozen)]
              /\ Become(r, [req[r] EXCEPT !.pc = "enqueue",
                                          !.row = Len(payouts[o]) + 1])
         ELSE /\ UNCHANGED payouts
              /\ Goto(r, "enrol")
      /\ UNCHANGED <<terms, ref>>

\* updateMany matched no row ("lost the race"): nothing is written, and the
\* request still goes on to enrol and announce.
LoseRace(r) ==
  /\ status[req[r].order] # "pending"
  /\ Goto(r, "enrol")
  /\ UNCHANGED <<orderVars, payouts>>

SettleCommit(r) ==
  /\ At(r, "commit")
  /\ CommitSale(r) \/ LoseRace(r)
  /\ UNCHANGED <<queued, enrolledBy, confirmations, gatewayVars, boundVars>>

\* Mutant: the job is named after the order, not after the row.
SettleEnqueueByOrder(r) ==
  /\ At(r, "enqueue")
  /\ queued' = queued \cup {<<req[r].order, 1>>}
  /\ Goto(r, "enrol")
  /\ UNCHANGED <<orderVars, payouts, enrolledBy, confirmations,
                 gatewayVars, boundVars>>

SettleEnqueue(r) ==
  /\ At(r, "enqueue")
  /\ queued' = queued \cup {<<req[r].order, req[r].row>>}
  /\ Goto(r, "enrol")
  /\ UNCHANGED <<orderVars, payouts, enrolledBy, confirmations,
                 gatewayVars, boundVars>>

\* enrollAfterPayment: the unique key makes a second creation a no-op.
SettleEnrol(r) ==
  /\ At(r, "enrol")
  /\ enrolledBy' = IF enrolledBy = "none" THEN "payment" ELSE enrolledBy
  /\ Goto(r, "announce")
  /\ UNCHANGED <<orderVars, payouts, queued, confirmations,
                 gatewayVars, boundVars>>

SettleAnnounce(r) ==
  /\ At(r, "announce")
  /\ confirmations' = [confirmations EXCEPT ![req[r].order] =
                         IF @ < 2 THEN @ + 1 ELSE @]
  /\ Answer(r)
  /\ UNCHANGED <<orderVars, payouts, queued, enrolledBy, charge, boundVars>>

----------------------------------------------------------------------------
(* The environment: creator, learner, gateway, Earn-Back and crashes       *)

EditCatalog ==
  /\ edits < MaxEdits
  /\ edits' = edits + 1
  /\ catalog' \in (Terms \cup {Free}) \ {catalog}
  /\ UNCHANGED <<orderVars, effectVars, gatewayVars, aborts, reopened, req>>

\* enroll: direct self-enrolment, open only while the content is free.
Enroll ==
  /\ catalog = Free
  /\ enrolledBy = "none"
  /\ enrolledBy' = "direct"
  /\ UNCHANGED <<orderVars, payouts, queued, confirmations, gatewayVars,
                 boundVars, req>>

\* A session ends paid, is left (and may still be paid), or expires.
ChargeMoves == {<<"open", "abandoned">>, <<"open", "success">>,
                <<"abandoned", "success">>, <<"open", "expired">>,
                <<"abandoned", "expired">>}

ChargeMove(s) ==
  /\ \E m \in ChargeMoves :
       /\ charge[s].state = m[1]
       /\ charge' = [charge EXCEPT ![s].state = m[2]]
  /\ UNCHANGED <<orderVars, effectVars, acked, boundVars, req>>

\* earn-back.service.ts resolves the escrow of a paid order.
IssueEarnBack(o) ==
  /\ status[o] = "paid"
  /\ terms[o] \in EscrowTerms
  /\ status' = [status EXCEPT ![o] = "earn_back_issued"]
  /\ UNCHANGED <<terms, ref, deadline, effectVars, gatewayVars, boundVars, req>>

\* The process dies or an await throws: what was written stays written.
Abort(r) ==
  /\ ~At(r, "idle")
  /\ aborts < MaxAborts
  /\ aborts' = aborts + 1
  /\ Become(r, Idle)
  /\ UNCHANGED <<orderVars, effectVars, gatewayVars, catalog, edits, reopened>>

----------------------------------------------------------------------------

Advance(r) ==
  \/ CheckoutPrice(r) \/ CheckoutFind(r) \/ CheckoutWrite(r)
  \/ CheckoutOpen(r) \/ CheckoutSaveRef(r) \/ VerifyAsk(r) \/ VerifyMarkFailed(r)
  \/ SettleRead(r) \/ SettleCommit(r) \/ SettleEnqueue(r) \/ SettleEnrol(r)
  \/ SettleAnnounce(r)

Begin(r) ==
  \/ CheckoutStart(r)
  \/ \E s \in Sessions : WebhookStart(r, s)
  \/ \E o \in Orders : VerifyStart(r, o)

Next ==
  \/ \E r \in Requests : Advance(r) \/ Begin(r) \/ Abort(r)
  \/ EditCatalog
  \/ Enroll
  \/ \E s \in Sessions : ChargeMove(s)
  \/ \E o \in Orders : IssueEarnBack(o)

Spec == Init /\ [][Next]_vars

\* An accepted request runs to its end, and the gateway redelivers a webhook
\* until it is answered.  The learner, the creator and the provider's verdict
\* are not fair: nobody has to check out, pay, edit or complete.
Deliver(s) == /\ s \notin acked
              /\ \E r \in Requests : WebhookStart(r, s)

FairSpec == /\ Spec
            /\ \A r \in Requests : WF_vars(Advance(r))
            /\ \A s \in Sessions : SF_vars(Deliver(s))

----------------------------------------------------------------------------
(* Properties                                                              *)

Charged(o) == {s \in Sessions : charge[s].order = o /\ charge[s].state = "success"}

\* Nothing is handed out without money: an enrolment created by a payment and
\* every payout row of a sale are backed by a successful charge of the order,
\* whatever webhooks, callbacks, checkouts and crashes race (settleOrder is
\* reached only from a signed charge.success or a successful verification).
NothingWithoutCharge ==
  /\ enrolledBy = "payment" => \E o \in Orders : Charged(o) # {}
  /\ \A o \in Orders : payouts[o] # <<>> => Charged(o) # {}

\* A sale owes its guaranteed share at most once: no replay or race of
\* settleOrder writes a second InstructorPayout row ("settle the matching
\* order exactly once", payments.service.ts:171).
OnePayoutRow == \A o \in Orders : Len(payouts[o]) <= 1

\* What every interleaving leaves of it: a sale owes one payout for each time
\* it was settled, and it is settled again only after a checkout wrote its
\* stale "pending" over it.  Replays, callbacks and crashes add none.
SalePayoutOnce ==
  \A o \in Orders :
    Len(payouts[o]) <= reopened[o] + (IF status[o] \in Settled THEN 1 ELSE 0)

PayoutRows == UNION {{<<o, i>> : i \in DOMAIN payouts[o]} : o \in Orders}
Carried == {<<req[r].order, req[r].row>> : r \in {q \in Requests : At(q, "enqueue")}}

\* The payout rows that no job and no request under way will hand on.
LostJobs == PayoutRows \ (queued \cup Carried)

\* The job of a payout row is enqueued after the transaction that wrote the
\* row: a request cut short between the two loses that one job, and nothing
\* else does, not a second row of the order and not a replay.
OneJobLostPerAbort == Cardinality(LostJobs) <= aborts

\* Under every interleaving the requests implement the sale's life cycle: it
\* is settled or declined once, the payout row is written in the settling
\* step, and only a checkout that looked the order up while it was open can
\* write it open again.
Lifecycle == INSTANCE SaleLifecycle WITH
  Checkouts <- Requests,
  sale <- [o \in Orders |->
             CASE status[o] = "absent" -> "new"
               [] status[o] = "pending" -> "open"
               [] status[o] = "failed" -> "declined"
               [] OTHER -> "settled"],
  owed <- [o \in Orders |-> Len(payouts[o])],
  holds <- [r \in Requests |-> IF At(r, "write") THEN req[r].order ELSE None]

ImplementsLifecycle == Lifecycle!Spec

\* A learner whose charge succeeded gets the content, by webhook or callback.
PaidUnlocks ==
  (\E s \in Sessions : charge[s].state = "success") ~> enrolledBy # "none"

\* A payout row that was committed reaches the payout queue.
PayoutRowQueued ==
  \A o \in Orders : payouts[o] # <<>> ~> <<o, 1>> \in queued

\* A sale is carried through to both its ends, the learner and the creator.
PaidIsDelivered == PaidUnlocks /\ PayoutRowQueued
============================================================================

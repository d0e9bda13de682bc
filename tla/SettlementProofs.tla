-------------------------- MODULE SettlementProofs --------------------------
(***************************************************************************)
(* Theorems about Settlement, for any set of orders, sessions, requests    *)
(* and terms.                                                              *)
(***************************************************************************)
EXTENDS Settlement, FiniteSetTheorems, TLAPS

(***************************************************************************)
(* The types are not inductive alone: that a request past its first awaits *)
(* holds an order, terms or a session is what makes its next write well    *)
(* typed.  LocalKnown says it of the locals of one request, and RowsKnown  *)
(* of the rows those locals are read from.                                 *)
(***************************************************************************)
LocalKnown(l) ==
  /\ l.pc \notin {"idle", "price", "find", "write"} => l.order \in Orders
  /\ l.pc \in {"find", "write", "open"} => l.terms \in Terms
  /\ l.pc = "saveRef" => l.session \in Sessions
  /\ l.kind = "webhook" => l.session \in Sessions
  /\ l.pc \in {"idle", "price", "find", "write", "open", "saveRef"}
       => l.kind # "webhook"

RowsKnown ==
  \A s \in Sessions : charge[s].state # "unused" => charge[s].order \in Orders

RequestsKnown == /\ req \in [Requests -> Locals]
                 /\ \A r \in Requests : LocalKnown(req[r])

Typed == /\ OrdersTyped
         /\ EffectsTyped
         /\ GatewayTyped
         /\ BoundsTyped
         /\ RequestsKnown
         /\ RowsKnown

LEMMA IdleKnown == Idle \in Locals /\ LocalKnown(Idle)
BY SettlementAssumption DEF Idle, Locals, Pcs, LocalKnown

\* A step of one request leaves the locals of the others alone.
LEMMA BecomeKnown ==
  ASSUME NEW r \in Requests, NEW l, RequestsKnown, Become(r, l),
         l \in Locals, LocalKnown(l)
  PROVE  RequestsKnown'
<1>1. req' \in [Requests -> Locals]
  BY DEF RequestsKnown, Become
<1>2. \A q \in Requests : req'[q] = IF q = r THEN l ELSE req[q]
  BY DEF RequestsKnown, Become
<1>3. QED
  BY <1>1, <1>2 DEF RequestsKnown, LocalKnown

LEMMA InitTyped == Init => Typed
<1> SUFFICES ASSUME Init PROVE Typed
  OBVIOUS
<1> USE SettlementAssumption DEF Init
<1>1. OrdersTyped
  BY DEF OrdersTyped, Statuses, Settled
<1>2. EffectsTyped
  BY DEF EffectsTyped
<1>3. GatewayTyped
  BY DEF GatewayTyped, ChargeStates
<1>4. BoundsTyped
  BY DEF BoundsTyped
<1>5. RequestsKnown
  BY IdleKnown DEF RequestsKnown
<1>6. RowsKnown
  BY DEF RowsKnown
<1>7. QED
  BY <1>1, <1>2, <1>3, <1>4, <1>5, <1>6 DEF Typed

----------------------------------------------------------------------------
(* initCheckout                                                            *)

LEMMA CheckoutTyped ==
  ASSUME NEW r \in Requests, Typed,
         CheckoutStart(r) \/ CheckoutPrice(r) \/ CheckoutFind(r)
           \/ CheckoutWrite(r) \/ CheckoutOpen(r) \/ CheckoutSaveRef(r)
  PROVE  Typed'
<1> USE SettlementAssumption
<1> USE DEF Typed, At, orderVars, effectVars, gatewayVars, boundVars
<1>l. req[r] \in Locals /\ LocalKnown(req[r])
  BY DEF RequestsKnown
<1>1. CASE CheckoutStart(r)
  <2> DEFINE l == [Idle EXCEPT !.pc = "price", !.kind = "checkout"]
  <2>1. l \in Locals /\ LocalKnown(l)
    BY <1>1 DEF CheckoutStart, Idle, Locals, Pcs, LocalKnown
  <2>2. RequestsKnown'
    BY <1>1, <2>1, BecomeKnown DEF CheckoutStart
  <2>3. QED
    BY <1>1, <2>2 DEF CheckoutStart, OrdersTyped, EffectsTyped, GatewayTyped,
                      BoundsTyped, RowsKnown
<1>0. CASE CheckoutPrice(r)
  <2> DEFINE l == [req[r] EXCEPT !.pc = "find", !.terms = catalog]
  <2>1. catalog \in Terms => l \in Locals /\ LocalKnown(l)
    BY <1>0, <1>l DEF CheckoutPrice, Locals, Pcs, LocalKnown
  <2>2. RequestsKnown'
    BY <1>0, <2>1, IdleKnown, BecomeKnown DEF CheckoutPrice
  <2>3. QED
    BY <1>0, <2>2 DEF CheckoutPrice, OrdersTyped, EffectsTyped, GatewayTyped,
                      BoundsTyped, RowsKnown
<1>2. CASE CheckoutFind(r)
  <2>1. PICK found \in Orders \cup {None} :
          Become(r, [req[r] EXCEPT !.pc = "write", !.order = found])
    BY <1>2 DEF CheckoutFind
  <2> DEFINE l == [req[r] EXCEPT !.pc = "write", !.order = found]
  <2>2. l \in Locals /\ LocalKnown(l)
    BY <1>2, <1>l, <2>1 DEF CheckoutFind, Locals, Pcs, LocalKnown
  <2>3. RequestsKnown'
    BY <2>1, <2>2, BecomeKnown
  <2>4. QED
    BY <1>2, <2>3 DEF CheckoutFind, OrdersTyped, EffectsTyped, GatewayTyped,
                      BoundsTyped, RowsKnown
<1>3. CASE CheckoutWrite(r)
  <2>1. PICK o \in Orders :
          /\ status' = [status EXCEPT ![o] = "pending"]
          /\ terms' = [terms EXCEPT ![o] = req[r].terms]
          /\ reopened' = [reopened EXCEPT ![o] =
                            IF status[o] \in Settled THEN reopened[o] + 1
                                                     ELSE reopened[o]]
          /\ Become(r, [req[r] EXCEPT !.pc = "open", !.order = o])
    BY <1>3 DEF CheckoutWrite
  <2> DEFINE l == [req[r] EXCEPT !.pc = "open", !.order = o]
  <2>2. l \in Locals /\ LocalKnown(l) /\ req[r].terms \in Terms
    BY <1>3, <1>l DEF CheckoutWrite, Locals, Pcs, LocalKnown
  <2>3. RequestsKnown'
    BY <2>1, <2>2, BecomeKnown
  <2>4. OrdersTyped' /\ RowsKnown'
    BY <1>3, <2>1, <2>2
       DEF CheckoutWrite, OrdersTyped, Statuses, Settled, RowsKnown
  <2>5. BoundsTyped'
    <3>1. reopened' \in [Orders -> Nat]
      BY <2>1 DEF BoundsTyped
    <3>2. UNCHANGED <<catalog, edits, aborts>>
      BY <1>3 DEF CheckoutWrite
    <3>3. QED
      BY <3>1, <3>2 DEF BoundsTyped
  <2>6. QED
    BY <1>3, <2>3, <2>4, <2>5 DEF CheckoutWrite, EffectsTyped, GatewayTyped
<1>4. CASE CheckoutOpen(r)
  <2>1. CASE /\ Become(r, Idle)
             /\ UNCHANGED charge
    BY <1>4, <2>1, IdleKnown, BecomeKnown
       DEF CheckoutOpen, OrdersTyped, EffectsTyped, GatewayTyped,
           BoundsTyped, RowsKnown
  <2>2. ASSUME NEW s \in Sessions,
               charge' = [charge EXCEPT ![s] = [order |-> req[r].order,
                                                terms |-> req[r].terms,
                                                state |-> "open"]],
               Become(r, [req[r] EXCEPT !.pc = "saveRef", !.session = s])
        PROVE  Typed'
    <3> DEFINE l == [req[r] EXCEPT !.pc = "saveRef", !.session = s]
    <3>1. l \in Locals /\ LocalKnown(l)
          /\ req[r].order \in Orders /\ req[r].terms \in Terms
      BY <1>4, <1>l DEF CheckoutOpen, Locals, Pcs, LocalKnown
    <3>2. RequestsKnown'
      BY <2>2, <3>1, BecomeKnown
    <3>3. GatewayTyped' /\ RowsKnown'
      BY <1>4, <2>2, <3>1
         DEF CheckoutOpen, GatewayTyped, ChargeStates, RowsKnown
    <3>4. QED
      BY <1>4, <3>2, <3>3 DEF CheckoutOpen, OrdersTyped, EffectsTyped,
                              BoundsTyped
  <2>3. QED
    BY <1>4, <2>1, <2>2 DEF CheckoutOpen
<1>5. CASE CheckoutSaveRef(r)
  <2>1. RequestsKnown'
    BY <1>5, IdleKnown, BecomeKnown DEF CheckoutSaveRef
  <2>2. req[r].session \in Sessions
    BY <1>5, <1>l DEF CheckoutSaveRef, LocalKnown
  <2>3. QED
    BY <1>5, <2>1, <2>2 DEF CheckoutSaveRef, OrdersTyped, EffectsTyped,
                            GatewayTyped, BoundsTyped, RowsKnown
<1>6. QED
  BY <1>0, <1>1, <1>2, <1>3, <1>4, <1>5

----------------------------------------------------------------------------
(* handleWebhook, verifyAndSettle, settleOrder                             *)

LEMMA CallbackTyped ==
  ASSUME NEW r \in Requests, Typed,
         \/ \E s \in Sessions : WebhookStart(r, s)
         \/ \E o \in Orders : VerifyStart(r, o)
         \/ VerifyAsk(r) \/ VerifyMarkFailed(r)
  PROVE  Typed'
<1> USE SettlementAssumption
<1> USE DEF Typed, At, orderVars, effectVars, gatewayVars, boundVars
<1>l. req[r] \in Locals /\ LocalKnown(req[r])
  BY DEF RequestsKnown
<1>1. ASSUME NEW s \in Sessions, WebhookStart(r, s) PROVE Typed'
  <2> DEFINE l == [Idle EXCEPT !.pc = "read", !.kind = "webhook",
                               !.order = charge[s].order, !.session = s]
  <2>1. l \in Locals /\ LocalKnown(l)
    BY <1>1 DEF WebhookStart, RowsKnown, GatewayTyped, Idle, Locals, Pcs,
                LocalKnown
  <2>2. RequestsKnown'
    BY <1>1, <2>1, BecomeKnown DEF WebhookStart
  <2>3. QED
    BY <1>1, <2>2 DEF WebhookStart, OrdersTyped, EffectsTyped, GatewayTyped,
                      BoundsTyped, RowsKnown
<1>2. ASSUME NEW o \in Orders, VerifyStart(r, o) PROVE Typed'
  <2> DEFINE l == [Idle EXCEPT !.pc = "ask", !.kind = "verify", !.order = o,
                               !.session = ref[o]]
  <2>1. l \in Locals /\ LocalKnown(l)
    BY <1>2 DEF OrdersTyped, Idle, Locals, Pcs, LocalKnown
  <2>2. RequestsKnown'
    BY <1>2, <2>1, BecomeKnown DEF VerifyStart
  <2>3. QED
    BY <1>2, <2>2 DEF VerifyStart, OrdersTyped, EffectsTyped, GatewayTyped,
                      BoundsTyped, RowsKnown
<1>3. CASE VerifyAsk(r)
  <2> DEFINE to(pc) == [req[r] EXCEPT !.pc = pc]
  <2>1. /\ to("read") \in Locals /\ LocalKnown(to("read"))
        /\ to("markFailed") \in Locals /\ LocalKnown(to("markFailed"))
    BY <1>3, <1>l DEF VerifyAsk, Locals, Pcs, LocalKnown
  <2>2. \/ Become(r, to("read")) \/ Become(r, to("markFailed"))
        \/ Become(r, Idle)
    BY <1>3 DEF VerifyAsk, Goto
  <2>3. RequestsKnown'
    BY <2>1, <2>2, IdleKnown, BecomeKnown
  <2>4. QED
    BY <1>3, <2>3 DEF VerifyAsk, OrdersTyped, EffectsTyped, GatewayTyped,
                      BoundsTyped, RowsKnown
<1>4. CASE VerifyMarkFailed(r)
  <2>1. RequestsKnown'
    BY <1>4, IdleKnown, BecomeKnown DEF VerifyMarkFailed
  <2>2. OrdersTyped' /\ RowsKnown'
    BY <1>4 DEF VerifyMarkFailed, OrdersTyped, Statuses, Settled, RowsKnown
  <2>3. QED
    BY <1>4, <2>1, <2>2 DEF VerifyMarkFailed, EffectsTyped, GatewayTyped,
                            BoundsTyped
<1>5. QED
  BY <1>1, <1>2, <1>3, <1>4

\* Answering a request ends it; the session a webhook acknowledges is one.
LEMMA AnswerTyped ==
  ASSUME NEW r \in Requests, RequestsKnown, Answer(r), acked \subseteq Sessions
  PROVE  RequestsKnown' /\ acked' \subseteq Sessions
<1>1. LocalKnown(req[r])
  BY DEF RequestsKnown
<1>2. QED
  BY <1>1, IdleKnown, BecomeKnown DEF Answer, LocalKnown

LEMMA SettleTyped ==
  ASSUME NEW r \in Requests, Typed,
         SettleRead(r) \/ SettleCommit(r) \/ SettleEnqueue(r)
           \/ SettleEnrol(r) \/ SettleAnnounce(r)
  PROVE  Typed'
<1> USE SettlementAssumption
<1> USE DEF Typed, At, orderVars, effectVars, gatewayVars, boundVars
<1> DEFINE o == req[r].order
           to(pc) == [req[r] EXCEPT !.pc = pc]
<1>l. req[r] \in Locals /\ LocalKnown(req[r])
  BY DEF RequestsKnown
<1>o. /\ o \in Orders
      /\ req[r].pc \notin {"idle", "price", "find", "write", "open", "saveRef"}
  BY <1>l DEF SettleRead, SettleCommit, SettleEnqueue, SettleEnrol,
              SettleAnnounce, LocalKnown
<1>t. /\ to("enrol") \in Locals /\ LocalKnown(to("enrol"))
      /\ to("announce") \in Locals /\ LocalKnown(to("announce"))
  BY <1>l, <1>o DEF Locals, Pcs, LocalKnown
<1>1. CASE SettleRead(r)
  <2>1. CASE Answer(r)
    BY <1>1, <2>1, AnswerTyped
       DEF SettleRead, OrdersTyped, EffectsTyped, GatewayTyped, BoundsTyped,
           RowsKnown
  <2> DEFINE l == [req[r] EXCEPT !.pc = "commit", !.terms = terms[o]]
  <2>2. CASE UNCHANGED acked /\ Become(r, l)
    <3>1. l \in Locals /\ LocalKnown(l)
      BY <1>l, <1>o DEF OrdersTyped, Locals, Pcs, LocalKnown
    <3>2. RequestsKnown'
      BY <2>2, <3>1, BecomeKnown
    <3>3. QED
      BY <1>1, <2>2, <3>2 DEF SettleRead, OrdersTyped, EffectsTyped,
                              GatewayTyped, BoundsTyped, RowsKnown
  <2>3. QED
    BY <1>1, <2>1, <2>2 DEF SettleRead
<1>2. CASE SettleCommit(r) /\ LoseRace(r)
  <2>1. RequestsKnown'
    BY <1>2, <1>t, BecomeKnown DEF LoseRace, Goto
  <2>2. QED
    BY <1>2, <2>1 DEF SettleCommit, LoseRace, OrdersTyped, EffectsTyped,
                      GatewayTyped, BoundsTyped, RowsKnown
<1>3. CASE SettleCommit(r) /\ CommitSale(r)
  <2> DEFINE frozen == req[r].terms
  <2>1. OrdersTyped'
    BY <1>3, <1>l DEF CommitSale, OrdersTyped, Statuses, Settled, Locals
  <2>2. CASE frozen \in DueTerms
    <3> DEFINE l == [req[r] EXCEPT !.pc = "enqueue", !.row = Len(payouts[o]) + 1]
    <3>1. payouts' = [payouts EXCEPT ![o] = Append(@, frozen)] /\ Become(r, l)
      BY <1>3, <2>2 DEF CommitSale
    <3>2. payouts[o] \in Seq(Terms) /\ frozen \in Terms
      BY <1>o, <2>2 DEF EffectsTyped
    <3>a. \A rows \in Seq(Terms) : /\ Append(rows, frozen) \in Seq(Terms)
                                  /\ Len(rows) \in Nat
      BY <3>2
    <3>3. payouts' \in [Orders -> Seq(Terms)]
      BY <1>o, <3>1, <3>2, <3>a DEF EffectsTyped
    <3>4. l \in Locals /\ LocalKnown(l)
      <4>1. PICK n \in Nat : n = Len(payouts[o]) + 1
        BY <3>2, <3>a
      <4>2. l = [req[r] EXCEPT !.pc = "enqueue", !.row = n]
        BY <4>1
      <4>3. QED
        BY <1>l, <1>o, <4>2 DEF Locals, Pcs, LocalKnown
    <3>5. RequestsKnown'
      BY <3>1, <3>4, BecomeKnown
    <3>6. QED
      BY <1>3, <2>1, <3>3, <3>5 DEF SettleCommit, EffectsTyped, GatewayTyped,
                                    BoundsTyped, RowsKnown
  <2>3. CASE frozen \notin DueTerms
    <3>1. UNCHANGED payouts /\ Become(r, to("enrol"))
      BY <1>3, <2>3 DEF CommitSale, Goto
    <3>2. RequestsKnown'
      BY <3>1, <1>t, BecomeKnown
    <3>3. QED
      BY <1>3, <2>1, <3>1, <3>2 DEF SettleCommit, EffectsTyped, GatewayTyped,
                                    BoundsTyped, RowsKnown
  <2>4. QED
    BY <2>2, <2>3
<1>4. CASE SettleEnqueue(r)
  <2>1. RequestsKnown'
    BY <1>4, <1>t, BecomeKnown DEF SettleEnqueue, Goto
  <2>2. EffectsTyped'
    BY <1>4, <1>l, <1>o DEF SettleEnqueue, EffectsTyped, Locals
  <2>3. QED
    BY <1>4, <2>1, <2>2 DEF SettleEnqueue, OrdersTyped, GatewayTyped,
                            BoundsTyped, RowsKnown
<1>5. CASE SettleEnrol(r)
  <2>1. RequestsKnown'
    BY <1>5, <1>t, BecomeKnown DEF SettleEnrol, Goto
  <2>2. QED
    BY <1>5, <2>1 DEF SettleEnrol, OrdersTyped, EffectsTyped, GatewayTyped,
                      BoundsTyped, RowsKnown
<1>6. CASE SettleAnnounce(r)
  <2>1. RequestsKnown' /\ acked' \subseteq Sessions
    BY <1>6, AnswerTyped DEF SettleAnnounce, GatewayTyped
  <2>2. EffectsTyped'
    BY <1>6, <1>o DEF SettleAnnounce, EffectsTyped
  <2>3. QED
    BY <1>6, <2>1, <2>2 DEF SettleAnnounce, OrdersTyped, GatewayTyped,
                            BoundsTyped, RowsKnown
<1>7. QED
  BY <1>1, <1>2, <1>3, <1>4, <1>5, <1>6 DEF SettleCommit

----------------------------------------------------------------------------
(* The environment                                                         *)

LEMMA EnvironmentTyped ==
  ASSUME Typed,
         \/ \E r \in Requests : Abort(r)
         \/ EditCatalog \/ Enroll
         \/ \E s \in Sessions : ChargeMove(s)
         \/ \E o \in Orders : IssueEarnBack(o)
  PROVE  Typed'
<1> USE SettlementAssumption
<1> USE DEF Typed, At, orderVars, effectVars, gatewayVars, boundVars
<1>1. ASSUME NEW r \in Requests, Abort(r) PROVE Typed'
  <2>1. RequestsKnown'
    BY <1>1, IdleKnown, BecomeKnown DEF Abort
  <2>2. QED
    BY <1>1, <2>1 DEF Abort, OrdersTyped, EffectsTyped, GatewayTyped,
                      BoundsTyped, RowsKnown
<1>2. CASE EditCatalog
  BY <1>2 DEF EditCatalog, OrdersTyped, EffectsTyped, GatewayTyped,
              BoundsTyped, RowsKnown, RequestsKnown
<1>3. CASE Enroll
  BY <1>3 DEF Enroll, OrdersTyped, EffectsTyped, GatewayTyped, BoundsTyped,
              RowsKnown, RequestsKnown
<1>4. ASSUME NEW s \in Sessions, ChargeMove(s) PROVE Typed'
  <2>1. GatewayTyped' /\ RowsKnown'
    BY <1>4 DEF ChargeMove, ChargeMoves, GatewayTyped, ChargeStates, RowsKnown
  <2>2. QED
    BY <1>4, <2>1 DEF ChargeMove, OrdersTyped, EffectsTyped, BoundsTyped,
                      RequestsKnown
<1>5. ASSUME NEW o \in Orders, IssueEarnBack(o) PROVE Typed'
  BY <1>5 DEF IssueEarnBack, OrdersTyped, Statuses, Settled, EffectsTyped,
              GatewayTyped, BoundsTyped, RowsKnown, RequestsKnown
<1>6. QED
  BY <1>1, <1>2, <1>3, <1>4, <1>5

LEMMA StepTyped == Typed /\ [Next]_vars => Typed'
<1> SUFFICES ASSUME Typed, [Next]_vars PROVE Typed'
  OBVIOUS
<1>1. CASE UNCHANGED vars
  BY <1>1 DEF vars, orderVars, effectVars, gatewayVars, boundVars, Typed,
              OrdersTyped, EffectsTyped, GatewayTyped, BoundsTyped, RowsKnown,
              RequestsKnown
<1>2. CASE Next
  BY <1>2, CheckoutTyped, CallbackTyped, SettleTyped, EnvironmentTyped
     DEF Next, Advance, Begin
<1>3. QED
  BY <1>1, <1>2

LEMMA TypedAlways == Spec => []Typed
BY InitTyped, StepTyped, PTL DEF Spec

(***************************************************************************)
(* TypeOK, the type invariant the runs of Settlement check, holds of every *)
(* reachable state for every value of the constants.                       *)
(***************************************************************************)
THEOREM TypeCorrect == Spec => []TypeOK
<1>1. Typed => TypeOK
  BY DEF Typed, TypeOK, RequestsKnown
<1>2. QED
  BY <1>1, TypedAlways, PTL

----------------------------------------------------------------------------
(* One payout for each time a sale is settled.                             *)

\* The steps that write a status, a payout row or the record of re-openings,
\* and what each does to them.
LEMMA OrderEffects ==
  ASSUME Typed, [Next]_vars
  PROVE  \/ UNCHANGED <<status, payouts, reopened>>
         \/ \E r \in Requests, o \in Orders :
              /\ CheckoutWrite(r) /\ UNCHANGED payouts
              /\ IF req[r].order = None THEN status[o] = "absent"
                                        ELSE o = req[r].order
              /\ status' = [status EXCEPT ![o] = "pending"]
              /\ reopened' = [reopened EXCEPT ![o] =
                                IF status[o] \in Settled THEN reopened[o] + 1
                                                         ELSE reopened[o]]
         \/ \E r \in Requests, o \in Orders :
              /\ VerifyMarkFailed(r) /\ UNCHANGED <<payouts, reopened>>
              /\ status[o] = "pending"
              /\ status' = [status EXCEPT ![o] = "failed"]
         \/ \E r \in Requests, o \in Orders :
              /\ SettleCommit(r) /\ UNCHANGED reopened
              /\ status[o] = "pending"
              /\ status' = [status EXCEPT ![o] = "paid"]
              /\ \/ UNCHANGED payouts
                 \/ \E t \in Terms :
                      payouts' = [payouts EXCEPT ![o] = Append(payouts[o], t)]
         \/ \E o \in Orders :
              /\ status[o] = "paid" /\ UNCHANGED <<payouts, reopened, req>>
              /\ status' = [status EXCEPT ![o] = "earn_back_issued"]
<1> USE DEF orderVars, effectVars, gatewayVars, boundVars
<1>t. RequestsKnown /\ OrdersTyped /\ EffectsTyped
  BY DEF Typed
<1>1. ASSUME NEW r \in Requests, CheckoutWrite(r)
      PROVE  \E o \in Orders :
               /\ CheckoutWrite(r) /\ UNCHANGED payouts
               /\ IF req[r].order = None THEN status[o] = "absent"
                                         ELSE o = req[r].order
               /\ status' = [status EXCEPT ![o] = "pending"]
               /\ reopened' = [reopened EXCEPT ![o] =
                                 IF status[o] \in Settled THEN reopened[o] + 1
                                                          ELSE reopened[o]]
  BY <1>1 DEF CheckoutWrite
<1>2. ASSUME NEW r \in Requests, VerifyMarkFailed(r)
      PROVE  \/ UNCHANGED <<status, payouts, reopened>>
             \/ \E o \in Orders :
                  /\ VerifyMarkFailed(r) /\ UNCHANGED <<payouts, reopened>>
                  /\ status[o] = "pending"
                  /\ status' = [status EXCEPT ![o] = "failed"]
  <2> DEFINE o == req[r].order
  <2>1. o \in Orders
    BY <1>t, <1>2 DEF VerifyMarkFailed, At, RequestsKnown, LocalKnown
  <2>2. CASE status[o] = "pending"
    BY <1>2, <2>1, <2>2 DEF VerifyMarkFailed
  <2>3. CASE status[o] # "pending"
    BY <1>t, <1>2, <2>1, <2>3 DEF VerifyMarkFailed, OrdersTyped
  <2>4. QED
    BY <2>2, <2>3
<1>3. ASSUME NEW r \in Requests, SettleCommit(r)
      PROVE  \/ UNCHANGED <<status, payouts, reopened>>
             \/ \E o \in Orders :
                  /\ SettleCommit(r) /\ UNCHANGED reopened
                  /\ status[o] = "pending"
                  /\ status' = [status EXCEPT ![o] = "paid"]
                  /\ \/ UNCHANGED payouts
                     \/ \E t \in Terms :
                          payouts' = [payouts EXCEPT ![o] = Append(payouts[o], t)]
  <2> DEFINE o == req[r].order
             frozen == req[r].terms
  <2>1. o \in Orders
    BY <1>t, <1>3 DEF SettleCommit, At, RequestsKnown, LocalKnown
  <2>2. CASE LoseRace(r)
    BY <1>3, <2>2 DEF LoseRace, SettleCommit
  <2>3. CASE CommitSale(r)
    <3>1. /\ status[o] = "pending" /\ status' = [status EXCEPT ![o] = "paid"]
          /\ UNCHANGED reopened
      BY <1>3, <2>3 DEF CommitSale, SettleCommit
    <3>2. CASE frozen \in DueTerms
      <4>1. frozen \in Terms
        BY <3>2, SettlementAssumption
      <4>2. payouts' = [payouts EXCEPT ![o] = Append(payouts[o], frozen)]
        BY <2>3, <3>2 DEF CommitSale
      <4>3. QED
        BY <1>3, <2>1, <3>1, <4>1, <4>2
    <3>3. CASE frozen \notin DueTerms
      BY <1>3, <2>1, <2>3, <3>1, <3>3 DEF CommitSale
    <3>4. QED
      BY <3>2, <3>3
  <2>4. QED
    BY <1>3, <2>2, <2>3 DEF SettleCommit
<1>4. ASSUME NEW r \in Requests,
             \/ CheckoutStart(r) \/ CheckoutPrice(r) \/ CheckoutFind(r)
             \/ CheckoutOpen(r) \/ CheckoutSaveRef(r) \/ VerifyAsk(r)
             \/ SettleRead(r) \/ SettleEnqueue(r) \/ SettleEnrol(r)
             \/ SettleAnnounce(r) \/ Abort(r)
             \/ \E s \in Sessions : WebhookStart(r, s)
             \/ \E o \in Orders : VerifyStart(r, o)
      PROVE  UNCHANGED <<status, payouts, reopened>>
  BY <1>4 DEF CheckoutStart, CheckoutPrice, CheckoutFind, CheckoutOpen,
              CheckoutSaveRef, VerifyAsk, SettleRead, SettleEnqueue,
              SettleEnrol, SettleAnnounce, Abort, WebhookStart, VerifyStart
<1>5. CASE EditCatalog \/ Enroll \/ UNCHANGED vars
           \/ \E s \in Sessions : ChargeMove(s)
  BY <1>5 DEF EditCatalog, Enroll, ChargeMove, vars
<1>6. ASSUME NEW o \in Orders, IssueEarnBack(o)
      PROVE  /\ status[o] = "paid" /\ UNCHANGED <<payouts, reopened, req>>
             /\ status' = [status EXCEPT ![o] = "earn_back_issued"]
  BY <1>6 DEF IssueEarnBack
<1>7. QED
  BY <1>1, <1>2, <1>3, <1>4, <1>5, <1>6 DEF Next, Advance, Begin

SaleInv == Typed /\ SalePayoutOnce

\* Appending one row to an order's payouts makes them one more.
LEMMA OneMoreRow ==
  ASSUME EffectsTyped, NEW o \in Orders, NEW t \in Terms,
         payouts' = [payouts EXCEPT ![o] = Append(payouts[o], t)]
  PROVE  /\ Len(payouts'[o]) = Len(payouts[o]) + 1
         /\ DOMAIN payouts'[o] = DOMAIN payouts[o] \cup {Len(payouts[o]) + 1}
         /\ \A p \in Orders \ {o} : payouts'[p] = payouts[p]
<1>1. payouts[o] \in Seq(Terms) /\ payouts'[o] = Append(payouts[o], t)
  BY DEF EffectsTyped
<1>2. Len(Append(payouts[o], t)) = Len(payouts[o]) + 1
  BY <1>1
<1>3. DOMAIN Append(payouts[o], t) = DOMAIN payouts[o] \cup {Len(payouts[o]) + 1}
  <2>1. /\ DOMAIN Append(payouts[o], t) = 1..(Len(payouts[o]) + 1)
        /\ DOMAIN payouts[o] = 1..Len(payouts[o])
        /\ Len(payouts[o]) \in Nat
    BY <1>1
  <2>2. QED
    BY <2>1
<1>4. QED
  BY <1>1, <1>2, <1>3 DEF EffectsTyped

LEMMA StepSale == SaleInv /\ [Next]_vars => SaleInv'
<1> SUFFICES ASSUME SaleInv, [Next]_vars PROVE SaleInv'
  OBVIOUS
<1>1. Typed /\ Typed' /\ SalePayoutOnce
  BY StepTyped DEF SaleInv
<1>n. \A o \in Orders : Len(payouts[o]) \in Nat /\ reopened[o] \in Nat
  BY <1>1 DEF Typed, EffectsTyped, BoundsTyped
<1>2. SalePayoutOnce'
  <2> USE DEF SalePayoutOnce, Settled
  <2>1. CASE UNCHANGED <<status, payouts, reopened>>
    BY <1>1, <2>1
  <2>2. ASSUME NEW o \in Orders, UNCHANGED payouts,
               status' = [status EXCEPT ![o] = "pending"],
               reopened' = [reopened EXCEPT ![o] =
                              IF status[o] \in Settled THEN reopened[o] + 1
                                                       ELSE reopened[o]]
        PROVE  SalePayoutOnce'
    BY <1>1, <1>n, <2>2 DEF Typed, OrdersTyped, BoundsTyped
  <2>3. ASSUME NEW o \in Orders, NEW x, UNCHANGED <<payouts, reopened>>,
               status' = [status EXCEPT ![o] = x],
               status[o] \in Settled => x \in Settled
        PROVE  SalePayoutOnce'
    BY <1>1, <1>n, <2>3 DEF Typed, OrdersTyped
  <2>4. ASSUME NEW o \in Orders, NEW t \in Terms, UNCHANGED reopened,
               status[o] = "pending",
               status' = [status EXCEPT ![o] = "paid"],
               payouts' = [payouts EXCEPT ![o] = Append(payouts[o], t)]
        PROVE  SalePayoutOnce'
    <3>1. /\ Len(payouts'[o]) = Len(payouts[o]) + 1
          /\ \A p \in Orders \ {o} : payouts'[p] = payouts[p]
      BY <1>1, <2>4, OneMoreRow DEF Typed
    <3>2. status'[o] = "paid" /\ \A p \in Orders \ {o} : status'[p] = status[p]
      BY <1>1, <2>4 DEF Typed, OrdersTyped
    <3>3. QED
      BY <1>1, <1>n, <2>4, <3>1, <3>2
  <2>5. QED
    BY <1>1, <2>1, <2>2, <2>3, <2>4, OrderEffects
<1>3. QED
  BY <1>1, <1>2 DEF SaleInv

(***************************************************************************)
(* However webhooks are replayed, callbacks verified and checkouts         *)
(* repeated, and wherever they interrupt one another, a sale owes the      *)
(* instructor one payout for each time it was settled, and it was settled  *)
(* again only after a stale checkout had written it back to pending.       *)
(***************************************************************************)
THEOREM OnePayoutPerSale == Spec => []SalePayoutOnce
<1>1. Init => SaleInv
  BY InitTyped DEF Init, SaleInv, SalePayoutOnce, Settled
<1>2. SaleInv => SalePayoutOnce
  BY DEF SaleInv
<1>3. QED
  BY <1>1, <1>2, StepSale, PTL DEF Spec

----------------------------------------------------------------------------
(* The payout jobs a crash can lose.                                       *)

\* A request's step touches what no other request carries to the queue.
LEMMA CarriedKept ==
  ASSUME RequestsKnown, NEW r \in Requests, NEW l, Become(r, l)
  PROVE  Carried \subseteq Carried' \cup
           (IF At(r, "enqueue") THEN {<<req[r].order, req[r].row>>} ELSE {})
<1>1. \A q \in Requests \ {r} : req'[q] = req[q]
  BY DEF RequestsKnown, Become
<1>2. QED
  BY <1>1 DEF Carried, At

\* No step but a request cut short lets a payout row slip ...
LEMMA JobsKept ==
  ASSUME Typed, [Next]_vars, \A r \in Requests : ~Abort(r)
  PROVE  LostJobs' \subseteq LostJobs /\ UNCHANGED aborts
<1> USE DEF orderVars, effectVars, gatewayVars, boundVars
<1>t. RequestsKnown /\ EffectsTyped
  BY DEF Typed
<1>0. ASSUME UNCHANGED payouts, queued \subseteq queued',
             Carried \subseteq Carried' \cup queued'
      PROVE  LostJobs' \subseteq LostJobs
  <2>1. PayoutRows' = PayoutRows
    BY <1>0 DEF PayoutRows
  <2>2. QED
    BY <1>0, <2>1 DEF LostJobs
<1>1. ASSUME NEW r \in Requests, NEW l, Become(r, l), ~At(r, "enqueue"),
             UNCHANGED <<payouts, queued>>
      PROVE  LostJobs' \subseteq LostJobs
  <2>1. Carried \subseteq Carried'
    BY <1>t, <1>1, CarriedKept
  <2>2. QED
    BY <1>0, <1>1, <2>1
<1>2. ASSUME NEW r \in Requests, SettleEnqueue(r)
      PROVE  LostJobs' \subseteq LostJobs
  <2>1. Become(r, [req[r] EXCEPT !.pc = "enrol"])
        /\ queued' = queued \cup {<<req[r].order, req[r].row>>}
    BY <1>2 DEF SettleEnqueue, Goto
  <2>2. Carried \subseteq Carried' \cup {<<req[r].order, req[r].row>>}
    BY <1>t, <2>1, CarriedKept
  <2>3. UNCHANGED payouts
    BY <1>2 DEF SettleEnqueue
  <2>4. QED
    BY <1>0, <2>1, <2>2, <2>3
<1>3. ASSUME NEW r \in Requests, SettleCommit(r)
      PROVE  LostJobs' \subseteq LostJobs
  <2> DEFINE o == req[r].order
  <2>0. o \in Orders /\ ~At(r, "enqueue") /\ UNCHANGED queued
        /\ req[r] \in Locals
    BY <1>t, <1>3 DEF SettleCommit, At, RequestsKnown, LocalKnown
  <2>1. CASE UNCHANGED payouts /\ Goto(r, "enrol")
    BY <1>1, <2>0, <2>1 DEF Goto
  <2>2. CASE /\ req[r].terms \in Terms
             /\ payouts' = [payouts EXCEPT ![o] = Append(payouts[o], req[r].terms)]
             /\ Become(r, [req[r] EXCEPT !.pc = "enqueue",
                                         !.row = Len(payouts[o]) + 1])
    <3> DEFINE n == Len(payouts[o]) + 1
    <3>1. /\ DOMAIN payouts'[o] = DOMAIN payouts[o] \cup {n}
          /\ \A p \in Orders \ {o} : payouts'[p] = payouts[p]
      BY <1>t, <2>0, <2>2, OneMoreRow
    <3>2. PayoutRows' \subseteq PayoutRows \cup {<<o, n>>}
      BY <3>1 DEF PayoutRows
    <3>3. <<o, n>> \in Carried'
      <4>1. req'[r] = [req[r] EXCEPT !.pc = "enqueue", !.row = n]
        BY <1>t, <2>2 DEF RequestsKnown, Become
      <4>2. req'[r].pc = "enqueue" /\ req'[r].order = o /\ req'[r].row = n
        BY <2>0, <4>1 DEF Locals
      <4>3. QED
        BY <4>2 DEF Carried, At
    <3>4. Carried \subseteq Carried'
      BY <1>t, <2>0, <2>2, CarriedKept
    <3>5. QED
      BY <2>0, <3>2, <3>3, <3>4 DEF LostJobs
  <2>3. QED
    BY <1>3, <2>1, <2>2, SettlementAssumption
       DEF SettleCommit, CommitSale, LoseRace
<1>4. ASSUME NEW r \in Requests,
             \/ CheckoutStart(r) \/ CheckoutPrice(r) \/ CheckoutFind(r)
             \/ CheckoutWrite(r) \/ CheckoutOpen(r) \/ CheckoutSaveRef(r)
             \/ VerifyAsk(r) \/ VerifyMarkFailed(r)
             \/ SettleRead(r) \/ SettleEnrol(r) \/ SettleAnnounce(r)
             \/ \E s \in Sessions : WebhookStart(r, s)
             \/ \E o \in Orders : VerifyStart(r, o)
      PROVE  LostJobs' \subseteq LostJobs
  <2>1. UNCHANGED <<payouts, queued>> /\ ~At(r, "enqueue")
    BY <1>4 DEF CheckoutStart, CheckoutPrice, CheckoutFind, CheckoutWrite,
                CheckoutOpen, CheckoutSaveRef, VerifyAsk, VerifyMarkFailed,
                SettleRead, SettleEnrol, SettleAnnounce, WebhookStart,
                VerifyStart, At
  <2>2. \E l : Become(r, l)
    BY <1>4 DEF CheckoutStart, CheckoutPrice, CheckoutFind, CheckoutWrite,
                CheckoutOpen, CheckoutSaveRef, VerifyAsk, VerifyMarkFailed,
                SettleRead, SettleEnrol, SettleAnnounce, WebhookStart,
                VerifyStart, Goto, Answer
  <2>3. QED
    BY <1>1, <2>1, <2>2
<1>5. ASSUME UNCHANGED <<payouts, queued, req>>
      PROVE  LostJobs' \subseteq LostJobs
  <2>1. Carried' = Carried
    BY <1>5 DEF Carried, At
  <2>2. QED
    BY <1>0, <1>5, <2>1
<1>6. CASE \/ EditCatalog \/ Enroll \/ UNCHANGED vars
           \/ \E s \in Sessions : ChargeMove(s)
           \/ \E o \in Orders : IssueEarnBack(o)
  BY <1>5, <1>6 DEF EditCatalog, Enroll, vars, ChargeMove, IssueEarnBack
<1>7. UNCHANGED aborts
  BY DEF Next, Advance, Begin, CheckoutStart, CheckoutPrice, CheckoutFind,
         CheckoutWrite, CheckoutOpen, CheckoutSaveRef, VerifyAsk,
         VerifyMarkFailed, SettleRead, SettleCommit, SettleEnqueue,
         SettleEnrol, SettleAnnounce, WebhookStart, VerifyStart, EditCatalog,
         Enroll, vars, ChargeMove, IssueEarnBack
<1>8. QED
  BY <1>2, <1>3, <1>4, <1>6, <1>7 DEF Next, Advance, Begin

\* ... and that loses the row it was carrying, if any.
LEMMA AbortLosesOne ==
  ASSUME Typed, NEW r \in Requests, Abort(r)
  PROVE  /\ LostJobs' \subseteq LostJobs \cup {<<req[r].order, req[r].row>>}
         /\ aborts' = aborts + 1
<1>1. Carried \subseteq Carried' \cup {<<req[r].order, req[r].row>>}
  BY CarriedKept DEF Abort, Typed
<1>2. UNCHANGED <<payouts, queued>> /\ aborts' = aborts + 1
  BY DEF Abort, effectVars
<1>3. QED
  BY <1>1, <1>2 DEF LostJobs, PayoutRows

JobsInv == Typed /\ IsFiniteSet(LostJobs) /\ OneJobLostPerAbort

LEMMA StepJobs == JobsInv /\ [Next]_vars => JobsInv'
<1> SUFFICES ASSUME JobsInv, [Next]_vars PROVE JobsInv'
  OBVIOUS
<1>1. Typed /\ Typed' /\ IsFiniteSet(LostJobs) /\ aborts \in Nat
  BY StepTyped, SettlementAssumption DEF JobsInv, Typed, BoundsTyped
<1>2. Cardinality(LostJobs) \in Nat /\ Cardinality(LostJobs) <= aborts
  BY <1>1, FS_CardinalityType DEF JobsInv, OneJobLostPerAbort
<1>3. CASE LostJobs' \subseteq LostJobs /\ UNCHANGED aborts
  <2>1. IsFiniteSet(LostJobs') /\ Cardinality(LostJobs') <= Cardinality(LostJobs)
    BY <1>1, <1>3, FS_Subset
  <2>2. Cardinality(LostJobs') \in Nat
    BY <2>1, FS_CardinalityType
  <2>3. QED
    BY <1>1, <1>2, <1>3, <2>1, <2>2 DEF JobsInv, OneJobLostPerAbort
<1>4. ASSUME NEW r \in Requests, Abort(r) PROVE JobsInv'
  <2> DEFINE x == <<req[r].order, req[r].row>>
  <2>1. LostJobs' \subseteq LostJobs \cup {x} /\ aborts' = aborts + 1
    BY <1>1, <1>4, AbortLosesOne
  <2>2. /\ IsFiniteSet(LostJobs \cup {x})
        /\ Cardinality(LostJobs \cup {x}) <= Cardinality(LostJobs) + 1
    <3>1. /\ IsFiniteSet(LostJobs \cup {x})
          /\ Cardinality(LostJobs \cup {x}) =
               IF x \in LostJobs THEN Cardinality(LostJobs)
                                 ELSE Cardinality(LostJobs) + 1
      BY <1>1, FS_AddElement
    <3>2. QED
      BY <1>2, <3>1
  <2>3. /\ IsFiniteSet(LostJobs')
        /\ Cardinality(LostJobs') <= Cardinality(LostJobs \cup {x})
    BY <2>1, <2>2, FS_Subset
  <2>4. /\ Cardinality(LostJobs') \in Nat
        /\ Cardinality(LostJobs \cup {x}) \in Nat
    BY <2>2, <2>3, FS_CardinalityType
  <2>5. QED
    BY <1>1, <1>2, <2>1, <2>2, <2>3, <2>4 DEF JobsInv, OneJobLostPerAbort
<1>5. QED
  BY <1>1, <1>3, <1>4, JobsKept

(***************************************************************************)
(* Between the transaction that writes a payout row and the enqueueing of  *)
(* its job a request may be cut short: so many rows are left without a     *)
(* job as requests were cut short, at most, and no race loses one.         *)
(***************************************************************************)
THEOREM JobsLostByAbortsOnly == Spec => []OneJobLostPerAbort
<1>1. Init => JobsInv
  <2> SUFFICES ASSUME Init PROVE JobsInv
    OBVIOUS
  <2>1. LostJobs = {}
    BY DEF Init, LostJobs, PayoutRows
  <2>2. IsFiniteSet(LostJobs) /\ Cardinality(LostJobs) = 0
    BY <2>1, FS_EmptySet
  <2>3. QED
    BY <2>2, InitTyped DEF JobsInv, OneJobLostPerAbort, Init
<1>2. JobsInv => OneJobLostPerAbort
  BY DEF JobsInv
<1>3. QED
  BY <1>1, <1>2, StepJobs, PTL DEF Spec

----------------------------------------------------------------------------
(* Nothing is handed out without money, whatever races.                    *)

\* In the gateway's record c a charge of order o succeeded.
Succeeded(o, c) == \E s \in Sessions : c[s].order = o /\ c[s].state = "success"

\* What a request with locals l knows of the gateway's record c: the session
\* it opened or was told to look up is one of its order's, and past the
\* verdict a charge of the order succeeded.
Backed(l, c) ==
  /\ l.pc \in {"saveRef", "ask"} /\ l.session # None
       => c[l.session].order = l.order
  /\ l.pc \in {"read", "commit", "enqueue", "enrol", "announce"}
       => Succeeded(l.order, c)

GatewayBacked ==
  /\ \A s \in Sessions : charge[s].state = "unused" => charge[s].order = None
  /\ \A o \in Orders : ref[o] # None => charge[ref[o]].order = o

MoneyBacked ==
  /\ enrolledBy = "payment" => \E o \in Orders : Succeeded(o, charge)
  /\ \A o \in Orders : payouts[o] # <<>> => Succeeded(o, charge)

ChargeInv == /\ Typed
             /\ GatewayBacked
             /\ \A r \in Requests : Backed(req[r], charge)
             /\ MoneyBacked

LEMMA MoneyBackedIsCharged == MoneyBacked => NothingWithoutCharge
BY DEF MoneyBacked, NothingWithoutCharge, Succeeded, Charged

\* The gateway never forgets whose session it opened, nor a success.
ChargesKept ==
  \A s \in Sessions :
    /\ charge[s].order # None => charge'[s].order = charge[s].order
    /\ charge[s].state = "success" => charge'[s].state = "success"

LEMMA SucceededKept ==
  ASSUME ChargesKept, NEW o \in Orders, Succeeded(o, charge)
  PROVE  Succeeded(o, charge')
BY SettlementAssumption DEF Succeeded, ChargesKept

LEMMA BackedKept ==
  ASSUME ChargesKept, NEW l \in Locals, LocalKnown(l), Backed(l, charge)
  PROVE  Backed(l, charge')
<1>1. ASSUME l.pc \in {"saveRef", "ask"}, l.session # None
      PROVE  charge'[l.session].order = l.order
  <2>1. l.session \in Sessions /\ l.order \in Orders
    BY <1>1 DEF Locals, LocalKnown
  <2>2. charge[l.session].order = l.order /\ l.order # None
    BY <1>1, <2>1, SettlementAssumption DEF Backed
  <2>3. QED
    BY <2>1, <2>2 DEF ChargesKept
<1>2. ASSUME l.pc \in {"read", "commit", "enqueue", "enrol", "announce"}
      PROVE  Succeeded(l.order, charge')
  <2>1. l.order \in Orders /\ Succeeded(l.order, charge)
    BY <1>2 DEF LocalKnown, Backed
  <2>2. QED
    BY <2>1, SucceededKept
<1>3. QED
  BY <1>1, <1>2 DEF Backed

\* A step of request r owes an argument only for r's new locals ...
LEMMA BecomeBacked ==
  ASSUME ChargeInv, ChargesKept, NEW r \in Requests, NEW l, Become(r, l),
         Backed(l, charge')
  PROVE  \A q \in Requests : Backed(req'[q], charge')
<1>1. \A q \in Requests : req'[q] = IF q = r THEN l ELSE req[q]
  BY DEF ChargeInv, Typed, RequestsKnown, Become
<1>2. \A q \in Requests : Backed(req[q], charge')
  BY BackedKept DEF ChargeInv, Typed, RequestsKnown
<1>3. QED
  BY <1>1, <1>2

\* ... and what was handed out before stays backed.
LEMMA MoneyKept ==
  ASSUME MoneyBacked, ChargesKept, UNCHANGED <<enrolledBy, payouts>>
  PROVE  MoneyBacked'
BY SucceededKept DEF MoneyBacked

LEMMA InitCharge == Init => ChargeInv
<1> SUFFICES ASSUME Init PROVE ChargeInv
  OBVIOUS
<1>1. Typed
  BY InitTyped
<1>2. GatewayBacked /\ MoneyBacked
  BY DEF Init, GatewayBacked, MoneyBacked
<1>3. \A r \in Requests : Backed(req[r], charge)
  BY DEF Init, Idle, Backed
<1>4. QED
  BY <1>1, <1>2, <1>3 DEF ChargeInv

LEMMA CheckoutCharge ==
  ASSUME ChargeInv, NEW r \in Requests,
         CheckoutStart(r) \/ CheckoutPrice(r) \/ CheckoutFind(r)
           \/ CheckoutWrite(r) \/ CheckoutOpen(r) \/ CheckoutSaveRef(r)
  PROVE  /\ GatewayBacked' /\ MoneyBacked'
         /\ \A q \in Requests : Backed(req'[q], charge')
<1> USE DEF At, orderVars, effectVars, gatewayVars, boundVars
<1>t. Typed /\ GatewayBacked /\ MoneyBacked
  BY DEF ChargeInv
<1>l. req[r] \in Locals /\ LocalKnown(req[r]) /\ Backed(req[r], charge)
  BY DEF ChargeInv, Typed, RequestsKnown
<1>m. UNCHANGED <<enrolledBy, payouts>>
  BY DEF CheckoutStart, CheckoutPrice, CheckoutFind, CheckoutWrite,
         CheckoutOpen, CheckoutSaveRef
<1>1. CASE CheckoutStart(r) \/ CheckoutPrice(r) \/ CheckoutFind(r)
           \/ CheckoutWrite(r)
  <2>1. UNCHANGED <<charge, ref>>
    BY <1>1 DEF CheckoutStart, CheckoutPrice, CheckoutFind, CheckoutWrite
  <2>2. ChargesKept
    BY <2>1 DEF ChargesKept
  <2>3. \E l : Become(r, l) /\ l.pc \in {"idle", "price", "find", "write", "open"}
    <3>0. CASE CheckoutPrice(r)
      <4>1. Idle.pc = "idle"
        BY DEF Idle
      <4>2. [req[r] EXCEPT !.pc = "find", !.terms = catalog].pc = "find"
        BY <1>l DEF Locals
      <4>3. \/ Become(r, Idle)
            \/ Become(r, [req[r] EXCEPT !.pc = "find", !.terms = catalog])
        BY <3>0 DEF CheckoutPrice
      <4>4. QED
        BY <4>1, <4>2, <4>3
    <3>1. [Idle EXCEPT !.pc = "price", !.kind = "checkout"].pc = "price"
      BY DEF Idle
    <3>2. \A pc, p : [req[r] EXCEPT !.pc = pc, !.order = p].pc = pc
      BY <1>l DEF Locals
    <3>3. CASE CheckoutStart(r)
      <4>1. Become(r, [Idle EXCEPT !.pc = "price", !.kind = "checkout"])
        BY <3>3 DEF CheckoutStart
      <4>2. QED
        BY <3>1, <4>1
    <3>4. CASE CheckoutFind(r)
      <4>1. PICK p : Become(r, [req[r] EXCEPT !.pc = "write", !.order = p])
        BY <3>4 DEF CheckoutFind
      <4>2. [req[r] EXCEPT !.pc = "write", !.order = p].pc = "write"
        BY <3>2
      <4>3. QED
        BY <4>1, <4>2
    <3>5. CASE CheckoutWrite(r)
      <4>1. PICK p : Become(r, [req[r] EXCEPT !.pc = "open", !.order = p])
        BY <3>5 DEF CheckoutWrite
      <4>2. [req[r] EXCEPT !.pc = "open", !.order = p].pc = "open"
        BY <3>2
      <4>3. QED
        BY <4>1, <4>2
    <3>6. QED
      BY <1>1, <3>0, <3>3, <3>4, <3>5
  <2>4. \A q \in Requests : Backed(req'[q], charge')
    BY <2>2, <2>3, BecomeBacked DEF Backed
  <2>5. QED
    BY <1>t, <1>m, <2>1, <2>2, <2>4, MoneyKept DEF GatewayBacked
<1>2. CASE CheckoutOpen(r)
  <2>1. CASE Become(r, Idle) /\ UNCHANGED charge
    <3>1. ChargesKept /\ UNCHANGED ref
      BY <1>2, <2>1 DEF CheckoutOpen, ChargesKept
    <3>2. Backed(Idle, charge')
      BY DEF Idle, Backed
    <3>3. QED
      BY <1>t, <1>m, <2>1, <3>1, <3>2, BecomeBacked, MoneyKept
         DEF GatewayBacked
  <2>2. ASSUME NEW s \in Sessions,
               charge[s].state = "unused",
               charge' = [charge EXCEPT ![s] = [order |-> req[r].order,
                                                terms |-> req[r].terms,
                                                state |-> "open"]],
               Become(r, [req[r] EXCEPT !.pc = "saveRef", !.session = s])
        PROVE  /\ GatewayBacked' /\ MoneyBacked'
               /\ \A q \in Requests : Backed(req'[q], charge')
    <3> DEFINE l == [req[r] EXCEPT !.pc = "saveRef", !.session = s]
    <3>1. charge[s].order = None
      BY <1>t, <2>2 DEF GatewayBacked
    <3>2. /\ charge'[s].order = req[r].order /\ charge'[s].state = "open"
          /\ \A p \in Sessions \ {s} : charge'[p] = charge[p]
      BY <1>t, <2>2 DEF Typed, GatewayTyped
    <3>3. ChargesKept
      BY <2>2, <3>1, <3>2 DEF ChargesKept
    <3>4. l.pc = "saveRef" /\ l.session = s /\ l.order = req[r].order
      BY <1>l DEF Locals
    <3>5. Backed(l, charge')
      BY <3>2, <3>4 DEF Backed
    <3>6. GatewayBacked'
      <4>1. UNCHANGED ref
        BY <1>2 DEF CheckoutOpen
      <4>2. ASSUME NEW o \in Orders, ref[o] # None
            PROVE  charge'[ref[o]].order = o
        <5>1. ref[o] \in Sessions /\ charge[ref[o]].order = o /\ o # None
          BY <1>t, <4>2, SettlementAssumption
             DEF GatewayBacked, Typed, OrdersTyped
        <5>2. QED
          BY <3>3, <5>1 DEF ChargesKept
      <4>3. QED
        BY <1>t, <3>2, <4>1, <4>2 DEF GatewayBacked
    <3>7. QED
      BY <1>t, <1>m, <2>2, <3>3, <3>5, <3>6, BecomeBacked, MoneyKept
  <2>3. QED
    BY <1>2, <2>1, <2>2 DEF CheckoutOpen
<1>3. CASE CheckoutSaveRef(r)
  <2>1. UNCHANGED charge /\ Become(r, Idle)
        /\ ref' = [ref EXCEPT ![req[r].order] = req[r].session]
    BY <1>3 DEF CheckoutSaveRef
  <2>2. ChargesKept /\ Backed(Idle, charge')
    BY <2>1 DEF ChargesKept, Idle, Backed
  <2>3. charge[req[r].session].order = req[r].order
    BY <1>3, <1>l, SettlementAssumption DEF CheckoutSaveRef, LocalKnown, Backed
  <2>4. GatewayBacked'
    BY <1>t, <2>1, <2>3 DEF GatewayBacked, Typed, OrdersTyped
  <2>5. QED
    BY <1>t, <1>m, <2>1, <2>2, <2>4, BecomeBacked, MoneyKept
<1>4. QED
  BY <1>1, <1>2, <1>3

LEMMA CallbackCharge ==
  ASSUME ChargeInv, NEW r \in Requests,
         \/ \E s \in Sessions : WebhookStart(r, s)
         \/ \E o \in Orders : VerifyStart(r, o)
         \/ VerifyAsk(r) \/ VerifyMarkFailed(r) \/ Abort(r)
  PROVE  /\ GatewayBacked' /\ MoneyBacked'
         /\ \A q \in Requests : Backed(req'[q], charge')
<1> USE DEF At, orderVars, effectVars, gatewayVars, boundVars
<1>t. Typed /\ GatewayBacked /\ MoneyBacked
  BY DEF ChargeInv
<1>l. req[r] \in Locals /\ LocalKnown(req[r]) /\ Backed(req[r], charge)
  BY DEF ChargeInv, Typed, RequestsKnown
<1>m. UNCHANGED <<enrolledBy, payouts, charge, ref>>
  BY DEF WebhookStart, VerifyStart, VerifyAsk, VerifyMarkFailed, Abort
<1>i. Backed(Idle, charge)
  BY DEF Idle, Backed
<1>1. \E l : Become(r, l) /\ Backed(l, charge)
  <2>1. ASSUME NEW s \in Sessions, WebhookStart(r, s)
        PROVE  \E l : Become(r, l) /\ Backed(l, charge)
    <3> DEFINE l == [Idle EXCEPT !.pc = "read", !.kind = "webhook",
                                 !.order = charge[s].order, !.session = s]
    <3>1. l.pc = "read" /\ l.order = charge[s].order
      BY DEF Idle
    <3>2. Succeeded(l.order, charge)
      BY <2>1, <3>1 DEF WebhookStart, Succeeded
    <3>3. QED
      BY <2>1, <3>1, <3>2 DEF WebhookStart, Backed
  <2>2. ASSUME NEW o \in Orders, VerifyStart(r, o)
        PROVE  \E l : Become(r, l) /\ Backed(l, charge)
    <3> DEFINE l == [Idle EXCEPT !.pc = "ask", !.kind = "verify", !.order = o,
                                 !.session = ref[o]]
    <3>1. l.pc = "ask" /\ l.order = o /\ l.session = ref[o]
      BY DEF Idle
    <3>2. QED
      BY <1>t, <2>2, <3>1 DEF VerifyStart, Backed, GatewayBacked
  <2>3. CASE VerifyAsk(r)
    <3> DEFINE to(pc) == [req[r] EXCEPT !.pc = pc]
    <3>1. \A pc : to(pc).pc = pc /\ to(pc).order = req[r].order
      BY <1>l DEF Locals
    <3>2. CASE \E s \in Asked(r) : charge[s].state = "success" /\ Goto(r, "read")
      <4>1. PICK s \in Asked(r) : charge[s].state = "success"
        BY <3>2
      <4>2. s \in Sessions /\ charge[s].order = req[r].order
        BY <1>l, <2>3 DEF VerifyAsk, Asked, Locals, Backed
      <4>3. Succeeded(req[r].order, charge)
        BY <4>1, <4>2 DEF Succeeded
      <4>4. Backed(to("read"), charge)
        BY <3>1, <4>3 DEF Backed
      <4>5. QED
        BY <3>2, <4>4 DEF Goto
    <3>3. CASE Goto(r, "markFailed")
      <4>1. Backed(to("markFailed"), charge)
        BY <3>1 DEF Backed
      <4>2. QED
        BY <3>3, <4>1 DEF Goto
    <3>4. QED
      BY <1>i, <2>3, <3>2, <3>3 DEF VerifyAsk
  <2>4. CASE VerifyMarkFailed(r) \/ Abort(r)
    BY <1>i, <2>4 DEF VerifyMarkFailed, Abort
  <2>5. QED
    BY <2>1, <2>2, <2>3, <2>4
<1>2. ChargesKept
  BY <1>m DEF ChargesKept
<1>3. QED
  BY <1>t, <1>m, <1>1, <1>2, BecomeBacked, MoneyKept DEF GatewayBacked

LEMMA SettleCharge ==
  ASSUME ChargeInv, NEW r \in Requests,
         SettleRead(r) \/ SettleCommit(r) \/ SettleEnqueue(r)
           \/ SettleEnrol(r) \/ SettleAnnounce(r)
  PROVE  /\ GatewayBacked' /\ MoneyBacked'
         /\ \A q \in Requests : Backed(req'[q], charge')
<1> USE DEF At, orderVars, effectVars, gatewayVars, boundVars
<1> DEFINE o == req[r].order
<1>t. Typed /\ GatewayBacked /\ MoneyBacked
  BY DEF ChargeInv
<1>l. req[r] \in Locals /\ LocalKnown(req[r]) /\ Backed(req[r], charge)
  BY DEF ChargeInv, Typed, RequestsKnown
<1>o. o \in Orders /\ Succeeded(o, charge)
  BY <1>l DEF SettleRead, SettleCommit, SettleEnqueue, SettleEnrol,
              SettleAnnounce, LocalKnown, Backed
<1>m. UNCHANGED <<charge, ref>>
  BY DEF SettleRead, SettleCommit, CommitSale, LoseRace, SettleEnqueue,
         SettleEnrol, SettleAnnounce
<1>k. ChargesKept
  BY <1>m DEF ChargesKept
<1>1. \E l : Become(r, l) /\ Backed(l, charge)
  <2>1. Backed(Idle, charge)
    BY DEF Idle, Backed
  <2>2. \A pc : LET l == [req[r] EXCEPT !.pc = pc]
                IN  pc \notin {"saveRef", "ask"} => Backed(l, charge)
    <3>1. \A pc : LET l == [req[r] EXCEPT !.pc = pc]
                  IN  l.pc = pc /\ l.order = o
      BY <1>l DEF Locals
    <3>2. QED
      BY <1>o, <3>1 DEF Backed
  <2>3. \A x : Backed([req[r] EXCEPT !.pc = "commit", !.terms = x], charge)
    <3>1. \A x : LET l == [req[r] EXCEPT !.pc = "commit", !.terms = x]
                 IN  l.pc = "commit" /\ l.order = o
      BY <1>l DEF Locals
    <3>2. QED
      BY <1>o, <3>1 DEF Backed
  <2>4. \A n : Backed([req[r] EXCEPT !.pc = "enqueue", !.row = n], charge)
    <3>1. \A n : LET l == [req[r] EXCEPT !.pc = "enqueue", !.row = n]
                 IN  l.pc = "enqueue" /\ l.order = o
      BY <1>l DEF Locals
    <3>2. QED
      BY <1>o, <3>1 DEF Backed
  <2>5. CASE SettleRead(r) \/ SettleAnnounce(r)
    BY <2>1, <2>3, <2>5 DEF SettleRead, SettleAnnounce, Answer
  <2>6. CASE SettleCommit(r)
    BY <2>2, <2>4, <2>6 DEF SettleCommit, CommitSale, LoseRace, Goto
  <2>7. CASE SettleEnqueue(r) \/ SettleEnrol(r)
    BY <2>2, <2>7 DEF SettleEnqueue, SettleEnrol, Goto
  <2>8. QED
    BY <2>5, <2>6, <2>7
<1>2. MoneyBacked'
  <2>1. CASE UNCHANGED <<enrolledBy, payouts>>
    BY <1>t, <1>k, <2>1, MoneyKept
  <2>2. CASE SettleEnrol(r)
    <3>1. UNCHANGED payouts
      BY <2>2 DEF SettleEnrol
    <3>2. QED
      BY <1>t, <1>o, <1>m, <3>1 DEF MoneyBacked
  <2>3. CASE SettleCommit(r) /\ CommitSale(r)
    <3>1. UNCHANGED enrolledBy
          /\ \A p \in Orders \ {o} : payouts'[p] = payouts[p]
      BY <1>t, <2>3 DEF SettleCommit, CommitSale, Typed, EffectsTyped
    <3>2. QED
      BY <1>t, <1>o, <1>m, <3>1 DEF MoneyBacked
  <2>4. QED
    BY <2>1, <2>2, <2>3 DEF SettleRead, SettleCommit, LoseRace, SettleEnqueue,
                            SettleAnnounce
<1>3. QED
  BY <1>t, <1>m, <1>k, <1>1, <1>2, BecomeBacked DEF GatewayBacked

LEMMA EnvironmentCharge ==
  ASSUME ChargeInv,
         \/ EditCatalog \/ Enroll \/ UNCHANGED vars
         \/ \E s \in Sessions : ChargeMove(s)
         \/ \E o \in Orders : IssueEarnBack(o)
  PROVE  /\ GatewayBacked' /\ MoneyBacked'
         /\ \A q \in Requests : Backed(req'[q], charge')
<1> USE DEF orderVars, effectVars, gatewayVars, boundVars
<1>m. UNCHANGED <<req, ref, payouts>>
      /\ (enrolledBy' = "payment" => enrolledBy = "payment")
  BY DEF EditCatalog, Enroll, vars, ChargeMove, IssueEarnBack
<1>1. /\ ChargesKept
      /\ \A s \in Sessions :
           /\ charge'[s].order = charge[s].order
           /\ charge'[s].state = "unused" => charge[s].state = "unused"
  <2>1. CASE UNCHANGED charge
    BY <2>1 DEF ChargesKept
  <2>2. ASSUME NEW s \in Sessions, NEW m \in ChargeMoves,
               charge[s].state = m[1],
               charge' = [charge EXCEPT ![s].state = m[2]]
        PROVE  <1>1!:
    BY <2>2 DEF ChargeMoves, ChargesKept, ChargeInv, Typed, GatewayTyped
  <2>3. QED
    BY <2>1, <2>2 DEF EditCatalog, Enroll, vars, ChargeMove, IssueEarnBack
<1>2. GatewayBacked'
  <2>1. \A o \in Orders : ref[o] # None => ref[o] \in Sessions
    BY DEF ChargeInv, Typed, OrdersTyped
  <2>2. GatewayBacked /\ ref' = ref
    BY <1>m DEF ChargeInv
  <2>3. \A s \in Sessions : charge'[s].state = "unused" => charge'[s].order = None
    BY <1>1, <2>2 DEF GatewayBacked
  <2>4. \A o \in Orders : ref[o] # None => charge'[ref[o]].order = o
    BY <1>1, <2>1, <2>2 DEF GatewayBacked
  <2>5. QED
    BY <2>2, <2>3, <2>4 DEF GatewayBacked
<1>3. MoneyBacked'
  BY <1>m, <1>1, SucceededKept DEF ChargeInv, MoneyBacked
<1>4. \A q \in Requests : Backed(req'[q], charge')
  BY <1>m, <1>1, BackedKept DEF ChargeInv, Typed, RequestsKnown
<1>5. QED
  BY <1>2, <1>3, <1>4

LEMMA StepCharge == ChargeInv /\ [Next]_vars => ChargeInv'
<1> SUFFICES ASSUME ChargeInv, [Next]_vars PROVE ChargeInv'
  OBVIOUS
<1>1. Typed'
  BY StepTyped DEF ChargeInv
<1>2. /\ GatewayBacked' /\ MoneyBacked'
      /\ \A q \in Requests : Backed(req'[q], charge')
  BY CheckoutCharge, CallbackCharge, SettleCharge, EnvironmentCharge
     DEF Next, Advance, Begin
<1>3. QED
  BY <1>1, <1>2 DEF ChargeInv

(***************************************************************************)
(* No enrolment by payment and no payout row without a successful charge   *)
(* of the order, in every interleaving of checkouts, webhooks, callbacks   *)
(* and crashes: nothing is assumed about what may interrupt a checkout.    *)
(***************************************************************************)
THEOREM NothingUnpaidIsHandedOut == Spec => []NothingWithoutCharge
<1>1. ChargeInv => NothingWithoutCharge
  BY MoneyBackedIsCharged DEF ChargeInv
<1>2. QED
  BY <1>1, InitCharge, StepCharge, PTL DEF Spec

----------------------------------------------------------------------------
(* Refinement.                                                             *)

\* The refinement mapping, as Lifecycle substitutes it.
Sales == [o \in Orders |->
            CASE status[o] = "absent" -> "new"
              [] status[o] = "pending" -> "open"
              [] status[o] = "failed" -> "declined"
              [] OTHER -> "settled"]

Owing == [o \in Orders |-> Len(payouts[o])]

Held(l) == IF l.pc = "write" THEN l.order ELSE None
Holding == [r \in Requests |-> IF At(r, "write") THEN req[r].order ELSE None]

\* A status written on one row moves that row's sale and no other.
LEMMA SaleMoves ==
  ASSUME OrdersTyped, NEW o \in Orders, NEW x \in Statuses,
         status' = [status EXCEPT ![o] = x]
  PROVE  Sales' = [Sales EXCEPT ![o] =
                     CASE x = "absent" -> "new"
                       [] x = "pending" -> "open"
                       [] x = "failed" -> "declined"
                       [] OTHER -> "settled"]
BY DEF Sales, OrdersTyped

LEMMA SalesKept == UNCHANGED <<status, payouts>> => UNCHANGED <<Sales, Owing>>
BY DEF Sales, Owing

\* A step of one request moves what that request holds and nothing else.
LEMMA HoldsMove ==
  ASSUME RequestsKnown, NEW r \in Requests, NEW l, Become(r, l)
  PROVE  /\ Holding' = [Holding EXCEPT ![r] = Held(l)]
         /\ Holding[r] = Held(req[r])
         /\ Held(l) = Holding[r] => UNCHANGED Holding
BY DEF RequestsKnown, Become, Holding, Held, At

\* Only the look-up leaves a request about to write.
LEMMA OthersHoldNothing ==
  ASSUME RequestsKnown, NEW r \in Requests, Advance(r) \/ Begin(r),
         ~CheckoutFind(r), ~CheckoutWrite(r)
  PROVE  UNCHANGED Holding
<1> USE DEF At, orderVars, effectVars, gatewayVars, boundVars
<1>l. req[r] \in Locals
  BY DEF RequestsKnown
<1>1. Holding[r] = None
  BY DEF Holding, Advance, Begin, CheckoutStart, CheckoutPrice, CheckoutOpen,
         CheckoutSaveRef, WebhookStart, VerifyStart, VerifyAsk,
         VerifyMarkFailed, SettleRead, SettleCommit, SettleEnqueue,
         SettleEnrol, SettleAnnounce
<1>2. ASSUME NEW l, Become(r, l), l.pc # "write" PROVE UNCHANGED Holding
  <2>1. Held(l) = None
    BY <1>2 DEF Held
  <2>2. QED
    BY <1>1, <1>2, <2>1, HoldsMove
<1>i. Idle.pc # "write"
  BY DEF Idle
<1>3. CASE CheckoutStart(r)
  <2>1. [Idle EXCEPT !.pc = "price", !.kind = "checkout"].pc # "write"
    BY DEF Idle
  <2>2. QED
    BY <1>2, <1>3, <2>1 DEF CheckoutStart
<1>4. CASE CheckoutPrice(r)
  <2>1. [req[r] EXCEPT !.pc = "find", !.terms = catalog].pc # "write"
    BY <1>l DEF Locals
  <2>2. QED
    BY <1>2, <1>4, <1>i, <2>1 DEF CheckoutPrice
<1>5. CASE CheckoutOpen(r)
  <2>1. \A s : [req[r] EXCEPT !.pc = "saveRef", !.session = s].pc # "write"
    BY <1>l DEF Locals
  <2>2. QED
    BY <1>2, <1>5, <1>i, <2>1 DEF CheckoutOpen
<1>6. CASE CheckoutSaveRef(r) \/ VerifyMarkFailed(r) \/ SettleAnnounce(r)
  BY <1>2, <1>6, <1>i DEF CheckoutSaveRef, VerifyMarkFailed, SettleAnnounce,
                          Answer
<1>7. CASE VerifyAsk(r) \/ SettleEnqueue(r) \/ SettleEnrol(r)
  <2>1. \A pc : pc # "write" => [req[r] EXCEPT !.pc = pc].pc # "write"
    BY <1>l DEF Locals
  <2>2. QED
    BY <1>2, <1>7, <1>i, <2>1 DEF VerifyAsk, SettleEnqueue, SettleEnrol, Goto
<1>8. CASE SettleRead(r)
  <2>1. \A x : [req[r] EXCEPT !.pc = "commit", !.terms = x].pc # "write"
    BY <1>l DEF Locals
  <2>2. QED
    BY <1>2, <1>8, <1>i, <2>1 DEF SettleRead, Answer
<1>9. CASE SettleCommit(r)
  <2>1. \A n : [req[r] EXCEPT !.pc = "enqueue", !.row = n].pc # "write"
    BY <1>l DEF Locals
  <2>2. [req[r] EXCEPT !.pc = "enrol"].pc # "write"
    BY <1>l DEF Locals
  <2>3. QED
    BY <1>2, <1>9, <2>1, <2>2 DEF SettleCommit, CommitSale, LoseRace, Goto
<1>10. CASE \E s \in Sessions : WebhookStart(r, s)
  <2>1. \A s, o : [Idle EXCEPT !.pc = "read", !.kind = "webhook",
                              !.order = o, !.session = s].pc # "write"
    BY DEF Idle
  <2>2. QED
    BY <1>2, <1>10, <2>1 DEF WebhookStart
<1>11. CASE \E o \in Orders : VerifyStart(r, o)
  <2>1. \A s, o : [Idle EXCEPT !.pc = "ask", !.kind = "verify",
                              !.order = o, !.session = s].pc # "write"
    BY DEF Idle
  <2>2. QED
    BY <1>2, <1>11, <2>1 DEF VerifyStart
<1>12. QED
  BY <1>3, <1>4, <1>5, <1>6, <1>7, <1>8, <1>9, <1>10, <1>11
     DEF Advance, Begin

\* The look-up holds an open order, if any; the write opens what it holds.
LEMMA CheckoutLifecycle ==
  ASSUME Typed, NEW r \in Requests, CheckoutFind(r) \/ CheckoutWrite(r)
  PROVE  Lifecycle!Next \/ UNCHANGED <<Sales, Owing, Holding>>
<1> USE DEF At, orderVars, effectVars
<1>t. RequestsKnown /\ OrdersTyped /\ req[r] \in Locals
  BY DEF Typed, RequestsKnown
<1>1. CASE CheckoutFind(r)
  <2>0. UNCHANGED <<Sales, Owing>>
    BY <1>1, SalesKept DEF CheckoutFind
  <2>1. PICK found \in Orders \cup {None} :
          /\ found # None => found \in Orders /\ status[found] = "pending"
          /\ Become(r, [req[r] EXCEPT !.pc = "write", !.order = found])
    <3> DEFINE pending == {o \in Orders : status[o] = "pending"}
    <3>1. PICK found \in (IF pending = {} THEN {None} ELSE pending) :
            Become(r, [req[r] EXCEPT !.pc = "write", !.order = found])
      BY <1>1 DEF CheckoutFind
    <3>2. found \in Orders \cup {None}
          /\ (found # None => found \in Orders /\ status[found] = "pending")
      BY <3>1
    <3>3. QED
      BY <3>1, <3>2
  <2> DEFINE l == [req[r] EXCEPT !.pc = "write", !.order = found]
  <2>2. Held(l) = found
    BY <1>t DEF Locals, Held
  <2>3. Holding' = [Holding EXCEPT ![r] = found] /\ Holding[r] = None
    <3>1. Become(r, l)
      BY <2>1
    <3> HIDE DEF l
    <3>2. Holding' = [Holding EXCEPT ![r] = Held(l)]
      BY <1>t, <3>1, HoldsMove
    <3>3. Holding[r] = None
      BY <1>1 DEF CheckoutFind, Holding
    <3>4. QED
      BY <2>2, <3>2, <3>3
  <2>4. CASE found = None
    BY <2>0, <2>3, <2>4 DEF Holding
  <2>5. CASE found # None
    <3>1. Sales[found] = "open"
      BY <2>1, <2>5 DEF Sales
    <3>2. Lifecycle!Hold(r, found)
      BY <2>0, <2>3, <3>1 DEF Lifecycle!Hold, Sales, Owing, Holding
    <3>3. QED
      BY <2>1, <2>5, <3>2 DEF Lifecycle!Next
  <2>6. QED
    BY <2>4, <2>5
<1>2. CASE CheckoutWrite(r)
  <2>1. PICK o \in Orders :
          /\ IF req[r].order = None THEN status[o] = "absent"
                                    ELSE o = req[r].order
          /\ status' = [status EXCEPT ![o] = "pending"]
          /\ Become(r, [req[r] EXCEPT !.pc = "open", !.order = o])
    BY <1>2 DEF CheckoutWrite
  <2> DEFINE l == [req[r] EXCEPT !.pc = "open", !.order = o]
  <2>2. Held(l) = None
    BY <1>t DEF Locals, Held
  <2>3. /\ Holding' = [Holding EXCEPT ![r] = None]
        /\ Holding[r] = req[r].order
    <3>1. Become(r, l)
      BY <2>1
    <3> HIDE DEF l
    <3>2. Holding' = [Holding EXCEPT ![r] = Held(l)]
      BY <1>t, <3>1, HoldsMove
    <3>3. Holding[r] = req[r].order
      BY <1>2 DEF CheckoutWrite, Holding
    <3>4. QED
      BY <2>2, <3>2, <3>3
  <2>4. UNCHANGED Owing
    BY <1>2 DEF CheckoutWrite, Owing
  <2>5. Sales' = [Sales EXCEPT ![o] = "open"]
    <3>1. "pending" \in Statuses
      BY DEF Statuses
    <3>2. QED
      BY <1>t, <2>1, <3>1, SaleMoves
  <2>6. CASE req[r].order = None
    <3>1. Sales[o] = "new"
      BY <2>1, <2>6 DEF Sales
    <3>2. UNCHANGED Holding
      BY <2>3, <2>6 DEF Holding
    <3>3. Lifecycle!Open(o)
      BY <2>4, <2>5, <3>1, <3>2 DEF Lifecycle!Open, Sales, Owing, Holding
    <3>4. QED
      BY <3>3 DEF Lifecycle!Next
  <2>7. CASE req[r].order # None
    <3>1. Holding[r] = o /\ o # None
      BY <2>1, <2>3, <2>7
    <3>2. Sales' = [Sales EXCEPT ![Holding[r]] = "open"]
      BY <2>5, <3>1
    <3>3. Lifecycle!Rewrite(r)
      BY <2>3, <2>4, <3>1, <3>2 DEF Lifecycle!Rewrite, Sales, Owing, Holding
    <3>4. QED
      BY <3>3 DEF Lifecycle!Next
  <2>8. QED
    BY <2>6, <2>7
<1>3. QED
  BY <1>1, <1>2

LEMMA StepLifecycle ==
  ASSUME Typed, [Next]_vars
  PROVE  Lifecycle!Next \/ UNCHANGED <<Sales, Owing, Holding>>
<1> USE DEF orderVars, effectVars, gatewayVars, boundVars
<1>t. RequestsKnown /\ OrdersTyped /\ EffectsTyped
  BY DEF Typed
<1>1. ASSUME NEW r \in Requests, CheckoutFind(r) \/ CheckoutWrite(r)
      PROVE  Lifecycle!Next \/ UNCHANGED <<Sales, Owing, Holding>>
  BY <1>1, CheckoutLifecycle
<1>2. ASSUME NEW r \in Requests, Abort(r)
      PROVE  Lifecycle!Next \/ UNCHANGED <<Sales, Owing, Holding>>
  <2>1. UNCHANGED <<Sales, Owing>> /\ Become(r, Idle)
    BY <1>2, SalesKept DEF Abort
  <2>2. Held(Idle) = None
    BY DEF Held, Idle
  <2>3. Holding' = [Holding EXCEPT ![r] = None]
    BY <1>t, <2>1, <2>2, HoldsMove
  <2>4. CASE Holding[r] = None
    BY <2>1, <2>3, <2>4 DEF Holding
  <2>5. CASE Holding[r] # None
    <3>1. Lifecycle!Drop(r)
      BY <2>1, <2>3, <2>5 DEF Lifecycle!Drop, Sales, Owing, Holding
    <3>2. QED
      BY <3>1 DEF Lifecycle!Next
  <2>6. QED
    BY <2>4, <2>5
<1>h. ASSUME \A r \in Requests :
               ~CheckoutFind(r) /\ ~CheckoutWrite(r) /\ ~Abort(r)
      PROVE  UNCHANGED Holding
  <2>1. CASE UNCHANGED req
    BY <2>1 DEF Holding, At
  <2>2. ASSUME NEW r \in Requests, Advance(r) \/ Begin(r)
        PROVE  UNCHANGED Holding
    BY <1>t, <1>h, <2>2, OthersHoldNothing
  <2>3. QED
    BY <1>h, <2>1, <2>2
       DEF Next, vars, EditCatalog, Enroll, ChargeMove, IssueEarnBack
<1>3. ASSUME NEW o \in Orders, UNCHANGED <<payouts, Holding>>,
             status[o] = "pending",
             status' = [status EXCEPT ![o] = "failed"]
      PROVE  Lifecycle!Next
  <2>1. Sales[o] = "open" /\ Sales' = [Sales EXCEPT ![o] = "declined"]
    <3>1. "failed" \in Statuses
      BY DEF Statuses
    <3>2. QED
      BY <1>t, <1>3, <3>1, SaleMoves DEF Sales
  <2>2. UNCHANGED Owing
    BY <1>3 DEF Owing
  <2>3. Lifecycle!Decline(o)
    BY <1>3, <2>1, <2>2 DEF Lifecycle!Decline, Sales, Owing, Holding
  <2>4. QED
    BY <2>3 DEF Lifecycle!Next
<1>4. ASSUME NEW o \in Orders, UNCHANGED Holding, status[o] = "pending",
             status' = [status EXCEPT ![o] = "paid"],
             \/ UNCHANGED payouts
             \/ \E t \in Terms :
                  payouts' = [payouts EXCEPT ![o] = Append(payouts[o], t)]
      PROVE  Lifecycle!Next
  <2>1. Sales[o] = "open" /\ Sales' = [Sales EXCEPT ![o] = "settled"]
    <3>1. "paid" \in Statuses
      BY DEF Statuses, Settled
    <3>2. QED
      BY <1>t, <1>4, <3>1, SaleMoves DEF Sales
  <2>2. \E n \in 0..1 : Owing' = [Owing EXCEPT ![o] = Owing[o] + n]
    <3>1. Owing[o] \in Nat
      BY <1>t DEF EffectsTyped, Owing
    <3>2. CASE UNCHANGED payouts
      <4>1. Owing' = [Owing EXCEPT ![o] = Owing[o] + 0]
        BY <3>1, <3>2 DEF Owing
      <4>2. QED
        BY <4>1
    <3>3. ASSUME NEW t \in Terms,
                 payouts' = [payouts EXCEPT ![o] = Append(payouts[o], t)]
          PROVE  Owing' = [Owing EXCEPT ![o] = Owing[o] + 1]
      <4>1. /\ Len(payouts'[o]) = Len(payouts[o]) + 1
            /\ \A p \in Orders \ {o} : payouts'[p] = payouts[p]
        BY <1>t, <3>3, OneMoreRow
      <4>2. /\ Owing'[o] = Owing[o] + 1
            /\ \A p \in Orders \ {o} : Owing'[p] = Owing[p]
        BY <4>1 DEF Owing
      <4>3. /\ Owing = [p \in Orders |-> Owing[p]]
            /\ Owing' = [p \in Orders |-> Owing'[p]]
        BY DEF Owing
      <4> HIDE DEF Owing
      <4>4. QED
        BY <4>2, <4>3
    <3>4. QED
      BY <1>4, <3>2, <3>3
  <2>3. Lifecycle!Settle(o)
    BY <1>4, <2>1, <2>2 DEF Lifecycle!Settle, Sales, Owing, Holding
  <2>4. QED
    BY <2>3 DEF Lifecycle!Next
<1>5. ASSUME NEW o \in Orders, UNCHANGED payouts, status[o] = "paid",
             status' = [status EXCEPT ![o] = "earn_back_issued"]
      PROVE  UNCHANGED <<Sales, Owing>>
  <2>1. Sales[o] = "settled" /\ Sales' = [Sales EXCEPT ![o] = "settled"]
    <3>1. "earn_back_issued" \in Statuses
      BY DEF Statuses, Settled
    <3>2. QED
      BY <1>t, <1>5, <3>1, SaleMoves DEF Sales
  <2>2. QED
    BY <1>5, <2>1 DEF Sales, Owing
<1>6. CASE \A r \in Requests :
             ~CheckoutFind(r) /\ ~CheckoutWrite(r) /\ ~Abort(r)
  BY <1>3, <1>4, <1>5, <1>6, <1>h, OrderEffects, SalesKept
<1>7. QED
  BY <1>1, <1>2, <1>6

(***************************************************************************)
(* Checkouts, webhooks, callbacks, crashes and Earn-Back implement the     *)
(* life cycle of a sale under every interleaving: nothing but a checkout   *)
(* that looked an order up while it was open writes it open again, and no  *)
(* payout row is written but by the step that settles an open order.       *)
(***************************************************************************)
THEOREM SalesImplemented == Spec => ImplementsLifecycle
<1>1. Init => Lifecycle!Init
  BY DEF Init, Lifecycle!Init, At, Idle
<1>2. Typed /\ [Next]_vars => [Lifecycle!Next]_<<Sales, Owing, Holding>>
  BY StepLifecycle
<1>3. QED
  BY <1>1, <1>2, InitTyped, StepTyped, PTL
     DEF Spec, ImplementsLifecycle, Lifecycle!Spec, Lifecycle!saleVars, Sales,
         Owing, Holding
============================================================================

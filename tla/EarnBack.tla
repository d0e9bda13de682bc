------------------------------ MODULE EarnBack ------------------------------
(***************************************************************************)
(* The escrow of paid, Earn-Back-eligible orders (earn-back.service.ts,    *)
(* earn-back-deadline.service.ts): resolved when the learner completes, by *)
(* an in-process event, or by a sweep once the window has lapsed for good; *)
(* meanwhile the learner may commit to a shorter window.  One order per    *)
(* learner and entity; settlement is Settlement.tla's, and what completes  *)
(* an entity is the completion context's, here a step of the environment.  *)
(*                                                                         *)
(* A resolver is an activity of the API process: the handler of one        *)
(* EntityCompleted event, or one sweep (the daily cron and the HTTP        *)
(* trigger run the same code, and only the cron takes a lock).  Each of    *)
(* its actions is the code between two awaits.                             *)
(***************************************************************************)
EXTENDS Pools, Sequences, FiniteSets

CONSTANTS
  Orders,        \* paid, eligible orders
  Resolvers,     \* concurrent resolutions (a bound)
  Learners,      \* concurrent deadline requests (a bound)
  Bases,         \* escrows, minor units
  Share,         \* the frozen revenue split
  Instants,      \* the instants at which something happens (a bound on time)
  UnitsPerDay,   \* instants are counted in 1/UnitsPerDay days since payment
  Windows,       \* windows, in days, a creator or the platform fixes
  Take,          \* the page of a sweep: "take: 200"
  None,          \* a null
  MaxFails       \* bound on activities cut short (crash, rejected await)

ASSUME EarnBackAssumption ==
  /\ Bases \subseteq Nat
  /\ Share \in 0..100
  /\ Instants \subseteq Nat /\ 0 \in Instants
  /\ UnitsPerDay \in Nat \ {0}
  /\ Windows \subseteq Nat \ {0}
  /\ Take \in Nat \ {0}
  /\ None \notin Orders \cup Nat
  /\ MaxFails \in Nat

VARIABLES
  base, platformOwned,  \* frozen on the order at checkout
  status,               \* status[o]: Order.status
  source,               \* source[o]: who decided the deadline
  window,               \* window[o]: Order.earnBackDeadlineDays
  txns,                 \* txns[o]: EarnBackTransaction rows
  forfeits,             \* forfeits[o]: amounts of the InstructorPayout rows
  payoutJobs,           \* orders whose forfeit payout was enqueued
  refundJobs,           \* orders whose refund was enqueued (stable job id)
  notices,              \* notices[o]: EarnBackNoPayout events (counted to 2)
  completedAt,          \* completedAt[o]: the learner's CompletionStatus
  events,               \* EntityCompleted events emitted and not handled yet
  resolver,             \* resolver[w]: the local state of resolution w
  request,              \* request[l]: the local state of deadline request l
  now, fails

orderVars == <<base, platformOwned, status, source, window>>
effectVars == <<txns, forfeits, payoutJobs, refundJobs, notices>>
learnerVars == <<completedAt, events>>
vars == <<orderVars, effectVars, learnerVars, resolver, request, now, fails>>

\* Order.earnBackDeadline, always the payment plus the window in days.
Deadline(o) == window[o] * UnitsPerDay

\* The deadline, as a snapshot, and what the order's escrow becomes.
Resolution(o, deadline, completed) ==
  CalculateEarnBack(
    base[o],
    IF completed = None THEN MaxLateDays
                        ELSE DaysLate(deadline, completed, UnitsPerDay),
    Share, platformOwned[o])

Pcs == {"idle", "check", "flip", "enqueue", "announce"}

Idle == [pc |-> "idle", order |-> None, deadline |-> 0, completed |-> None,
         todo |-> {}]

Resolutions == [pc : Pcs, order : Orders \cup {None}, deadline : Nat,
                completed : Nat \cup {None}, todo : SUBSET Orders]

Requests == [order : Orders \cup {None}, days : Nat]

NoRequest == [order |-> None, days |-> 0]

Rows == [late : Nat, refund : Nat, forfeited : Nat, instructor : Nat,
         platform : Nat, noPayout : BOOLEAN]

TypeOK ==
  /\ base \in [Orders -> Bases] /\ platformOwned \in [Orders -> BOOLEAN]
  /\ status \in [Orders -> {"paid", "earn_back_issued"}]
  /\ source \in [Orders -> {"creator", "provisional", "learner"}]
  /\ window \in [Orders -> Nat \ {0}]
  /\ txns \in [Orders -> Seq(Rows)] /\ forfeits \in [Orders -> Seq(Nat)]
  /\ payoutJobs \subseteq Orders /\ refundJobs \subseteq Orders
  /\ notices \in [Orders -> 0..2]
  /\ completedAt \in [Orders -> Instants \cup {None}]
  /\ events \subseteq Orders
  /\ resolver \in [Resolvers -> Resolutions]
  /\ request \in [Learners -> Requests]
  /\ now \in Instants /\ fails \in 0..MaxFails

\* Orders that have just been paid.
Init ==
  /\ base \in [Orders -> Bases] /\ platformOwned \in [Orders -> BOOLEAN]
  /\ status = [o \in Orders |-> "paid"]
  /\ source \in [Orders -> {"creator", "provisional"}]
  /\ window \in [Orders -> Windows]
  /\ txns = [o \in Orders |-> <<>>] /\ forfeits = [o \in Orders |-> <<>>]
  /\ payoutJobs = {} /\ refundJobs = {}
  /\ notices = [o \in Orders |-> 0]
  /\ completedAt = [o \in Orders |-> None]
  /\ events = {}
  /\ resolver = [w \in Resolvers |-> Idle]
  /\ request = [l \in Learners |-> NoRequest]
  /\ now = 0 /\ fails = 0

----------------------------------------------------------------------------

At(w, pc) == resolver[w].pc = pc

Become(w, local) == resolver' = [resolver EXCEPT ![w] = local]

Goto(w, pc) == Become(w, [resolver[w] EXCEPT !.pc = pc])

\* A sweep goes on with the rest of its page; an event handler is done.
Return(w) == Become(w, IF resolver[w].todo = {}
                       THEN Idle
                       ELSE [Idle EXCEPT !.pc = "check", !.todo = resolver[w].todo])

----------------------------------------------------------------------------
(* Who starts a resolution                                                 *)

\* Mutant: an event that comes after the deadline is left to the sweep.
HandleCompletedInTime(w, o) ==
  /\ At(w, "idle")
  /\ o \in events
  /\ events' = events \ {o}
  /\ IF status[o] = "paid" /\ now <= Deadline(o)
     THEN Become(w, [Idle EXCEPT !.pc = "flip", !.order = o,
                                 !.deadline = Deadline(o),
                                 !.completed = completedAt[o]])
     ELSE UNCHANGED resolver
  /\ UNCHANGED <<orderVars, effectVars, completedAt, request, now, fails>>

\* onEntityCompleted and resolveForCompletion: a paid order, or nothing.
HandleCompleted(w, o) ==
  /\ At(w, "idle")
  /\ o \in events
  /\ events' = events \ {o}
  /\ IF status[o] = "paid"
     THEN Become(w, [Idle EXCEPT !.pc = "flip", !.order = o,
                                 !.deadline = Deadline(o),
                                 !.completed = completedAt[o]])
     ELSE UNCHANGED resolver
  /\ UNCHANGED <<orderVars, effectVars, completedAt, request, now, fails>>

\* Mutant: the sweep forfeits at the deadline, not fifty days later.
DueAtDeadline == {o \in Orders : status[o] = "paid" /\ Deadline(o) < now}

\* Lapsed by more than the fifty days of the tardiness cap.
Due == {o \in Orders : /\ status[o] = "paid"
                       /\ Deadline(o) < now - MaxLateDays * UnitsPerDay}

\* resolveExpired: a page of the due orders, in no particular order.
SweepStart(w) ==
  /\ At(w, "idle")
  /\ Due # {}
  /\ \E page \in SUBSET Due :
       /\ Cardinality(page) = IF Cardinality(Due) > Take THEN Take
                                                         ELSE Cardinality(Due)
       /\ Become(w, [Idle EXCEPT !.pc = "check", !.todo = page])
  /\ UNCHANGED <<orderVars, effectVars, learnerVars, request, now, fails>>

\* "Skip if the learner has since completed - that path resolves itself."
SweepCheck(w) ==
  /\ At(w, "check")
  /\ \E o \in resolver[w].todo :
       LET rest == resolver[w].todo \ {o}
       IN  IF completedAt[o] # None
           THEN Become(w, IF rest = {} THEN Idle
                                       ELSE [resolver[w] EXCEPT !.todo = rest])
           ELSE Become(w, [resolver[w] EXCEPT !.pc = "flip", !.order = o,
                                              !.todo = rest])
  /\ UNCHANGED <<orderVars, effectVars, learnerVars, request, now, fails>>

----------------------------------------------------------------------------
(* resolve                                                                 *)

\* The newest resolution row, the one the code looks for.
Newest(o) == txns[o][Len(txns[o])]

\* What the resolver computes from its snapshot of the order.
Result(w) ==
  Resolution(resolver[w].order, resolver[w].deadline, resolver[w].completed)

\* Mutant: the update of the order is by id only.
ResolveOrderAgain(w) ==
  LET o == resolver[w].order
      row == Result(w)
  IN  /\ status' = [status EXCEPT ![o] = "earn_back_issued"]
      /\ txns' = [txns EXCEPT ![o] = Append(@, row)]
      /\ forfeits' = [forfeits EXCEPT ![o] = Append(@, row.instructor)]
      /\ Goto(w, "enqueue")

\* Mutant: the creator is owed the whole forfeit, not the cut.
ResolveOrderWhole(w) ==
  LET o == resolver[w].order
      row == Result(w)
  IN  /\ status[o] = "paid"
      /\ status' = [status EXCEPT ![o] = "earn_back_issued"]
      /\ txns' = [txns EXCEPT ![o] = Append(@, row)]
      /\ forfeits' = [forfeits EXCEPT ![o] = Append(@, row.forfeited)]
      /\ Goto(w, "enqueue")

\* The transaction: the status flip, the row, and the payout row of a forfeit.
ResolveOrder(w) ==
  LET o == resolver[w].order
      row == Result(w)
  IN  /\ status[o] = "paid"
      /\ status' = [status EXCEPT ![o] = "earn_back_issued"]
      /\ txns' = [txns EXCEPT ![o] = Append(@, row)]
      /\ IF ~platformOwned[o] /\ row.instructor > 0
         THEN /\ forfeits' = [forfeits EXCEPT ![o] = Append(@, row.instructor)]
              /\ Goto(w, "enqueue")
         ELSE /\ UNCHANGED forfeits
              /\ Goto(w, "announce")

\* updateMany matched no row: nothing is written, and resolve goes on.
AlreadyResolved(w) ==
  /\ status[resolver[w].order] # "paid"
  /\ Goto(w, "announce")
  /\ UNCHANGED <<status, txns, forfeits>>

Flip(w) ==
  /\ At(w, "flip")
  /\ ResolveOrder(w) \/ AlreadyResolved(w)
  /\ UNCHANGED <<base, platformOwned, source, window, payoutJobs, refundJobs,
                 notices, learnerVars, request, now, fails>>

EnqueuePayout(w) ==
  /\ At(w, "enqueue")
  /\ payoutJobs' = payoutJobs \cup {resolver[w].order}
  /\ Goto(w, "announce")
  /\ UNCHANGED <<orderVars, txns, forfeits, refundJobs, notices, learnerVars,
                 request, now, fails>>

\* Mutant: a partial refund is taken for no payout.
AnnounceFullOnly(w) ==
  LET o == resolver[w].order
  IN  /\ At(w, "announce")
      /\ IF Result(w).forfeited > 0
         THEN /\ notices' = [notices EXCEPT ![o] = IF @ < 2 THEN @ + 1 ELSE @]
              /\ UNCHANGED refundJobs
         ELSE /\ refundJobs' = refundJobs \cup {o}
              /\ UNCHANGED notices
      /\ Return(w)
      /\ UNCHANGED <<orderVars, txns, forfeits, payoutJobs, learnerVars,
                     request, now, fails>>

\* The newest row of the order, whoever wrote it, drives the refund or the
\* notice; what was computed here decides which of the two.
Announce(w) ==
  LET o == resolver[w].order
  IN  /\ At(w, "announce")
      /\ IF txns[o] = <<>>
         THEN UNCHANGED <<refundJobs, notices>>
         ELSE IF Result(w).noPayout
         THEN /\ notices' = [notices EXCEPT ![o] = IF @ < 2 THEN @ + 1 ELSE @]
              /\ UNCHANGED refundJobs
         ELSE /\ refundJobs' = refundJobs \cup {o}
              /\ UNCHANGED notices
      /\ Return(w)
      /\ UNCHANGED <<orderVars, txns, forfeits, payoutJobs, learnerVars,
                     request, now, fails>>

----------------------------------------------------------------------------
(* setDeadline                                                             *)

\* Mutant: "out of range" is not checked.
MayCommitLonger(o, days) == status[o] = "paid" /\ source[o] = "provisional"

\* rejectDeadlineCommit on the order as it is read.
MayCommit(o, days) == /\ status[o] = "paid"
                      /\ source[o] = "provisional"
                      /\ days \in 1..window[o]

AskDeadline(l, o) ==
  /\ request[l] = NoRequest
  /\ \E days \in Windows \cup {1} :
       /\ MayCommit(o, days)
       /\ request' = [request EXCEPT ![l] = [order |-> o, days |-> days]]
  /\ UNCHANGED <<orderVars, effectVars, learnerVars, resolver, now, fails>>

\* Mutant: the update is by id only.
SetDeadlineAgain(l) ==
  LET o == request[l].order
  IN  /\ request[l] # NoRequest
      /\ window' = [window EXCEPT ![o] = request[l].days]
      /\ source' = [source EXCEPT ![o] = "learner"]
      /\ request' = [request EXCEPT ![l] = NoRequest]
      /\ UNCHANGED <<base, platformOwned, status, effectVars, learnerVars,
                     resolver, now, fails>>

\* updateMany: the window is still provisional; the status is not looked at.
SetDeadline(l) ==
  LET o == request[l].order
  IN  /\ request[l] # NoRequest
      /\ IF source[o] = "provisional"
         THEN /\ window' = [window EXCEPT ![o] = request[l].days]
              /\ source' = [source EXCEPT ![o] = "learner"]
         ELSE UNCHANGED <<window, source>>
      /\ request' = [request EXCEPT ![l] = NoRequest]
      /\ UNCHANGED <<base, platformOwned, status, effectVars, learnerVars,
                     resolver, now, fails>>

----------------------------------------------------------------------------
(* The environment                                                         *)

\* The write that flips CompletionStatus.completedAt emits EntityCompleted.
Complete(o) ==
  /\ completedAt[o] = None
  /\ completedAt' = [completedAt EXCEPT ![o] = now]
  /\ events' = events \cup {o}
  /\ UNCHANGED <<orderVars, effectVars, resolver, request, now, fails>>

Tick ==
  /\ \E t \in Instants :
       /\ t > now
       /\ \A u \in Instants : u > now => t <= u
       /\ now' = t
  /\ UNCHANGED <<orderVars, effectVars, learnerVars, resolver, request, fails>>

\* An activity ends early: the handler and the sweep both swallow the error,
\* and the rest of a sweep's page is not looked at.
Fail(w) ==
  /\ ~At(w, "idle")
  /\ fails < MaxFails
  /\ fails' = fails + 1
  /\ Become(w, Idle)
  /\ UNCHANGED <<orderVars, effectVars, learnerVars, request, now>>

\* The process dies with the event not handled: events are not persisted.
LoseEvent(o) ==
  /\ o \in events
  /\ fails < MaxFails
  /\ fails' = fails + 1
  /\ events' = events \ {o}
  /\ UNCHANGED <<orderVars, effectVars, completedAt, resolver, request, now>>

----------------------------------------------------------------------------

Resolve(w) == SweepCheck(w) \/ Flip(w) \/ EnqueuePayout(w) \/ Announce(w)

Next ==
  \/ \E w \in Resolvers : \/ Resolve(w) \/ SweepStart(w) \/ Fail(w)
                          \/ \E o \in Orders : HandleCompleted(w, o)
  \/ \E l \in Learners : SetDeadline(l) \/ \E o \in Orders : AskDeadline(l, o)
  \/ \E o \in Orders : Complete(o) \/ LoseEvent(o)
  \/ Tick

Spec == Init /\ [][Next]_vars

\* Time passes, a sweep runs again and again (daily), an activity runs to its
\* end, and an event that is not lost is handled: its handler starts when it is
\* emitted and waits for no sweep (strong fairness, because the resolvers are
\* bounded here and sweeps may take them all, again and again).
FairSpec ==
  /\ Spec
  /\ WF_vars(Tick)
  /\ \A w \in Resolvers : WF_vars(Resolve(w))
  /\ WF_vars(\E w \in Resolvers : SweepStart(w))
  /\ \A o \in Orders : SF_vars(\E w \in Resolvers : HandleCompleted(w, o))

----------------------------------------------------------------------------
(* Properties                                                              *)

\* The flip is "the single resolution gate, so completion + cron can't both
\* resolve one order" (earn-back.service.ts:33): one row, written when the
\* order is issued, whatever handlers, sweeps and retries race.
ResolvedOnce ==
  \A o \in Orders : /\ Len(txns[o]) <= 1
                    /\ status[o] = "earn_back_issued" <=> txns[o] # <<>>

\* What the creator is paid out of an escrow is what its resolution gave the
\* creator, once, and nothing while the escrow is held.
ForfeitMatchesRow ==
  \A o \in Orders :
    forfeits[o] = IF txns[o] = <<>> \/ Newest(o).instructor = 0
                  THEN <<>>
                  ELSE <<Newest(o).instructor>>

\* The refund a learner who completed gets is never less than what completing
\* then earns under the deadline in force, and exactly that unless the learner
\* moved the deadline: no sweep forfeits what the learner earned.
RefundIsEarned ==
  \A o \in Orders : txns[o] # <<>> /\ completedAt[o] # None =>
    LET earned == Resolution(o, Deadline(o), completedAt[o]).refund
    IN  /\ Newest(o).refund >= earned
        /\ source[o] # "learner" => Newest(o).refund = earned

\* A deadline only moves once, to an earlier day, and only by the learner: a
\* learner "can promise to finish sooner, never later" and the choice is
\* "Locked forever after" (earn-back-deadline.calculator.ts:13-19).
DeadlineLocked ==
  [][\A o \in Orders : window'[o] # window[o] =>
       source[o] = "provisional" /\ source'[o] = "learner"
         /\ window'[o] <= window[o]]_vars

\* Handlers, sweeps and failures implement the escrow: held until one step
\* distributes it to the last unit.
Escrows == INSTANCE Escrow WITH
  Held <- None,
  shares <- [o \in Orders |->
               IF txns[o] = <<>> THEN None
               ELSE [learner |-> Newest(o).refund,
                     creator |-> Newest(o).instructor,
                     platform |-> Newest(o).platform]]

ImplementsEscrow == Escrows!Spec

\* Every escrow is resolved in the end ("so escrow is always resolvable",
\* payments.service.ts:116).
EscrowResolved == \A o \in Orders : <>(status[o] = "earn_back_issued")

\* A refund that is owed is queued, and a forfeited one is told.
OutcomeDelivered ==
  \A o \in Orders : status[o] = "earn_back_issued" ~>
    /\ txns[o] # <<>>
    /\ IF Newest(o).refund > 0 THEN o \in refundJobs ELSE notices[o] > 0
=============================================================================

# DextaLearning: specifications, model checks and proofs

TLA+ models of the API in `src/apps/api` and of the page that takes an
assessment in `src/apps/web`, the TLC runs that check them and the theorems
TLAPS proves about them. The models follow the code, file and line;
`PROJECT.json` maps every definition to the lines it stands for.

The product sells courses, paths and cohorts. A learner pays through Paystack
or Stripe; part of the price (the Earn-Back pool) is held in escrow and comes
back if the learner finishes in time, losing two percent of it per day late;
what is lost goes to the creator and the platform. So the core of the system
is a chain: **checkout -> settlement -> progress and completion -> resolution
of the escrow -> disbursement**. Every link is a set of Node request handlers,
event handlers, cron sweeps and queue workers over one PostgreSQL database,
without row locks, with few unique indexes and few transactions. What is
hard is therefore everything between two `await`s.

Progress is made of the learner's work, and that is the second half of the
system: assessments taken on a page that survives outages, under a retry
policy, watched by an integrity monitor and graded by the API or by hand;
projects reviewed by peers; streaks, badges and reminders that follow from
events. Its hard parts are requests that overlap, arrive late or get lost.

## Inventory

Paths are under `src/apps/api/src/`; `m/` stands for `modules/`.

### Modelled

| Part | State it keeps | Operations | Talks to |
|---|---|---|---|
| **Checkout and settlement** `m/payments/payments.service.ts`, `m/enrollment` | `Order` (status, frozen snapshot and pools, provider reference), `Enrollment`, the sale's `InstructorPayout` | `initCheckout`, `handleWebhook`, `verifyAndSettle`, `settleOrder`, `enroll`, `enrollAfterPayment` | gateway (sessions, webhooks, verification); payout queue; `PaymentConfirmed` |
| **Money arithmetic** `m/payments/*.calculator.ts` | none (pure) | `calculateRevenueSplit`, `splitRevenue`, `calculateEarnBack`, `daysLate`, `calculateSaleLedger` | all of the above and below |
| **Completion** `m/completion` | `LessonCompletion`, `CompletionStatus` | `recordLessonProgress`, course, path and cohort progress (each recomputes and persists) | reads attempts and submissions; `LessonCompleted`, `EntityCompleted` |
| **Certificates** `m/certificates` | `Certificate`, the `certificateIssued` flag | `issue` on `EntityCompleted` | storage, renderer |
| **Earn-Back escrow** `m/payments/earn-back*.ts`, `m/sweeps` | `Order.earnBackDeadline(Days, Source)`, `EarnBackTransaction`, the forfeit's `InstructorPayout` | `resolveForCompletion`, `resolveExpired` (daily cron under a fail-open lock, and an HTTP trigger without one), `setDeadline` | `EntityCompleted`; both queues; `EarnBackNoPayout` |
| **Disbursement** `m/payments/workers`, `admin-payouts.service.ts`, `adapters` | status of payout and refund rows | `process` of both workers, `runAll`, `retry`, `retryRefund` | job queue; provider transfers and refunds |
| **Job queue** `shared/queue` | jobs with ids, attempts and retention | enqueue, take, finish, retry: BullMQ and in-process | workers |
| **Attempts** `m/assessments`, `shared/retry` | `AssessmentAttempt` (times, score, held, invalidated) | `startOrResume` and its eligibility, `saveAnswer`, `submit`, expiry, `finalize`, `gradeManual`, `invalidateAttempt`, `acceptAttempt` | the attempt page; `AttemptSubmitted` |
| **Attempt page** `apps/web/src` (`routes/learn/assessment`, `hooks/use-attempt-resilience.ts`) | answers in memory, their mirror in localStorage, the queue of failed saves, the submit mutation | choose, save, flush, submit, countdown, reconnect, crash and resume | `saveAnswer`, `submit`, `getAttempt` |
| **Integrity** `hooks/use-anti-cheat.ts`, `camera-monitor.tsx`, `m/assessments` | the page's buffer; `AssessmentAntiCheatLog`; the integrity fields of the attempt | observe, flush, requeue, leave, unload, resume; `ingestAntiCheat`, `ingestProctoringSnapshot`, `recomputeIntegrity` | the attempt's finalisation |
| **Projects and peer review** `m/projects` | `ProjectSubmission`, `ProjectPeerReview` | `submit`, `listMyReviews` (assigns), `submitReview` (aggregates), `gradeSubmission` | `ProjectGraded` |
| **Engagement** `m/engagement` | `ProgressEvent`, `UserStreak`, `UserBadge` | handlers of learning events: record, `recordDailyActivity`, `awardBadges` | the events of all the above |
| **Reminders and coaching** `m/reminders`, `m/coach` | `ReviewItem`, `ReminderLog`, `CoachDigest` | daily digest, kickoff and deadline notices, weekly coaching | `LessonCompleted`; notifications; the AI port |

What makes each correct, in a sentence: a sale owes its creator one payout for
each time it was settled, which is once unless a stale checkout reopens it, and
unlocks the content it was paid for; no minor unit is lost or made by rounding;
progress is lost to a stale report only, a completion is announced by the write
that made it so and stands for work done; an escrow is distributed
once, to its last unit, and never to a learner's loss after they finished in
time; money leaves once where the provider's call carries a key, a row marked
processed was paid, and a row that can be paid is attempted; what a learner chose is what is shown, handed in and
graded; attempts that were started one by one keep to the retry policy and an outcome is
told once; what was observed is on the record unless its page went with it, and
what was not watched says so;
peers grade when enough have reviewed; a streak is made of days of activity;
a notice is sent once and a review moves one rung at a time.

### Not modelled

- *Payout accounts* beyond the first one, *grouping*, *drop-off alerts* and the
  *counter of the throttle*: read, and what was met is under "What the models
  say about the code". Payout accounts are in the plan. Grouping and drop-off
  keep no invariant over concurrent requests that a model could check, only
  the ones listed there that do not hold.
- The *scoring* of question types, the rubric of a review and the selection of
  recipients: data, abstracted to "passed or not" and "has a notice coming".
- *Authoring, catalogue, tenancy and accounts*: CRUD over single rows.
- *Leaderboards, analytics, reports, earnings*: reads.
- *AI features, media, chat, mail*: what they return is outside any model, and
  they write single rows.
- *Phone verification*: one row written by one request.
- *The rest of the web application*: forms and views. It is most of the
  repository's lines, and keeps no state of the system, which is why the map
  covers a small share of the lines.

`PROJECT.json` gives the reason for each under `components`.

## Modules

| Module | What it is |
|---|---|
| `SaleLifecycle` | Abstract life of one sale: open, then settled or declined once. The one way back to open is a checkout that looked the order up while it was open. |
| `Settlement` | Detailed checkout and settlement. Implements `SaleLifecycle`. |
| `Pools` | The money operators, as pure functions. |
| `SaleMoney` | One sale, its split and its days of lateness: what the operators do for every input. |
| `Completion` | Progress reports, lazy recomputation, certificates. |
| `Escrow` | Abstract escrow: held, then distributed once and whole. |
| `EarnBack` | Detailed resolution and deadlines, on `Pools`. Implements `Escrow`. |
| `Disbursement` | Rows, jobs, worker slots, provider. |
| `RetryPolicy` | Windows of tries, spacing and lockouts, as pure functions. |
| `Attempts` | Attempts of one learner at one assessment, on `RetryPolicy`. |
| `Sitting` | One attempt being taken: page, connection, handlers. |
| `Integrity` | Reports of one sitting and the attempt's integrity record. |
| `Submissions` | Works, peer reviews and their grades. |
| `Engagement` | The streak and the badges of one learner. |
| `Reminders` | Notices of one learner and the review ladder. |
| `Learning` | `Attempts`, `Integrity`, `Submissions`, `Engagement` and `Reminders` side by side. |
| `*Proofs` | Theorems and their lemmas: of `Pools`, `SaleMoney`, `Settlement`, `EarnBack`, `Disbursement`, `Completion`, `Sitting` and `Learning`. |
| `MC*` | Instances for TLC: model values, functions for constants, symmetry. |

**A step is the code between two awaits.** A request, handler, sweep or worker
is a slot with a local record: `pc` names the await it stands at, the other
fields are the locals it carries over. This is exactly the interleaving of
Node's event loop with several API processes on one database. A transaction is
one action. `createMany`/`updateMany` with a guard is one action with a
disjunct for "matched" and one for "matched nothing".

**A failure** ends a slot wherever it stands: a rejected await, or the death
of its process. What it had written stays. Each module bounds failures by
`MaxAborts` or `MaxFails`. `Sitting` counts lost requests and answers, outages
and crashed tabs the same way; `Integrity` counts lost reports, lost answers and
failed handlers, while its page may be left, reloaded or crash, and be resumed,
at any time and any number of times.

**What overlaps** is not restricted anywhere: no module assumes that requests of
one kind, one row or one learner exclude each other, since nothing in the code
does. Where the code does not keep a promise then, the property says which
write breaks it, by a *history variable* that the actions only record and never
read: `reopened` (a checkout wrote its stale status over a settled order),
`doubt` (the payment of a row may be asked for again), `peak` (the highest
percentage any report had), `stale` (an attempt started beside another, or
finalised or graded twice), `gone` (events that went with a page), `doubled`
(learners who looked at their reviews twice at once).

**Events** are in-process and not stored: emission starts the handlers, and
dies with the process.

Correspondence, module by module:

- `Settlement` models one learner and one entity (other pairs share no row).
  `CheckoutStart/Price/Find/Write/Open/SaveRef` is `initCheckout`; `Webhook*` and
  `Verify*` are the two ways to `settleOrder` (`SettleRead`, the transaction
  `SettleCommit`, then `SettleEnqueue`, `SettleEnrol`, `SettleAnnounce`). The
  price, percentages and deadline a checkout freezes are one value of `Terms`.
  Signature checks and payload parsing are the gateway's steps. Checkouts are
  bounded by the number of `Sessions`.
- `Pools` keeps integers: amounts are minor units as in the code, percentages
  whole. `RoundPct` is `Math.round`, `FloorPct` `Math.floor`.
- `Completion`: rows of lessons and of entities are written by the same
  find / create / conditional flip / update pattern in the code, so by one set
  of actions here. `FindStatus` is the end of the computation and the look-up
  in `persistCompletion`; the parallel queries of `Promise.all` are two reads
  in any order. The order of the courses of a path is fixed but arbitrary. A
  request keeps the row it read (`saw`): that is what makes its write stale.
- `EarnBack` has one order per learner and entity. `Due` is the sweep's page:
  any `Take` of the due orders, as the query has no order. Time moves over a
  set of `Instants`; a deadline is days since payment.
- `Disbursement` models both workers as one shape. Which of the two runs, whether
  the provider replays a repeated key (Stripe), refuses it (a Paystack transfer)
  or gets none (a Paystack refund), and whether the queue is BullMQ or in-process,
  is the `flow`, chosen at the start (`Flows`): every combination the code can be
  deployed with is in the one run. `payable` are the rows the refund worker does
  not return from at once (an amount above zero, a charge to refund). BullMQ's
  retention (the last 1000 finished jobs) is `Evict`, which may happen at any time
  or never. A call that the provider accepts (a 2xx) counts as money moved: what
  becomes of a transfer after it, which the API learns of by no webhook, is
  outside the model. Rows meet in the account, the slots and the bulk run only.
- `RetryPolicy` folds the list of tries into the current window, as the loop in
  `computeRetryState` does; `CanRetry` is its verdict. Times are units.
- `Attempts`: a request of the learner is `startOrResume` (`Start`,
  `CheckEligible`, `Create`), a save (`Load`, `Save`) or anything that finalises
  (`Load`, `Finalize`, `Tell`). `Finalize` writes by id, whatever the row has
  become, and so does `Save`: one that read the attempt before it was finalised
  puts the map without `pendingManual` back (`attempts.service.ts:576`). `told` is
  the history of `AttemptSubmitted` events of an attempt, and `tainted` remembers
  that it was ever invalidated. Whether prerequisites are met is a free choice.
  `InOrder` is the sort of `computeRetryState`; rows submitted at one time are
  taken in the order of their creation, which only fixes what their times, all
  the code looks at, leave open.
- `Sitting`: `Choose` is `setAnswer` with `persistAnswer`; `Sweep`, `Reconnect`
  and `FlushSettles` are the flush of the queue; `DoSubmit`, `TimeUp` and
  `SubmitSettles` the submit with its guard; `Crash` and `Resume` a reload.
  Handlers read (`Load`) and later write (`Save`, `Finalize`) the whole answers
  map of the row. A request given up by the page may still be handled. Requests
  take the free slot of the smallest number, so that slots carry no identity.
- `Integrity`: `Observe` and `ObserveCamera` are the detectors, `FlushBuffer`
  the report; `Accept`, `Insert`, `Recompute`, `Update` are `ingestAntiCheat`
  (a snapshot goes the same way); `Finalize` and `Commit` are the part of the
  attempt's finalisation that reads the logs, with the fast answers it adds, and
  writes the record. The buffer is the page's memory: `Leave` is an unmount, whose
  last flush sends it, `Unload` a reload, a closed tab or a crash, which loses it,
  `Resume` the attempt taken up by a new page. A page that went quiet (its
  `submitted`) still holds its buffer and reports nothing more. Nobody looks at
  the answers of the camera's reports. A report of more than `MaxBatch` events is
  refused, and requeued (100 in `attempts.dto.ts:97`). Only tab switches are
  counted by the page; the limit of exits is 2 and is the API's. One finalisation
  is modelled at a time; two, as in `Attempts`, would write the same fields again.
- `Submissions`: requests of any learners at once, one learner's too, split at
  their awaits. `Candidates` and
  `Assign` are the lazy assignment in `listMyReviews`, `MarkDone` to
  `GradeByPeers` is `submitReview`.
- `Engagement`: one handler per learning event. The serializable transaction
  is `Begin` and `Commit`; `Conflict` is its rejection when the row changed.
- `Reminders`: `Start` is what a sweep reads, `Claim` the insert under the
  unique key, `Compose` the call to the model, then `Deliver` and `Advance`,
  review by review. Other sweeps differ in which of these steps they have.

## Runs

| Run | Instance | What it shows |
|---|---|---|
| `settlement_safe` | 2 requests, 2 orders, 2 sessions, terms that owe a payout and an escrow, 1 edit (the content becomes free), 1 failure, every interleaving | One payout for each time a sale was settled; one lost job a failure at most; the abstract life cycle |
| `settlement_live` | 2 requests, 1 order, 2 sessions, 2 terms, 1 price edit, every interleaving, no failure, fair | Nothing without a charge; a paid charge unlocks and queues its payout |
| `settlement_two_payouts` (violation) | 2 requests, 2 orders, 2 sessions, no failure | A checkout that looked its order up before it was settled writes it back to pending: it is settled, and owed, twice |
| `sale_money` | every small price, the platform's rates, 52 days | Conservation, the exact deduction, lateness never pays, and what the ledger calls the sale |
| `completion` | 1 lesson with quiz, course, path with final; 3 requests, 2 at once, of one lesson too; 1 invalidation, 1 failure | Only a stale report lowers anything, only flips told, certificates stand for work, met ends certified |
| `completion_revoked` (violation) | the same with no invalidation and no failure | Two overlapping reports of a lesson: the one that read first takes the completion back |
| `earnback_safe` | 1 order, escrow 0, 1 or 25, 6 instants round the boundaries, 2 resolvers, 2 deadline requests, 1 failure | One resolution, to the last unit, never below what completing earned; deadline moves once and earlier; implements `Escrow` |
| `earnback_live` | 2 orders, page of 1, no failure, fair | Every escrow resolved, every outcome delivered |
| `payouts` | every flow (payout or refund, provider, queue), 1 row, 2 slots, 2 attempts, 2 retries, bulk runs, lost answers, 1 failure, fair | Money once, except an unkeyed refund in doubt; processed means paid and is final but for a retry; slots meet on retried rows only; held rows are attempted |
| `sitting` | 1 question, 2 choices, 2 changes of mind, 2 requests at once, timed and untimed, 2 faults, fair | What was chosen is restored, a timely submit is graded on what it carried, the attempt ends, the queue drains |
| `sitting_late_save` (violation) | the same with 2 questions | A save that reaches the API after the time limit finalises the attempt before the submit that travels beside it |
| `learning` | 3 attempts, 2 tries a window, spacing 1, lockout 3, limit 1, 6 instants, 2 requests at once, 1 grader, 1 review | Attempts that were started one by one keep to the policy; an outcome is told once and stands |
| | 3 events (a tab switch, a copy, the camera's failure) and a fast answer, 2 reports at once, 1 event a report, pages that go and return | Nothing observed is forgotten but with its page; an attempt that was not watched says so |
| | 3 learners and the creator, 1 author, 2 rows, 2 reviews required, 2 requests at once | Peers grade on enough reviews, and then do |
| | 4 days, 2 handlers, 1 lesson, milestone 2, one freeze, 1 move west | The streak counts days, each once; badges earned are held |
| | 4 days, week of 3, 2 sweeps, 2 reviews, ladder of 2, one review a digest | Notices and coachings once; reviews climb rung by rung |

`learning` is five checks in one run: the five components share no state, and
`part`, chosen in the initial state, says which of them a behaviour is about,
with one failure each (module `Learning`, which `MCLearning` instantiates). So no interleaving between them is explored, and none
exists in the code. The type invariants of `Settlement`, `EarnBack`,
`Disbursement` and `Completion` are theorems and so need no run of their own;
those of the learning components are the invariant `TypesOK`.

Why these bounds suffice to be interesting: two slots give every race of two
actors and a third would only repeat one of them (each row is guarded by its
own state); two orders or rows are needed exactly where two of them can meet (two pending
orders, the sweep's page), and one row of `Disbursement` is enough because rows
meet only in what it has already, two slots and the account; one failure anywhere is
one more than the code repairs. `SessionLeft` and `MaxRequests` cap how often
a learner starts something: a second checkout, and a third request, are what
reach the races. Instants include the day of the deadline, the one after it
and both sides of the fiftieth day. In `Attempts` the third attempt is the first
that a full window concerns, and six instants hold a lockout with an attempt on
each side. Two overlapping requests there have no end of combinations, so that
`MCLearning` cuts them short by a constraint, `OverlapsAreShort`: one request at a
time is followed through all attempts and instants; from where two are under way,
or an attempt was written too late, behaviours are followed to the second attempt
and the third instant. The theorems about `Attempts` have no such cut. Requests,
reports, handlers and sweeps are interchangeable (`Symmetry`); the run checks no
liveness. In `Integrity` a report of one event is accepted and one of two is
refused (`MaxBatch = 1`), which takes a buffer of two; exits from the full screen
are not instantiated, they differ from switches in who counts them. In `Sitting` two requests at once are a save and the
submit, and the second fault is the one that hits a recovery. In `Engagement`
four days hold a milestone, a missed day that a freeze bridges, and one that it
does not. In `Reminders` a sweep ends before the next day's hour (it would have
to take most of a day otherwise), and deadline notices, which have the digest's
steps without reviews, are not instantiated. Where the proofs cover a property the
bound no longer matters. In the settled sale, counters that the properties
only compare with one are cut at two.

Deadlock is not checked: every bounded world ends (all requests used, all
orders resolved), and nothing here waits on a lock.

**Fairness** is weak and only on slots that have begun (the event loop resumes
a resolved await), on the cron (a sweep starts again and again) and, in `payouts`, on the queue's
slots and on the admin's bulk run, whose repetition is what the code's comment
on held payouts relies on; that there is an account is the property's premise. In `Sitting` the page's timers fire, a
connection comes back, a request that is not lost is handled and answered, and
one caught by an outage is given up. Learners, gateways, price edits,
invalidations and failures have none. The learning components have no liveness
property: what must happen is stated of the states in which nothing is under
way and nothing failed (`PeersGradeOnEnough`, `EarnedBadgesHeld`,
`NoticesOnce`), because the code repeats none of it.

## Proofs

TLAPS proves, for every value of the constants:

- `SettlementProofs`: `TypeCorrect`, from the inductive `Typed`: types alone
  are not inductive, since what a request writes is what it carries
  (`LocalKnown`) or reads (`RowsKnown`). `NothingUnpaidIsHandedOut`, with no
  assumption on interleavings, from `ChargeInv`: whoever is past the gateway's
  answer has a successful charge of its order behind it (`Backed`), and so has
  whatever was handed out (`MoneyBacked`). Nor do the others assume any:
  `OnePayoutPerSale` rests on `SaleInv = Typed /\ SalePayoutOnce`, where the
  stale write that reopens a settled order pays for the second row;
  `JobsLostByAbortsOnly` on `JobsInv`: the payout rows without a job
  are finite in number and at most the requests that were cut short; and
  `SalesImplemented` on `Typed`: each step is one of `SaleLifecycle`, its reopening
  among them, or a stutter of what that sees (`Sales`, `Owing`, `Holding`).
- `SaleMoneyProofs`, on the lemmas of `PoolsProofs` (bounds and monotonicity
  of a rounded percentage, conservation of a split, the cap at the fiftieth
  day): `NoMoneyLostAtCheckout`, `NoMoneyLostAtResolution`, `LaterNeverPays`,
  `DeductionIsExact`, `LedgerIsRight`.
- `EarnBackProofs`: `TypeCorrect`, `OneResolution`, `CreatorPaidTheCut` (from
  `IInv = Typed /\ ResolvedOnce /\ ForfeitMatchesRow`: the row, the status and
  the payout change in one transaction), `DeadlineOnlyShortens`, and
  `Implements`: every step is a distribution of `Escrow` or a stutter. No
  assumption beyond the types of the constants: resolution is safe under every
  interleaving. `RefundEarned` adds what a resolver holds: the deadline it
  computes with may have been moved since, but only to an earlier day, which
  by `DaysLateMonotone` can only raise what it refunds above what is earned
  now; and a sweep holds orders that had lapsed, grace and all, which they stay
  (`Fits`, `FairRows`).
- `DisbursementProofs`, for either worker, every provider, both queues and any
  number of retries: `TypeCorrect`, `NothingProcessedUnpaid`, and from
  `Steady = TypeOK /\ Exclusive /\ Issued /\ AdminRetried /\ StillUnpaid` the two
  about who works on a row: `JobIdsExclude` (a busy slot holds its active job
  alone, `Exclusive`, and a row has as many job ids as it was retried, `Issued`)
  and `ProcessedStays` (what a slot read of a row that was never retried is
  still so, `StillUnpaid`). `MovedAtMostOnce` rests on
  `MoneyInv = TypeOK /\ Exclusive /\ KeyedOnce /\ NoBulkRefund /\ UnkeyedOrderly`.
  Where the call carries a key the provider keeps money from moving twice. An
  unkeyed refund has the queue and the look at the row alone: while nothing about
  a row is in doubt, one job of it is at work, a payment is recorded or about to
  be, and whoever may still pay has not (`Orderly`).
- `CompletionProofs`: `TypeCorrect`, from `Typed`, the types with the direction
  of the content (what a request computes of a row is of the rows below it).
  `AnnouncedByTheFlip` follows from it: the event is emitted where the
  conditional update matched. The other two hold of overlapping reports as well.
  `OnlyStaleReportsLower` rests on `Reported`: whatever a report read of its
  lesson (`Ready`) and whatever the row says (`Stands`) is covered by the highest
  percentage anybody reported and, if complete, by its quiz, unless something was
  invalidated; so a report whose read is not stale cannot lower the row.
  `CertificatesAreEarned` rests on `Certified`, which adds that a flag has its
  certificate (`Flagging`) and, while nothing is invalidated, that what a view
  holds is still so and what it counts as complete is earned (`Held`), and
  with it whatever the handlers certify (`Backed`); `MetStaysMet` is the lemma
  that nothing which was met is lost. Stale reads are harmless because they
  can only be too low.
- `SittingProofs`, from one invariant, `SInv`: the page shows what was chosen
  while it is open (`PageFits`), nothing in memory, queued, under way or saved
  answers a question that the learner left blank (`CallsFit`, `RowFits`), so
  that the mirror put over the server's copy hides all of it after a reload:
  `CrashRestores`. A finalisation in time is a submit's and grades what that
  carried over the older copy: `GradedOnASubmit`. `SittingTyped` are the types.
- `LearningProofs`, one invariant for each component of `Learning`:
  - `NoticesAreSentOnce` and `ReviewsClimb`: a claim is held by one sweep at a
    time, because the insert is under the unique key, and while a sweep
    may still advance a review, it knows its rung (`Reads`).
  - `UnmonitoredStaysKnown`: once the failure of the monitor is logged, the row
    says so or a handler that will make it say so is under way (`Admitted`), and
    no older recompute can unsay it. `EventsGoWithPages` follows events from the
    buffer to the log (`Kept`, `Carries`, `Logged`): only with the memory of a
    page are they gone.
  - `BadgesAreHeld`, from `Earns`: what is earned is held, or some handler is at
    a step that will award it.
  - `StreaksCount` (`StreakCountsDays`), from `StreakInv`. `Made` says what the
    row is made of: its streak is the last days that moved it, from some day `f`
    on, and the freezes spent on the gaps since and those still banked are at
    most the milestones of this streak and of all days before it. That sum of
    two quotients is needed because the quotient of all days, which the property
    has, does not grow with every milestone. `RaceInv` is about the retry: a
    handler that was beaten to the row once is not ahead in time of the one
    that may beat it again (`Behind`), so if it is, its day was counted or
    passed (`Beaten`). It holds of two handlers, which the property is about.
  - `PeersGradeRight`, from `WorkInv`: reviewers of a work are not its author, and
    differ unless they are among those who looked twice at once (`Proper`,
    `Apart`), nobody holds a count that is too high (`Informed`), and
    once enough reviews are in, the work is graded or a request is at a step
    that will grade it (`Attended`).
  - `OutcomeStands` (`GradeStands`), from `OutcomesInv`: of an attempt that was not
    written too late, who is about to tell an outcome has the one of the row
    (`Heard`), and is the only one who is (`Sole`), be it its finalisation or an
    instructor. The second of two finalisations, or grades, makes it `stale`
    (see below what the code does then).
  - `RetriesKeepPolicy` (`RetriesWithinPolicy`), for any policy, any number of
    attempts and however many starts overlap, of the attempts that none did.
    It has two halves. `RetryKeepsPolicy` is about the calculator alone: of any
    list of times, what `CanRetry` lets through keeps its distance from the last
    try and, when a window is full, from the try that opened it. It rests on
    `WindowWalked`: the window is the end of the list, and a lockout separates it
    from what came before. `PolicyInv` carries that over to the rows: attempts
    follow each other (`Follows`), each was allowed when it began by those of the
    earlier that were never invalidated (`Allows`), and of a start that is past its
    check the policy still allows what it saw (`Granted`, `AllowsStill`: time only
    helps), so that its row is stale or follows all there are. Taking invalidated tries out
    of the middle of the list shifts the windows, which is why `Allows` counts
    the tries that lie within a lockout of `now` and does not speak of windows.
  - `RetryIsNotWithheld` and `RetryIsOffered` are the other side, and need no
    assumption on how requests overlap: a learner who has not passed, whose tries
    are all graded and who has waited a cooldown, and a lockout unless tries are
    left, may start, whatever was held, graded late, invalidated or accepted
    before. The first is about `CanRetry` and any list of times, the second about
    every reachable state (`CountedTimes`: the times that the calculator is given
    are those of the counted attempts). That the learner does then get a row is
    liveness and not claimed.
  - `LearningTyped` (`TypesOK`), from `TypesInv`. It adds to
    the types what a request carries over its awaits: the row it is about to write
    is there (`Bound`, `Placed`), and whoever is about to hand work in may
    (`Placed`). That no tally exceeds two rows an event is `CountBounded`.

`Window` and the fold in `Count` are recursive functions: that a function
satisfying such a definition exists, and what it computes, is shown in each case
by the least input at which it would fail (`SomeLeast`, from the library's
well-foundedness of the naturals; `WindowsExist`, `CountsExist`, `Walked`,
`CountBounded`).

Constants are constrained by the named `ASSUME` of their module only, and no
theorem assumes that anything excludes anything.
Sets that are counted are finite (learners, handlers at once, and the events of a
sitting, each of which the model counts once); a badge is for one lesson or one
day at least, as `badge.definitions.ts` has it.

Model-checked only:

- *Liveness* (`PaidIsDelivered`, `EscrowResolved`, `OutcomeDelivered`,
  `HeldIsAttempted`, `ReachedIsCertified`, `TimedAttemptEnds`, `QueueDrains`):
  fairness and `ENABLED` are out of the prover's reach.

Every invariant and action property of the passing runs is stated by a theorem.

## What the models say about the code

Three runs end in a violation that contradicts the code's own comments; each is
a finding in `PROJECT.json`. The rest was met while modelling and follows from
the same interleavings; no run is kept for it, because a passing property
covers more of the system.

*Payments*

- A lost completion event (or a failed handler) holds an escrow for ever: the
  sweep skips a completed learner (`earn-back.service.ts:98`), where the
  comment promises that money can never be stranded. So `EscrowResolved` is
  checked without failures.
- On BullMQ a payout held for want of an account is not attempted by the next
  bulk run: its job id is still remembered (`admin-payouts.service.ts:166`).
  `HeldIsAttempted` is checked on the in-process queue, which forgets it.
- Two checkouts at once each create a pending order (`payments.service.ts:79`),
  and both can be paid. Each keeps to the life cycle: the learner pays twice and
  the instructor is owed twice, for one enrolment.
- A charge that succeeds after the callback marked its order failed: the
  update matches nothing, the code takes it for a lost race, enrols, and
  leaves the order failed without a payout (`payments.service.ts:369`).
- Webhook and callback together announce `PaymentConfirmed` twice (`:408`).
- A second checkout re-freezes the terms of a pending order whose first
  session can still be paid at the old price (`:136`).
- A crash after the settling transaction leaves a paid order that nothing
  enrols (`:347`).
- The loser of a resolution race finds the winner's row and tells the learner
  again (`earn-back.service.ts:180`).
- A deadline request that read the order before its resolution still moves its
  deadline (`earn-back-deadline.service.ts:90`).
- On an escrow of one unit rounding forfeits all before day fifty and the
  ledger calls it a missed deadline (`earn-back-ledger.calculator.ts:120`);
  `LedgerTellsLateness` says what it does tell.
- A retry that read a payout before it was processed reopens it
  (`admin-payouts.service.ts:182`), which is why `ProcessedIsFinal` excepts rows
  that were retried, and a retry is a second job of the row beside a first that
  may be at work, so `OneWorkerPerRow` excepts them too.
- A Paystack refund carries no idempotency key (`paystack.adapter.ts:154`): it is
  paid twice when its answer is lost, or its worker dies after the call, or an
  admin retries it meanwhile. `DisbursedOnce` allows it for rows in such doubt and
  for no other.
- "The first verified account an instructor adds becomes the default"
  (`payout-account.service.ts:84`) fails when an unverified Stripe row exists,
  which the count includes; two first accounts at once are both the default;
  a failure between the deletion of the default and the promotion of the next
  (`:165`) leaves none.
- `incr` sets the expiry by a second call; if that fails, the counter never
  expires, where a comment says that a broken counter must never lock a user
  out (`redis-cache.adapter.ts:77`).

*Completion*

- `completion_revoked`: two reports of one lesson at once, the older read wins,
  the watched percentage falls (`completion.service.ts:301`) and a completion is
  taken back, where the comment says that it is never revoked.
  `LoweredByStaleOnly` says that nothing else does so.
- Two views of a course can each persist: the staler one takes a completion
  back, the next view announces it again, and two certificate handlers that
  both find none create two (`certificates.service.ts:46`).
- `code` lessons need 100% for their own completion but `minVideoWatchPct` for
  their course's (`completion.service.ts:226`, `:446`).
- Completion is computed when somebody looks: a learner who finished
  everything but opens no progress view after a grader's last pass is, to the
  sweep, not complete (`completion.service.ts:530`, `earn-back.service.ts:98`).

*Attempts*

- `sitting_late_save`: a save that is handled after the time limit, beside the
  submit of the same page, finalises the attempt with the server's copy of the
  answers merged with that one answer (`attempts.service.ts:557`), and the submit
  is returned that score (`:734`). It needs no outage: an online save that is
  late is enough.
- `saveAnswer` and `finalize` write the whole answers map by id: two saves at
  once lose one answer until the submit carries it again, and a save that was
  read before `finalize` overwrites the graded map, so that the review no
  longer matches the score (`attempts.service.ts:841`). `ScoreIsOfASubmit`
  therefore speaks of the map that was graded.
- Two `startOrResume` at once create two attempts (`:448`), and two
  finalisations, or two manual grades, at once announce two outcomes (`:877`):
  `GradeStands` and `RetriesWithinPolicy` are checked, and proved, with all these
  overlaps, and speak of the attempts that none of them wrote (`stale`).
- A save that read the attempt before it was finalised for manual grading drops
  `pendingManual` from the answers (`:576`). The attempt keeps no outcome, its
  manual grading is refused, and eligibility, which asks the same map, lets the
  learner start again.
- Overlapping recomputes leave a stale number of flags in the record, where a
  comment says that it reflects all of them (`:868`); only the failure of the
  monitor survives every order, which is what `UnmonitoredIsKnown` says.
- That failure is reported once, and a report that fails, or comes after the
  submit, is dropped (`camera-monitor.tsx:200`). Events still buffered when
  the page goes quiet are not reported (`use-anti-cheat.ts:48`), and a report
  whose answer is lost is logged twice.
- A page that is reloaded, closed or crashes before the submit takes its buffered
  events with it, while the attempt goes on and is resumed
  (`use-anti-cheat.ts:40`): `EventsKept` excepts these (`gone`) only.
- More than 100 events buffered, by an outage for example, are refused
  (`attempts.dto.ts:97`) and requeued, and refused again with whatever joined
  them, until the page goes: nothing of that page reaches the log any more.

*Projects, engagement, reminders*

- Two overlapping views of the reviews by one learner both find no assignment and
  assign the same work twice (`submissions.service.ts:416-440`; no unique index,
  `schema.prisma:1002-1015`), and both reviews count (`:519`).
  `PeersGradeOnEnough` asks for different learners unless one of them did so.
- Two last reviews at once may both aggregate, and `ProjectGraded` fires twice
  despite "first (and only)" (`submissions.service.ts:548`). `Submissions`
  bounds neither.
- A draft may be rewritten while it is under review, two tabs create two
  submissions, and a resubmission after a failure may find every possible
  reviewer already used.
- The streak's transaction is retried once: a third event at once, or a move of
  timezone between, loses the day, and nothing awards badges then. A handler
  that stalls over midnight counts its event for the day it read. Two handlers
  can announce one badge twice (`engagement.events-handler.ts:299`).
- A crash after the claim loses the notice, where the controller says that a
  missed run is recovered by the next (`sweeps.controller.ts:62`); for coaching
  it leaves an empty row that blocks the week. `NoticesOnce` promises delivery
  without failures only. A cohort whose start is moved sends a second kickoff,
  since the key holds the start day.
- A sweep that lasted most of a day could write back an older rung; the model
  excludes it.
- Drop-off: the alert is looked up, sent and recorded without a unique key, so
  two sweeps can both alert a member of staff (`dropoff.service.ts:152`, "one
  alert per staff member per cohort per UTC day"). The cron lock in front of it
  fails open and the HTTP trigger takes none.
- Grouping: two generations at once leave two complete sets of groups, and two
  moves at once put a learner into two, where a comment says one group per
  learner per cohort (`grouping.service.ts:357`).

## Plan

1. *Compositions*: `Completion` with `EarnBack` (the event and the status the
   sweep reads, instead of the environment's `Complete`); `Settlement` with
   `EarnBack` (two orders of one learner); `Attempts` with `Completion`
   (`AttemptSubmitted` and invalidation instead of its free grading).
2. *PayoutAccounts*: default and verified accounts, delete then promote, with
   the workers that look the default up.
3. *Proofs*: the safety properties of the runs are theorems; what is left is to
   prove about the modules under 1 and 2.

The number of runs is kept small: a later run replaces a violation run, whose
divergence then moves to the list above.

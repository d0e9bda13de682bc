---------------------------- MODULE Disbursement ----------------------------
(***************************************************************************)
(* Money going out: the rows the settlement and the Earn-Back write, the   *)
(* queue's jobs about them, the worker that asks the provider to move the  *)
(* money, and the admin who runs and retries them.  Two workers have the   *)
(* same shape: instructor-payout.worker.ts transfers InstructorPayout rows *)
(* to the instructor's default account, earn-back.worker.ts refunds        *)
(* EarnBackTransaction rows to the card that paid.  Which of the two runs, *)
(* with which provider and on which queue is fixed at the start ("flow").  *)
(***************************************************************************)
EXTENDS Naturals, FiniteSets

CONSTANTS
  Rows,          \* rows to disburse, all of one instructor
  Workers,       \* the slots of the queue's worker ("concurrency: 2")
  Attempts,      \* "attempts: 5" of a job
  MaxRetries,    \* bound on the admin's retries of a row
  MaxFails       \* bound on crashes and rejected awaits

ASSUME DisbursementAssumption ==
  Attempts \in Nat \ {0} /\ MaxRetries \in Nat /\ MaxFails \in Nat

VARIABLES
  flow,     \* what is disbursed, by which provider, from which queue
  payable,  \* rows with an amount and, for a refund, the charge to refund
  row,      \* row[r]: its status
  moved,    \* moved[r]: how often the provider moved the money (counted to 2);
            \* a call that it accepted has, what its transfer comes to is not kept
  account,  \* the instructor has a default, verified account
  job,      \* job[j]: what the queue holds under job id j
  worker,   \* worker[w]: what slot w is doing
  admin,    \* the admin's retry of one row
  bulk,     \* rows the admin's bulk run has read and not enqueued yet
  retries,  \* retries[r]: the admin's retries of r so far
  fails,
  doubt     \* history: rows whose payment may be asked for again, since the
            \* answer was lost, or paid and not recorded, or since the row was
            \* retried while it was processed or a job of it was to run

fixedVars == <<flow, payable>>
vars == <<row, moved, account, job, worker, admin, bulk, retries, fails, doubt,
          fixedVars>>

\* A payout goes to an account the instructor sets, a refund does not.  Given
\* an idempotency key again, Stripe replays its answer and Paystack refuses
\* the transfer; a Paystack refund carries no key.  The queue is BullMQ
\* (durable) or in-process.
Flows ==
  {f \in [account : BOOLEAN, gateway : {"refuse", "replay", "unkeyed"},
          durable : BOOLEAN] :
     f.gateway # IF f.account THEN "unkeyed" ELSE "refuse"}

\* Job ids: "payout-<id>", and one per retry ("payout-retry-<id>-<time>").
JobIds == Rows \X (0..MaxRetries)
Stable(r) == <<r, 0>>

NoJob == [state |-> "none", left |-> 0]
Fresh == [state |-> "waiting", left |-> Attempts]
Jobs == [state : {"none", "waiting", "active", "done"}, left : 0..Attempts]

Idle == [pc |-> "idle"]
Busy == [pc : {"read", "account", "pay", "record", "return"},
         job : JobIds, paid : BOOLEAN]
AdminIdle == [pc |-> "idle"]

TypeOK ==
  /\ flow \in Flows /\ payable \subseteq Rows /\ doubt \subseteq Rows
  /\ row \in [Rows -> {"pending", "processed", "failed"}]
  /\ moved \in [Rows -> 0..2]
  /\ account \in BOOLEAN
  /\ job \in [JobIds -> Jobs]
  /\ worker \in [Workers -> Busy \cup {Idle}]
  /\ admin \in [pc : {"update", "enqueue"}, row : Rows] \cup {AdminIdle}
  /\ bulk \subseteq Rows
  /\ retries \in [Rows -> 0..MaxRetries]
  /\ fails \in 0..MaxFails

\* The rows are committed; the process may have died before it enqueued some.
\* A payout is written with its amount; an order may have lost its reference.
Init ==
  /\ flow \in Flows
  /\ payable \in IF flow.account THEN {Rows} ELSE SUBSET Rows
  /\ doubt = {}
  /\ row = [r \in Rows |-> "pending"]
  /\ moved = [r \in Rows |-> 0]
  /\ account = ~flow.account
  /\ \E queued \in SUBSET Rows :
       job = [j \in JobIds |-> IF j \in queued \X {0} THEN Fresh ELSE NoJob]
  /\ worker = [w \in Workers |-> Idle]
  /\ admin = AdminIdle
  /\ bulk = {}
  /\ retries = [r \in Rows |-> 0]
  /\ fails = 0

----------------------------------------------------------------------------
(* The queue                                                               *)

\* Mutant: a job id is enqueued whatever the queue holds under it.
EnqueueAlways(j) == job' = [job EXCEPT ![j] = Fresh]

\* Mutant: a job id is enqueued once.
EnqueueOnce(j) ==
  IF job[j].state # "none" THEN UNCHANGED job
                           ELSE job' = [job EXCEPT ![j] = Fresh]

\* BullMQ ignores an id it still holds, finished jobs included ("removeOn-
\* Complete: 1000"); the in-process queue one that waits or runs.
Enqueue(j) ==
  IF \/ job[j].state \in {"waiting", "active"}
     \/ flow.durable /\ job[j].state = "done"
  THEN UNCHANGED job
  ELSE job' = [job EXCEPT ![j] = Fresh]

\* A finished job leaves the 1000 that BullMQ retains.
Evict(j) ==
  /\ flow.durable
  /\ job[j].state = "done"
  /\ job' = [job EXCEPT ![j] = NoJob]
  /\ UNCHANGED <<row, moved, account, worker, admin, bulk, retries, fails,
                 doubt, fixedVars>>

\* The in-process queue runs one job at a time.
Take(w, j) ==
  /\ worker[w] = Idle
  /\ job[j].state = "waiting"
  /\ flow.durable \/ \A v \in Workers : worker[v] = Idle
  /\ job' = [job EXCEPT ![j].state = "active"]
  /\ worker' = [worker EXCEPT ![w] = [pc |-> "read", job |-> j, paid |-> FALSE]]
  /\ UNCHANGED <<row, moved, account, admin, bulk, retries, fails, doubt,
                 fixedVars>>

----------------------------------------------------------------------------
(* The worker                                                              *)

At(w, pc) == worker[w].pc = pc
RowOf(w) == worker[w].job[1]

Goto(w, pc) == worker' = [worker EXCEPT ![w].pc = pc]

\* The handler returns: its job is completed.
Finish(w) == /\ job' = [job EXCEPT ![worker[w].job].state = "done"]
             /\ worker' = [worker EXCEPT ![w] = Idle]

\* Mutant: the row's status is not looked at.
ReadRowBlind(w) ==
  /\ At(w, "read")
  /\ IF RowOf(w) \notin payable
     THEN Finish(w)
     ELSE Goto(w, IF flow.account THEN "account" ELSE "pay") /\ UNCHANGED job
  /\ UNCHANGED <<row, moved, account, admin, bulk, retries, fails, doubt,
                 fixedVars>>

\* "if (payout.status === "processed") return; // idempotent", and return if
\* there is nothing to pay or no charge to refund.
ReadRow(w) ==
  /\ At(w, "read")
  /\ IF row[RowOf(w)] = "processed" \/ RowOf(w) \notin payable
     THEN Finish(w)
     ELSE Goto(w, IF flow.account THEN "account" ELSE "pay") /\ UNCHANGED job
  /\ UNCHANGED <<row, moved, account, admin, bulk, retries, fails, doubt,
                 fixedVars>>

\* "None yet -> leave pending": the row is held, and its job is completed.
FindAccount(w) ==
  /\ At(w, "account")
  /\ IF account THEN Goto(w, "pay") /\ UNCHANGED job ELSE Finish(w)
  /\ UNCHANGED <<row, moved, account, admin, bulk, retries, fails, doubt,
                 fixedVars>>

\* The provider has moved money under this row's key.
KeySeen(w) == moved[RowOf(w)] > 0

\* createTransfer or createRefund: "moved" counts the calls the provider
\* accepted (what becomes of an accepted call later is the provider's).  An
\* answer that is lost, or an error, is caught by the adapter and reported as
\* failed.
Pay(w) ==
  LET r == RowOf(w)
      fresh == ~KeySeen(w) \/ flow.gateway = "unkeyed"
  IN  /\ At(w, "pay")
      /\ \E moves, paid \in BOOLEAN :
           /\ moves => fresh
           /\ paid => \/ moves
                      \/ ~fresh /\ flow.gateway = "replay"
           /\ moved' = [moved EXCEPT ![r] = IF moves /\ @ < 2 THEN @ + 1 ELSE @]
           /\ doubt' = doubt \cup (IF moves /\ ~paid THEN {r} ELSE {})
           /\ worker' = [worker EXCEPT ![w].pc = "record", ![w].paid = paid]
      /\ UNCHANGED <<row, account, job, admin, bulk, retries, fails,
                     fixedVars>>

\* The handler throws: another attempt, in this slot after a pause (in-process)
\* or as a waiting job again (BullMQ), until there is none left.
Rethrow(w) ==
  LET j == worker[w].job
  IN  IF job[j].left <= 1
      THEN Finish(w)
      ELSE IF flow.durable
      THEN /\ job' = [job EXCEPT ![j] = [state |-> "waiting", left |-> @.left - 1]]
           /\ worker' = [worker EXCEPT ![w] = Idle]
      ELSE /\ job' = [job EXCEPT ![j].left = @ - 1]
           /\ Goto(w, "read")

\* The slots that know of a payment and have not written it down.
Unrecorded == {w \in Workers : At(w, "record") /\ worker[w].paid}

\* An await of the handler other than the provider's call is rejected.
Throw(w) ==
  /\ worker[w].pc \in {"read", "account", "record"}
  /\ fails < MaxFails
  /\ fails' = fails + 1
  /\ Rethrow(w)
  /\ doubt' = doubt \cup (IF w \in Unrecorded THEN {RowOf(w)} ELSE {})
  /\ UNCHANGED <<row, moved, account, admin, bulk, retries, fixedVars>>

\* Mutant: the answer is taken for granted.
RecordAnyway(w) ==
  /\ At(w, "record")
  /\ row' = [row EXCEPT ![RowOf(w)] = "processed"]
  /\ Goto(w, "return")
  /\ UNCHANGED <<moved, account, job, admin, bulk, retries, fails, doubt,
                 fixedVars>>

\* The update is by id, whatever the row has become.
Record(w) ==
  /\ At(w, "record")
  /\ IF worker[w].paid
     THEN /\ row' = [row EXCEPT ![RowOf(w)] = "processed"]
          /\ Goto(w, "return") /\ UNCHANGED job
     ELSE row' = [row EXCEPT ![RowOf(w)] = "failed"] /\ Rethrow(w)
  /\ UNCHANGED <<moved, account, admin, bulk, retries, fails, doubt,
                 fixedVars>>

\* The job is completed after the row: a crash in between runs it again.
Return(w) ==
  /\ At(w, "return")
  /\ Finish(w)
  /\ UNCHANGED <<row, moved, account, admin, bulk, retries, fails, doubt,
                 fixedVars>>

----------------------------------------------------------------------------
(* The admin and the instructor                                            *)

\* runAll: every pending row whose instructor has an account, one by one.
RunAll ==
  /\ flow.account
  /\ bulk = {} /\ account
  /\ \E r \in Rows : row[r] = "pending"
  /\ bulk' = {r \in Rows : row[r] = "pending"}
  /\ UNCHANGED <<row, moved, account, job, worker, admin, retries, fails,
                 doubt, fixedVars>>

RunNext(r) ==
  /\ r \in bulk
  /\ bulk' = bulk \ {r}
  /\ Enqueue(Stable(r))
  /\ UNCHANGED <<row, moved, account, worker, admin, retries, fails, doubt,
                 fixedVars>>

\* retry and retryRefund: any row that is not processed when it is read and,
\* if it is a refund, can be paid.
RetryRead(r) ==
  /\ admin = AdminIdle
  /\ retries[r] < MaxRetries
  /\ row[r] # "processed" /\ r \in payable
  /\ retries' = [retries EXCEPT ![r] = @ + 1]
  /\ admin' = [pc |-> "update", row |-> r]
  /\ UNCHANGED <<row, moved, account, job, worker, bulk, fails, doubt,
                 fixedVars>>

\* A job of the row waits or runs.
Live(r) == \E j \in JobIds : j[1] = r /\ job[j].state \in {"waiting", "active"}

RetryUpdate ==
  /\ admin.pc = "update"
  /\ doubt' = doubt \cup (IF row[admin.row] = "processed" \/ Live(admin.row)
                           THEN {admin.row} ELSE {})
  /\ row' = [row EXCEPT ![admin.row] = "pending"]
  /\ admin' = [admin EXCEPT !.pc = "enqueue"]
  /\ UNCHANGED <<moved, account, job, worker, bulk, retries, fails, fixedVars>>

RetryEnqueue ==
  /\ admin.pc = "enqueue"
  /\ Enqueue(<<admin.row, retries[admin.row]>>)
  /\ admin' = AdminIdle
  /\ UNCHANGED <<row, moved, account, worker, bulk, retries, fails, doubt,
                 fixedVars>>

\* addPaystackAccount: the instructor's first account is verified and default.
AddAccount ==
  /\ ~account
  /\ account' = TRUE
  /\ UNCHANGED <<row, moved, job, worker, admin, bulk, retries, fails, doubt,
                 fixedVars>>

\* The process dies.  BullMQ puts an active job back; the other queue is lost.
Crash ==
  /\ fails < MaxFails
  /\ fails' = fails + 1
  /\ job' = [j \in JobIds |->
               CASE ~flow.durable -> NoJob
                 [] flow.durable /\ job[j].state = "active"
                      -> [job[j] EXCEPT !.state = "waiting"]
                 [] OTHER -> job[j]]
  /\ worker' = [w \in Workers |-> Idle]
  /\ admin' = AdminIdle
  /\ bulk' = {}
  /\ doubt' = doubt \cup {RowOf(w) : w \in Unrecorded}
  /\ UNCHANGED <<row, moved, account, retries, fixedVars>>

----------------------------------------------------------------------------

Handle(w) == ReadRow(w) \/ FindAccount(w) \/ Pay(w) \/ Record(w) \/ Return(w)

Next ==
  \/ \E w \in Workers : Handle(w) \/ Throw(w) \/ \E j \in JobIds : Take(w, j)
  \/ \E j \in JobIds : Evict(j)
  \/ \E r \in Rows : RunNext(r) \/ RetryRead(r)
  \/ RunAll \/ RetryUpdate \/ RetryEnqueue \/ AddAccount \/ Crash

Spec == Init /\ [][Next]_vars

\* The queue runs its jobs, and the admin runs the bulk payout again and again.
FairSpec ==
  /\ Spec
  /\ \A w \in Workers : WF_vars(Handle(w))
  /\ \A j \in JobIds : SF_vars(\E w \in Workers : Take(w, j))
  /\ WF_vars(RunAll)
  /\ \A r \in Rows : WF_vars(RunNext(r))

----------------------------------------------------------------------------
(* Properties                                                              *)

\* No row's money moves twice: the worker is "idempotent, so a lost job is
\* re-driven by admin" (earn-back.worker.ts:22), and the provider gets an
\* "Idempotency key so a retried job never double-pays"
\* (payment-gateway.port.ts:62).  Where a call carries the key that holds
\* whatever is lost, repeated and retried; the Paystack refund carries none,
\* and is made twice only for a row that was in doubt: its answer was lost or
\* not written down, or it was retried too early or too late.
DisbursedOnce ==
  \A r \in Rows : moved[r] > 1 => flow.gateway = "unkeyed" /\ r \in doubt

\* A row that says processed, or that a worker is about to mark processed, was
\* paid by a call that the provider accepted, whichever answer was lost.
ProcessedMeansPaid ==
  /\ \A r \in Rows : row[r] = "processed" => moved[r] > 0
  /\ \A w \in Workers : At(w, "record") /\ worker[w].paid => moved[RowOf(w)] > 0

\* The queue's job ids keep the slots apart: two of them never run one job,
\* and nothing but an admin's retry of the row (whose job has an id of its
\* own) brings two onto one row, where the row that one of them read is not
\* the row it writes.
OneWorkerPerRow ==
  \A v, w \in Workers :
    /\ v # w /\ worker[v] # Idle /\ worker[w] # Idle
    /\ RowOf(v) = RowOf(w)
    => worker[v].job # worker[w].job /\ retries[RowOf(v)] > 0

\* A processed row stays processed, unless it was retried: the worker is
\* "idempotent on the row state" (instructor-payout.worker.ts:23), and only
\* the retry and what follows from it write a row without looking.
ProcessedIsFinal ==
  [][\A r \in Rows :
       row[r] = "processed" /\ row'[r] # "processed" => retries[r] > 0]_vars

\* A payout held for want of an account is attempted once there is one: it
\* "accumulates until Admin triggers a bulk payout" (instructor-payout.worker
\* .ts:19-20), which is to "Re-enqueue every pending payout whose instructor has
\* a default verified account" (admin-payouts.service.ts:132-133).  Only with
\* the in-process queue: BullMQ remembers the job that held the row.
HeldIsAttempted ==
  \A r \in Rows :
    flow.account /\ ~flow.durable /\ account /\ row[r] = "pending"
      ~> row[r] # "pending"
=============================================================================

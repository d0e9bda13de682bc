------------------------- MODULE DisbursementProofs -------------------------
(***************************************************************************)
(* Disbursement, for any number of rows and worker slots, either worker,   *)
(* any provider and either queue: the queue's job ids keep the slots off   *)
(* each other's rows until an admin retries one; what keeps money from     *)
(* moving twice is the provider's idempotency key where the call carries   *)
(* one, and where it does not the worker's look at the row, as long as     *)
(* nothing about the payment was lost.                                     *)
(***************************************************************************)
EXTENDS Disbursement, TLAPS

\* A slot that does something works on a row of its job.
LEMMA Working ==
  ASSUME TypeOK, NEW w \in Workers, worker[w].pc # "idle"
  PROVE  /\ worker[w] \in Busy /\ worker[w].job \in JobIds /\ RowOf(w) \in Rows
         /\ job[worker[w].job] \in Jobs
<1>1. worker[w] \in Busy
  BY DEF TypeOK, Idle
<1>2. worker[w].job \in JobIds
  BY <1>1 DEF Busy
<1>3. QED
  BY <1>1, <1>2 DEF TypeOK, JobIds, RowOf

----------------------------------------------------------------------------
(* Types.                                                                  *)

LEMMA TypeInit == Init => TypeOK
<1> SUFFICES ASSUME Init PROVE TypeOK
  OBVIOUS
<1>1. Fresh \in Jobs /\ NoJob \in Jobs
  BY DisbursementAssumption DEF Fresh, NoJob, Jobs
<1>2. job \in [JobIds -> Jobs]
  BY <1>1 DEF Init
<1>3. /\ flow \in Flows /\ payable \subseteq Rows /\ doubt \subseteq Rows
      /\ account \in BOOLEAN
  BY DEF Init, Flows
<1>6. /\ row \in [Rows -> {"pending", "processed", "failed"}]
      /\ moved \in [Rows -> 0..2] /\ retries \in [Rows -> 0..MaxRetries]
      /\ bulk \subseteq Rows /\ fails \in 0..MaxFails
  BY DisbursementAssumption DEF Init
<1>4. worker \in [Workers -> Busy \cup {Idle}]
  BY DEF Init
<1>5. QED
  BY <1>2, <1>3, <1>4, <1>6 DEF Init, TypeOK

LEMMA GotoTyped ==
  ASSUME TypeOK, NEW w \in Workers, worker[w].pc # "idle",
         NEW pc \in {"read", "account", "pay", "record", "return"}, Goto(w, pc)
  PROVE  worker' \in [Workers -> Busy \cup {Idle}]
<1>1. [worker[w] EXCEPT !.pc = pc] \in Busy
  BY Working DEF Busy
<1>2. QED
  BY <1>1 DEF Goto, TypeOK

LEMMA FinishTyped ==
  ASSUME TypeOK, NEW w \in Workers, worker[w].pc # "idle", Finish(w)
  PROVE  worker' \in [Workers -> Busy \cup {Idle}] /\ job' \in [JobIds -> Jobs]
<1>1. worker[w].job \in JobIds /\ job[worker[w].job] \in Jobs
  BY Working
<1>2. [job[worker[w].job] EXCEPT !.state = "done"] \in Jobs
  BY <1>1 DEF Jobs
<1>3. QED
  BY <1>1, <1>2 DEF Finish, TypeOK

LEMMA RethrowTyped ==
  ASSUME TypeOK, NEW w \in Workers, worker[w].pc # "idle", Rethrow(w)
  PROVE  worker' \in [Workers -> Busy \cup {Idle}] /\ job' \in [JobIds -> Jobs]
<1> DEFINE j == worker[w].job
<1>1. j \in JobIds /\ job[j] \in Jobs
  BY Working
<1>2. CASE job[j].left <= 1
  BY <1>2, FinishTyped DEF Rethrow
<1>3. CASE ~(job[j].left <= 1)
  <2>1. job[j].left - 1 \in 0..Attempts
    BY <1>1, <1>3, DisbursementAssumption DEF Jobs
  <2>2. CASE flow.durable
    <3>1. /\ job' = [job EXCEPT ![j] = [state |-> "waiting", left |-> job[j].left - 1]]
          /\ worker' = [worker EXCEPT ![w] = Idle]
      BY <1>3, <2>2 DEF Rethrow
    <3>2. [state |-> "waiting", left |-> job[j].left - 1] \in Jobs
      BY <2>1 DEF Jobs
    <3>3. QED
      BY <1>1, <3>1, <3>2 DEF TypeOK
  <2>3. CASE ~flow.durable
    <3>1. /\ job' = [job EXCEPT ![j].left = @ - 1]
          /\ Goto(w, "read")
      BY <1>3, <2>3 DEF Rethrow
    <3>2. [job[j] EXCEPT !.left = @ - 1] \in Jobs
      BY <1>1, <2>1 DEF Jobs
    <3>3. job' \in [JobIds -> Jobs]
      BY <1>1, <3>1, <3>2 DEF TypeOK
    <3>4. QED
      BY <3>1, <3>3, GotoTyped
  <2>4. QED
    BY <2>2, <2>3
<1>4. QED
  BY <1>2, <1>3

LEMMA EnqueueTyped ==
  ASSUME TypeOK, NEW j \in JobIds, Enqueue(j)
  PROVE  job' \in [JobIds -> Jobs]
<1>1. Fresh \in Jobs
  BY DisbursementAssumption DEF Fresh, Jobs
<1>2. QED
  BY <1>1 DEF Enqueue, TypeOK

LEMMA PayTyped ==
  ASSUME TypeOK, NEW w \in Workers, Pay(w)
  PROVE  TypeOK'
<1> DEFINE r == RowOf(w)
<1>1. PICK moves \in BOOLEAN, paid \in BOOLEAN :
        /\ moved' = [moved EXCEPT ![r] = IF moves /\ @ < 2 THEN @ + 1 ELSE @]
        /\ worker' = [worker EXCEPT ![w].pc = "record", ![w].paid = paid]
  BY DEF Pay
<1>2. worker[w] \in Busy /\ r \in Rows
  BY Working DEF Pay, At
<1>3. worker' \in [Workers -> Busy \cup {Idle}]
  <2>1. [worker[w] EXCEPT !.pc = "record", !.paid = paid] \in Busy
    BY <1>2 DEF Busy
  <2>2. QED
    BY <1>1, <2>1 DEF TypeOK
<1> HIDE DEF r
<1>4. moved' \in [Rows -> 0..2]
  <2>1. moved[r] \in 0..2
    BY <1>2 DEF TypeOK
  <2>2. (IF moves /\ moved[r] < 2 THEN moved[r] + 1 ELSE moved[r]) \in 0..2
    BY <2>1
  <2>3. QED
    BY <1>1, <1>2, <2>2 DEF TypeOK
<1>6. doubt' \subseteq Rows
  BY <1>2 DEF Pay, TypeOK, r
<1>5. QED
  BY <1>3, <1>4, <1>6 DEF Pay, TypeOK, fixedVars

LEMMA HandleTyped ==
  ASSUME TypeOK, NEW w \in Workers, Handle(w)
  PROVE  TypeOK'
<1>1. CASE ReadRow(w)
  <2>1. worker' \in [Workers -> Busy \cup {Idle}] /\ job' \in [JobIds -> Jobs]
    BY <1>1, FinishTyped, GotoTyped DEF ReadRow, At, TypeOK
  <2>2. QED
    BY <1>1, <2>1 DEF ReadRow, TypeOK, fixedVars
<1>2. CASE FindAccount(w)
  <2>1. worker' \in [Workers -> Busy \cup {Idle}] /\ job' \in [JobIds -> Jobs]
    BY <1>2, FinishTyped, GotoTyped DEF FindAccount, At, TypeOK
  <2>2. QED
    BY <1>2, <2>1 DEF FindAccount, TypeOK, fixedVars
<1>3. CASE Record(w)
  <2>1. worker' \in [Workers -> Busy \cup {Idle}] /\ job' \in [JobIds -> Jobs]
    BY <1>3, GotoTyped, RethrowTyped DEF Record, At, TypeOK
  <2>2. row' \in [Rows -> {"pending", "processed", "failed"}]
    BY <1>3 DEF Record, TypeOK
  <2>3. QED
    BY <1>3, <2>1, <2>2 DEF Record, TypeOK, fixedVars
<1>4. CASE Return(w)
  <2>1. worker' \in [Workers -> Busy \cup {Idle}] /\ job' \in [JobIds -> Jobs]
    BY <1>4, FinishTyped DEF Return, At
  <2>2. QED
    BY <1>4, <2>1 DEF Return, TypeOK, fixedVars
<1>5. QED
  BY <1>1, <1>2, <1>3, <1>4, PayTyped DEF Handle

LEMMA ThrowTyped ==
  ASSUME TypeOK, NEW w \in Workers, Throw(w)
  PROVE  TypeOK'
<1>1. worker[w].pc # "idle" /\ RowOf(w) \in Rows
  BY Working DEF Throw
<1>2. worker' \in [Workers -> Busy \cup {Idle}] /\ job' \in [JobIds -> Jobs]
  BY <1>1, RethrowTyped DEF Throw
<1>3. fails' \in 0..MaxFails
  BY DisbursementAssumption DEF Throw, TypeOK
<1>4. doubt' \subseteq Rows
  BY <1>1 DEF Throw, TypeOK
<1>5. QED
  BY <1>2, <1>3, <1>4 DEF Throw, TypeOK, fixedVars

LEMMA TakeTyped ==
  ASSUME TypeOK, NEW w \in Workers, NEW j \in JobIds, Take(w, j)
  PROVE  TypeOK'
<1>1. [pc |-> "read", job |-> j, paid |-> FALSE] \in Busy
  BY DEF Busy
<1>2. [job[j] EXCEPT !.state = "active"] \in Jobs
  BY DEF TypeOK, Jobs
<1>3. job' \in [JobIds -> Jobs] /\ worker' \in [Workers -> Busy \cup {Idle}]
  BY <1>1, <1>2 DEF Take, TypeOK
<1>4. QED
  BY <1>3 DEF Take, TypeOK, fixedVars

LEMMA CrashTyped ==
  ASSUME TypeOK, Crash
  PROVE  TypeOK'
<1>1. ASSUME NEW j \in JobIds
      PROVE  /\ [job[j] EXCEPT !.state = "waiting"] \in Jobs
             /\ NoJob \in Jobs /\ job[j] \in Jobs
  BY DisbursementAssumption DEF TypeOK, Jobs, NoJob
<1>2. job' \in [JobIds -> Jobs]
  BY <1>1 DEF Crash
<1>3. fails' \in 0..MaxFails
  BY DisbursementAssumption DEF Crash, TypeOK
<1>4. doubt' \subseteq Rows
  <2>1. \A w \in Unrecorded : RowOf(w) \in Rows
    BY Working DEF Unrecorded, At
  <2>2. QED
    BY <2>1 DEF Crash, TypeOK
<1>5. QED
  BY <1>2, <1>3, <1>4 DEF Crash, TypeOK, fixedVars

LEMMA AdminTyped ==
  ASSUME TypeOK,
         RunAll \/ RetryUpdate \/ RetryEnqueue \/ AddAccount
           \/ \E r \in Rows : RunNext(r) \/ RetryRead(r)
  PROVE  TypeOK'
<1>1. CASE RunAll \/ AddAccount
  BY <1>1 DEF RunAll, AddAccount, TypeOK, fixedVars
<1>2. CASE RetryUpdate
  <2>1. admin \in [pc : {"update", "enqueue"}, row : Rows]
    BY <1>2 DEF RetryUpdate, AdminIdle, TypeOK
  <2>2. admin' \in [pc : {"update", "enqueue"}, row : Rows]
    BY <1>2, <2>1 DEF RetryUpdate
  <2>3. row' \in [Rows -> {"pending", "processed", "failed"}]
    BY <1>2, <2>1 DEF RetryUpdate, TypeOK
  <2>5. doubt' \subseteq Rows
    BY <1>2, <2>1 DEF RetryUpdate, TypeOK
  <2>4. QED
    BY <1>2, <2>2, <2>3, <2>5 DEF RetryUpdate, TypeOK, fixedVars
<1>3. CASE RetryEnqueue
  <2>1. admin \in [pc : {"update", "enqueue"}, row : Rows]
    BY <1>3 DEF RetryEnqueue, AdminIdle, TypeOK
  <2>2. <<admin.row, retries[admin.row]>> \in JobIds
    BY <2>1 DEF JobIds, TypeOK
  <2>3. QED
    BY <1>3, <2>2, EnqueueTyped DEF RetryEnqueue, TypeOK, fixedVars
<1>4. ASSUME NEW r \in Rows, RunNext(r) PROVE TypeOK'
  <2>1. Stable(r) \in JobIds
    BY DisbursementAssumption DEF Stable, JobIds
  <2>2. QED
    BY <1>4, <2>1, EnqueueTyped DEF RunNext, TypeOK, fixedVars
<1>5. ASSUME NEW r \in Rows, RetryRead(r) PROVE TypeOK'
  <2>1. retries' \in [Rows -> 0..MaxRetries]
    <3>1. retries[r] + 1 \in 0..MaxRetries
      BY <1>5, DisbursementAssumption DEF RetryRead, TypeOK
    <3>2. QED
      BY <1>5, <3>1 DEF RetryRead, TypeOK
  <2>2. admin' \in [pc : {"update", "enqueue"}, row : Rows]
    BY <1>5 DEF RetryRead
  <2>3. QED
    BY <1>5, <2>1, <2>2 DEF RetryRead, TypeOK, fixedVars
<1>6. QED
  BY <1>1, <1>2, <1>3, <1>4, <1>5

LEMMA TypeNext == TypeOK /\ [Next]_vars => TypeOK'
<1> SUFFICES ASSUME TypeOK, [Next]_vars PROVE TypeOK'
  OBVIOUS
<1>1. ASSUME NEW j \in JobIds, Evict(j) PROVE TypeOK'
  BY <1>1, DisbursementAssumption DEF Evict, TypeOK, NoJob, Jobs, fixedVars
<1>2. CASE UNCHANGED vars
  BY <1>2 DEF vars, TypeOK, fixedVars
<1>3. QED
  BY <1>1, <1>2, HandleTyped, ThrowTyped, TakeTyped, AdminTyped, CrashTyped
     DEF Next

(* In every reachable state rows, jobs, slots and counters have the values *)
(* that the workers and the admin service (admin-payouts.service.ts) give  *)
(* them: the types the other theorems start from.                          *)
THEOREM TypeCorrect == Spec => []TypeOK
BY TypeInit, TypeNext, PTL DEF Spec

----------------------------------------------------------------------------
(* The queue.                                                              *)

\* What a call to the provider does to the row it is about.
LEMMA PayMoves ==
  ASSUME TypeOK, NEW w \in Workers, Pay(w)
  PROVE  /\ \A r \in Rows : moved'[r] >= moved[r]
         /\ \A r \in Rows \ {RowOf(w)} : moved'[r] = moved[r]
         /\ flow.gateway # "unkeyed" /\ moved[RowOf(w)] <= 1 => moved'[RowOf(w)] <= 1
         /\ moved[RowOf(w)] = 0 => moved'[RowOf(w)] <= 1
         /\ worker'[w].paid => moved'[RowOf(w)] > 0
         /\ \/ worker'[w].paid \/ moved'[RowOf(w)] = moved[RowOf(w)]
            \/ RowOf(w) \in doubt'
         /\ worker'[w].pc = "record"
         /\ \A v \in Workers \ {w} : worker'[v] = worker[v]
         /\ worker'[w].job = worker[w].job
<1> DEFINE r == RowOf(w)
           fresh == ~KeySeen(w) \/ flow.gateway = "unkeyed"
<1>1. PICK moves \in BOOLEAN, paid \in BOOLEAN :
        /\ moves => fresh
        /\ paid => \/ moves
                   \/ ~fresh /\ flow.gateway = "replay"
        /\ moved' = [moved EXCEPT ![r] = IF moves /\ @ < 2 THEN @ + 1 ELSE @]
        /\ doubt' = doubt \cup (IF moves /\ ~paid THEN {r} ELSE {})
        /\ worker' = [worker EXCEPT ![w].pc = "record", ![w].paid = paid]
  BY DEF Pay
<1>2. worker[w] \in Busy /\ r \in Rows
  BY Working DEF Pay, At
<1>3. worker'[w].paid = paid /\ worker'[w].job = worker[w].job
      /\ worker'[w].pc = "record"
      /\ \A v \in Workers \ {w} : worker'[v] = worker[v]
  BY <1>1, <1>2 DEF Busy, TypeOK
<1>4. fresh <=> moved[r] = 0 \/ flow.gateway = "unkeyed"
  BY <1>2 DEF KeySeen, TypeOK
<1> HIDE DEF r, fresh
<1>5. moved[r] \in 0..2 /\ moved \in [Rows -> 0..2]
  BY <1>2 DEF TypeOK
<1>6. /\ moved'[r] = IF moves /\ moved[r] < 2 THEN moved[r] + 1 ELSE moved[r]
      /\ \A q \in Rows \ {r} : moved'[q] = moved[q]
  BY <1>1, <1>2, <1>5
<1>7. \A q \in Rows : moved'[q] >= moved[q]
  BY <1>5, <1>6
<1>8. flow.gateway # "unkeyed" /\ moved[r] <= 1 => moved'[r] <= 1
  BY <1>1, <1>4, <1>5, <1>6
<1>9. paid => moved'[r] > 0
  BY <1>1, <1>4, <1>5, <1>6
<1>10. moved[r] = 0 => moved'[r] <= 1
  BY <1>5, <1>6
<1>11. paid \/ moved'[r] = moved[r] \/ r \in doubt'
  BY <1>1, <1>6
<1>12. QED
  BY <1>3, <1>6, <1>7, <1>8, <1>9, <1>10, <1>11 DEF r

\* A slot holds an active job, which no other slot holds.
Exclusive ==
  /\ \A w \in Workers : worker[w] # Idle => job[worker[w].job].state = "active"
  /\ \A v, w \in Workers : v # w /\ worker[v] # Idle /\ worker[w] # Idle
                            => worker[v].job # worker[w].job

LEMMA NotIdle ==
  ASSUME TypeOK, NEW w \in Workers
  PROVE  worker[w] # Idle <=> worker[w].pc # "idle"
BY DEF TypeOK, Busy, Idle

\* Slot w lets go of its job, or keeps it; no other slot's job changes.
LEMMA KeepsExclusive ==
  ASSUME TypeOK, Exclusive, NEW w \in Workers, worker[w] # Idle,
         \/ /\ worker' = [worker EXCEPT ![w] = Idle]
            /\ \A j \in JobIds \ {worker[w].job} : job'[j] = job[j]
         \/ /\ worker'[w].job = worker[w].job
            /\ \A v \in Workers \ {w} : worker'[v] = worker[v]
            /\ \A j \in JobIds : job'[j].state = job[j].state
  PROVE  Exclusive'
<1>1. ASSUME NEW v \in Workers, worker[v] # Idle PROVE worker[v].job \in JobIds
  BY <1>1, NotIdle, Working
<1>2. CASE /\ worker' = [worker EXCEPT ![w] = Idle]
           /\ \A j \in JobIds \ {worker[w].job} : job'[j] = job[j]
  <2>1. \A v \in Workers : worker'[v] # Idle => v # w /\ worker'[v] = worker[v]
    BY <1>2 DEF TypeOK
  <2>2. \A v \in Workers : worker'[v] # Idle => job'[worker[v].job] = job[worker[v].job]
    BY <1>1, <1>2, <2>1 DEF Exclusive
  <2>3. QED
    BY <2>1, <2>2 DEF Exclusive
<1>3. CASE /\ worker'[w].job = worker[w].job
           /\ \A v \in Workers \ {w} : worker'[v] = worker[v]
           /\ \A j \in JobIds : job'[j].state = job[j].state
  <2>1. \A v \in Workers : worker'[v] # Idle =>
          /\ worker[v] # Idle /\ worker'[v].job = worker[v].job
          /\ job'[worker[v].job].state = job[worker[v].job].state
    BY <1>1, <1>3
  <2>2. QED
    BY <2>1 DEF Exclusive
<1>4. QED
  BY <1>2, <1>3

LEMMA HandleExclusive ==
  ASSUME TypeOK, Exclusive, NEW w \in Workers, Handle(w) \/ Throw(w)
  PROVE  Exclusive'
<1> DEFINE j == worker[w].job
<1>1. worker[w] \in Busy /\ worker[w] # Idle /\ j \in JobIds /\ job[j] \in Jobs
  BY NotIdle, Working DEF Handle, ReadRow, FindAccount, Pay, Record, Return,
                            Throw, At
<1>2. job \in [JobIds -> Jobs] /\ worker \in [Workers -> Busy \cup {Idle}]
  BY DEF TypeOK
<1>3. CASE Finish(w)
  BY <1>1, <1>2, <1>3, KeepsExclusive DEF Finish
<1>4. ASSUME NEW pc, Goto(w, pc), job' = job PROVE Exclusive'
  <2>1. /\ worker'[w].job = j
        /\ \A v \in Workers \ {w} : worker'[v] = worker[v]
    BY <1>1, <1>2, <1>4 DEF Goto, Busy
  <2>2. QED
    BY <1>1, <1>4, <2>1, KeepsExclusive
<1>5. CASE Pay(w)
  <2>1. job' = job
    BY <1>5 DEF Pay
  <2>2. QED
    BY <1>1, <1>5, <2>1, PayMoves, KeepsExclusive
<1>6. CASE Rethrow(w)
  <2>1. CASE job[j].left <= 1
    BY <1>3, <1>6, <2>1 DEF Rethrow
  <2>2. CASE ~(job[j].left <= 1) /\ flow.durable
    <3>1. /\ worker' = [worker EXCEPT ![w] = Idle]
          /\ job' = [job EXCEPT ![j] = [state |-> "waiting", left |-> @.left - 1]]
      BY <1>6, <2>2 DEF Rethrow
    <3>2. QED
      BY <1>1, <1>2, <3>1, KeepsExclusive
  <2>3. CASE ~(job[j].left <= 1) /\ ~flow.durable
    <3>1. Goto(w, "read") /\ job' = [job EXCEPT ![j].left = @ - 1]
      BY <1>6, <2>3 DEF Rethrow
    <3>2. \A k \in JobIds : job'[k].state = job[k].state
      BY <1>1, <1>2, <3>1 DEF Jobs
    <3>3. /\ worker'[w].job = j
          /\ \A v \in Workers \ {w} : worker'[v] = worker[v]
      BY <1>1, <1>2, <3>1 DEF Goto, Busy
    <3>4. QED
      BY <1>1, <3>2, <3>3, KeepsExclusive
  <2>4. QED
    BY <2>1, <2>2, <2>3
<1>7. CASE ReadRow(w) \/ FindAccount(w) \/ Record(w) \/ Return(w) \/ Throw(w)
  BY <1>3, <1>4, <1>6, <1>7 DEF ReadRow, FindAccount, Record, Return, Throw
<1>8. QED
  BY <1>5, <1>7 DEF Handle

\* An id that a slot holds is not enqueued again.
LEMMA EnqueueExclusive ==
  ASSUME TypeOK, Exclusive, NEW k \in JobIds, Enqueue(k), UNCHANGED worker
  PROVE  Exclusive'
<1>1. \A v \in Workers : worker[v] # Idle => worker[v].job \in JobIds
  BY NotIdle, Working
<1>2. \A j \in JobIds : job[j].state = "active" => job'[j].state = "active"
  BY DEF Enqueue, TypeOK
<1>3. QED
  BY <1>1, <1>2 DEF Exclusive

LEMMA ExclusiveNext == TypeOK /\ Exclusive /\ [Next]_vars => Exclusive'
<1> SUFFICES ASSUME TypeOK, Exclusive, [Next]_vars PROVE Exclusive'
  OBVIOUS
<1>0. \A v \in Workers : worker[v] # Idle => worker[v].job \in JobIds
  BY NotIdle, Working
<1>1. ASSUME NEW w \in Workers, NEW j \in JobIds, Take(w, j) PROVE Exclusive'
  <2> DEFINE new == [pc |-> "read", job |-> j, paid |-> FALSE]
  <2>1. /\ worker[w] = Idle /\ job[j].state = "waiting"
        /\ worker' = [worker EXCEPT ![w] = new]
        /\ job' = [job EXCEPT ![j].state = "active"]
    BY <1>1 DEF Take
  <2>2. worker'[w].job = j /\ \A v \in Workers \ {w} : worker'[v] = worker[v]
    BY <2>1 DEF TypeOK
  <2>3. job'[j].state = "active" /\ \A k \in JobIds \ {j} : job'[k] = job[k]
    BY <2>1 DEF TypeOK, Jobs
  <2>4. \A v \in Workers : worker[v] # Idle => v # w /\ worker[v].job # j
    BY <2>1 DEF Exclusive
  <2>5. \A v \in Workers \ {w} : worker'[v] # Idle =>
          /\ worker[v].job # j /\ job'[worker[v].job].state = "active"
    BY <1>0, <2>2, <2>3, <2>4 DEF Exclusive
  <2>6. QED
    BY <2>2, <2>3, <2>5 DEF Exclusive
<1>2. ASSUME NEW j \in JobIds, Evict(j) PROVE Exclusive'
  BY <1>0, <1>2 DEF Evict, Exclusive, TypeOK
<1>3. ASSUME NEW r \in Rows, RunNext(r) PROVE Exclusive'
  <2>1. Stable(r) \in JobIds
    BY DisbursementAssumption DEF Stable, JobIds
  <2>2. QED
    BY <1>3, <2>1, EnqueueExclusive DEF RunNext
<1>4. CASE RetryEnqueue
  <2>1. admin \in [pc : {"update", "enqueue"}, row : Rows]
    BY <1>4 DEF RetryEnqueue, AdminIdle, TypeOK
  <2>2. <<admin.row, retries[admin.row]>> \in JobIds
    BY <2>1 DEF JobIds, TypeOK
  <2>3. QED
    BY <1>4, <2>2, EnqueueExclusive DEF RetryEnqueue
<1>5. CASE Crash
  BY <1>5 DEF Crash, Exclusive
<1>6. CASE UNCHANGED <<job, worker>>
  BY <1>6 DEF Exclusive
<1>7. QED
  BY <1>1, <1>2, <1>3, <1>4, <1>5, <1>6, HandleExclusive
     DEF Next, RetryRead, RunAll, RetryUpdate, AddAccount, vars

----------------------------------------------------------------------------
(* The rows.                                                               *)

\* No other step moves money.
LEMMA OnlyPayMoves ==
  ASSUME [Next]_vars
  PROVE  UNCHANGED moved \/ \E w \in Workers : Pay(w)
BY DEF Next, Handle, ReadRow, FindAccount, Record, Return, Throw, Take, Evict, RunNext, RetryRead,
       RunAll, RetryUpdate, RetryEnqueue, AddAccount, Crash, vars

\* Recording an answer marks processed the slot's own row only, and only if the
\* provider said so; a retry marks no row processed.
LEMMA RowStep ==
  ASSUME TypeOK, [Next]_vars
  PROVE  \/ UNCHANGED row
         \/ RetryUpdate
         \/ \E w \in Workers : /\ Record(w)
                               /\ \A r \in Rows \ {RowOf(w)} : row'[r] = row[r]
                               /\ row'[RowOf(w)] = "processed" => worker[w].paid
<1>1. ASSUME NEW w \in Workers, Record(w)
      PROVE  /\ \A r \in Rows \ {RowOf(w)} : row'[r] = row[r]
             /\ row'[RowOf(w)] = "processed" => worker[w].paid
  <2>1. RowOf(w) \in Rows
    BY <1>1, Working DEF Record, At
  <2>2. row \in [Rows -> {"pending", "processed", "failed"}]
    BY DEF TypeOK
  <2>3. CASE worker[w].paid
    BY <1>1, <2>1, <2>2, <2>3 DEF Record
  <2>4. CASE ~worker[w].paid
    BY <1>1, <2>1, <2>2, <2>4 DEF Record
  <2>5. QED
    BY <2>3, <2>4
<1>2. (\E w \in Workers : Record(w)) \/ UNCHANGED row \/ RetryUpdate
  BY DEF Next, Handle, ReadRow, FindAccount, Pay, Return, Throw, Take, Evict, RunNext, RetryRead,
         RunAll, RetryEnqueue, AddAccount, Crash, vars
<1>3. QED
  BY <1>1, <1>2

\* A slot that is about to record has just asked.
LEMMA RecordStep ==
  ASSUME TypeOK, [Next]_vars, NEW v \in Workers, At(v, "record")', worker'[v].paid
  PROVE  \/ Pay(v)
         \/ At(v, "record") /\ worker[v].paid /\ RowOf(v)' = RowOf(v)
<1>1. ASSUME NEW w \in Workers, NEW pc \in {"read", "account", "pay", "return"},
             worker[w].pc # "idle", Goto(w, pc)
      PROVE  worker'[v] = worker[v]
  <2>1. worker[w] \in Busy
    BY <1>1, Working
  <2>2. v # w
    BY <1>1, <2>1 DEF Goto, At, Busy, TypeOK
  <2>3. QED
    BY <1>1, <2>2 DEF Goto, TypeOK
<1>2. ASSUME NEW w \in Workers, worker' = [worker EXCEPT ![w] = Idle]
      PROVE  worker'[v] = worker[v]
  BY <1>2 DEF At, Idle, TypeOK
<1>3. ASSUME NEW w \in Workers, ReadRow(w) \/ FindAccount(w) \/ Record(w)
                             \/ Return(w) \/ Throw(w)
      PROVE  worker'[v] = worker[v]
  BY <1>1, <1>2, <1>3 DEF ReadRow, FindAccount, Record, Return, Throw, Rethrow,
                                     Finish, At
<1>4. ASSUME NEW w \in Workers, Pay(w)
      PROVE  Pay(v) \/ worker'[v] = worker[v]
  BY <1>4, PayMoves
<1>5. ASSUME NEW w \in Workers, NEW j \in JobIds, Take(w, j)
      PROVE  worker'[v] = worker[v]
  BY <1>5 DEF Take, At, TypeOK
<1>6. ASSUME Crash PROVE worker'[v] = worker[v]
  BY <1>6 DEF Crash, At, Idle
<1>7. UNCHANGED worker => worker'[v] = worker[v]
  OBVIOUS
<1>8. Pay(v) \/ worker'[v] = worker[v]
  <2>1. ASSUME NEW w \in Workers, Handle(w) \/ Throw(w)
        PROVE  Pay(v) \/ worker'[v] = worker[v]
    BY <1>3, <1>4, <2>1 DEF Handle
  <2>2. \/ \E w \in Workers : Handle(w) \/ Throw(w) \/ \E j \in JobIds : Take(w, j)
        \/ Crash
        \/ UNCHANGED worker
    BY DEF Next, Evict, RunNext, RetryRead, RunAll, RetryUpdate, RetryEnqueue,
           AddAccount, vars
  <2>3. QED
    BY <1>5, <1>6, <1>7, <2>1, <2>2
<1>9. QED
  BY <1>8 DEF At, RowOf

(***************************************************************************)
(* Nothing is marked processed that was not paid, whatever the provider.   *)
(***************************************************************************)
THEOREM NothingProcessedUnpaid == Spec => []ProcessedMeansPaid
<1>1. Init => ProcessedMeansPaid
  BY DEF Init, ProcessedMeansPaid, At, Idle
<1>2. TypeOK /\ ProcessedMeansPaid /\ [Next]_vars => ProcessedMeansPaid'
  <2> SUFFICES ASSUME TypeOK, ProcessedMeansPaid, [Next]_vars
               PROVE  ProcessedMeansPaid'
    OBVIOUS
  <2>1. \A r \in Rows : moved'[r] >= moved[r] /\ moved[r] \in Nat /\ moved'[r] \in Nat
    <3>1. \A r \in Rows : moved[r] \in Nat
      BY DEF TypeOK
    <3>2. \A r \in Rows : moved'[r] \in Nat
      BY TypeNext DEF TypeOK
    <3>3. QED
      BY <3>1, <3>2, OnlyPayMoves, PayMoves
  <2>2. ASSUME NEW r \in Rows, row'[r] = "processed" PROVE moved'[r] > 0
    <3>1. CASE row[r] = "processed"
      BY <2>1, <3>1 DEF ProcessedMeansPaid
    <3>2. CASE row[r] # "processed"
      <4>1. ~RetryUpdate
        BY <2>2, <3>2 DEF RetryUpdate, TypeOK
      <4>2. PICK w \in Workers :
              /\ Record(w)
              /\ \A q \in Rows \ {RowOf(w)} : row'[q] = row[q]
              /\ row'[RowOf(w)] = "processed" => worker[w].paid
        BY <2>2, <3>2, <4>1, RowStep
      <4>3. r = RowOf(w) /\ worker[w].paid /\ At(w, "record")
        <5>1. r # RowOf(w) => row'[r] = row[r]
          BY <4>2
        <5>2. r = RowOf(w)
          BY <2>2, <3>2, <5>1
        <5>3. QED
          BY <2>2, <4>2, <5>2 DEF Record
      <4>4. QED
        BY <2>1, <4>3 DEF ProcessedMeansPaid
    <3>3. QED
      BY <3>1, <3>2
  <2>3. ASSUME NEW v \in Workers, At(v, "record")', worker'[v].paid
        PROVE  moved'[RowOf(v)'] > 0
    <3>1. CASE Pay(v)
      <4>1. worker'[v].job = worker[v].job /\ moved'[RowOf(v)] > 0
        BY <2>3, <3>1, PayMoves
      <4>2. QED
        BY <4>1 DEF RowOf
    <3>2. CASE At(v, "record") /\ worker[v].paid /\ RowOf(v)' = RowOf(v)
      <4>1. RowOf(v) \in Rows /\ moved[RowOf(v)] > 0
        BY <3>2, Working DEF At, ProcessedMeansPaid
      <4>2. QED
        BY <2>1, <3>2, <4>1
    <3>3. QED
      BY <2>3, <3>1, <3>2, RecordStep
  <2>4. QED
    BY <2>2, <2>3 DEF ProcessedMeansPaid
<1>3. QED
  BY <1>1, <1>2, TypeCorrect, PTL DEF Spec

----------------------------------------------------------------------------
(* One worker per row, until the row is retried.                           *)

Alive(j) == job[j].state \in {"waiting", "active"}

\* Only the bulk run and the retry put a job id to work that was not at work.
LEMMA JobStep ==
  ASSUME TypeOK, Exclusive, [Next]_vars, NEW j \in JobIds
  PROVE  \/ /\ Alive(j)' => Alive(j)
            /\ job'[j].state # "none" => job[j].state # "none"
         \/ \E r \in Rows : RunNext(r) /\ j = Stable(r)
         \/ RetryEnqueue /\ j = <<admin.row, retries[admin.row]>>
<1> DEFINE Same == /\ Alive(j)' => Alive(j)
                   /\ job'[j].state # "none" => job[j].state # "none"
<1>1. job \in [JobIds -> Jobs] /\ job[j] \in Jobs
  BY DEF TypeOK
<1>2. UNCHANGED job => Same
  BY DEF Alive
<1>3. ASSUME NEW w \in Workers, Handle(w) \/ Throw(w) PROVE Same
  <2> DEFINE k == worker[w].job
  <2>1. worker[w] # Idle /\ k \in JobIds /\ job[k] \in Jobs
    BY <1>3, NotIdle, Working DEF Handle, ReadRow, FindAccount, Pay, Record, Return,
                                  Throw, At
  <2>2. Alive(k) /\ job[k].state # "none"
    BY <2>1 DEF Exclusive, Alive
  <2>3. \A i \in JobIds \ {k} : job'[i] = job[i]
    BY <1>1, <1>3 DEF Handle, ReadRow, FindAccount, Pay, Record, Return, Throw,
                      Finish, Rethrow
  <2>4. CASE j = k
    BY <2>2, <2>4
  <2>5. CASE j # k
    BY <2>3, <2>5 DEF Alive
  <2>6. QED
    BY <2>4, <2>5
<1>4. ASSUME NEW w \in Workers, NEW k \in JobIds, Take(w, k) PROVE Same
  BY <1>1, <1>4 DEF Take, Alive, Jobs
<1>5. ASSUME NEW k \in JobIds, Evict(k) PROVE Same
  BY <1>1, <1>5 DEF Evict, Alive, NoJob
<1>6. ASSUME NEW r \in Rows, RunNext(r), j # Stable(r) PROVE Same
  BY <1>1, <1>6 DEF RunNext, Enqueue, Alive
<1>7. ASSUME RetryEnqueue, j # <<admin.row, retries[admin.row]>> PROVE Same
  BY <1>1, <1>7 DEF RetryEnqueue, Enqueue, Alive
<1>8. ASSUME Crash PROVE Same
  BY <1>1, <1>8 DEF Crash, Alive, NoJob, Jobs
<1> HIDE DEF Same
<1>9. \/ Same
      \/ \E r \in Rows : RunNext(r) /\ j = Stable(r)
      \/ RetryEnqueue /\ j = <<admin.row, retries[admin.row]>>
  BY <1>2, <1>3, <1>4, <1>5, <1>6, <1>7, <1>8
     DEF Next, RetryRead, RunAll, RetryUpdate, AddAccount, vars
<1>10. QED
  BY <1>9 DEF Same

\* A job id of a retry exists from that retry on.
Issued == \A j \in JobIds : job[j].state # "none" => j[2] <= retries[j[1]]

\* The admin who is about to write a row has counted the retry.
AdminRetried == admin # AdminIdle => retries[admin.row] > 0

\* What a slot read of a row that was never retried is still true.
StillUnpaid ==
  \A w \in Workers :
    worker[w].pc \in {"account", "pay", "record"} /\ retries[RowOf(w)] = 0
      => row[RowOf(w)] # "processed"

\* Without the retries two slots would need two job ids of the row.
LEMMA ExclusiveRows ==
  ASSUME TypeOK, Exclusive, Issued
  PROVE  OneWorkerPerRow
<1> SUFFICES ASSUME NEW v \in Workers, NEW w \in Workers, v # w,
                    worker[v] # Idle, worker[w] # Idle, RowOf(v) = RowOf(w)
             PROVE  worker[v].job # worker[w].job /\ retries[RowOf(v)] > 0
  BY DEF OneWorkerPerRow
<1>1. worker[v].job \in JobIds /\ worker[w].job \in JobIds /\ RowOf(v) \in Rows
  BY NotIdle, Working
<1>2. worker[v].job # worker[w].job
  BY DEF Exclusive
<1>3. /\ worker[v].job[2] <= retries[RowOf(v)]
      /\ worker[w].job[2] <= retries[RowOf(v)]
  BY <1>1 DEF Exclusive, Issued, RowOf
<1>4. /\ worker[v].job = <<RowOf(v), worker[v].job[2]>> /\ worker[v].job[2] \in Nat
      /\ worker[w].job = <<RowOf(v), worker[w].job[2]>> /\ worker[w].job[2] \in Nat
  BY <1>1 DEF JobIds, RowOf
<1>5. worker[v].job[2] # worker[w].job[2]
  BY <1>2, <1>4
<1>6. retries[RowOf(v)] \in Nat
  BY <1>1, DisbursementAssumption DEF TypeOK
<1>7. QED
  BY <1>2, <1>3, <1>4, <1>5, <1>6

Steady == TypeOK /\ Exclusive /\ Issued /\ AdminRetried /\ StillUnpaid

LEMMA SteadyInit == Init => Steady
<1> SUFFICES ASSUME Init PROVE Steady
  OBVIOUS
<1>1. Issued
  <2> SUFFICES ASSUME NEW j \in JobIds, job[j].state # "none"
               PROVE  j[2] <= retries[j[1]]
    BY DEF Issued
  <2>1. PICK queued \in SUBSET Rows :
          job = [k \in JobIds |-> IF k \in queued \X {0} THEN Fresh ELSE NoJob]
    BY DEF Init
  <2>2. j \in queued \X {0}
    BY <2>1 DEF NoJob
  <2>3. j[2] = 0 /\ j[1] \in Rows
    BY <2>2
  <2>4. QED
    BY <2>3 DEF Init
<1>2. QED
  BY <1>1, TypeInit DEF Init, Steady, Exclusive, AdminRetried, StillUnpaid, Idle,
                        AdminIdle

\* The retries of a row are never taken back.
LEMMA RetriesGrow ==
  ASSUME TypeOK, [Next]_vars, NEW r \in Rows
  PROVE  retries[r] \in Nat /\ retries'[r] \in Nat /\ retries'[r] >= retries[r]
<1>1. retries[r] \in Nat /\ retries'[r] \in Nat
  BY TypeNext, DisbursementAssumption DEF TypeOK
<1>2. ASSUME NEW q \in Rows, RetryRead(q) PROVE retries'[r] >= retries[r]
  BY <1>1, <1>2 DEF RetryRead, TypeOK
<1>3. UNCHANGED retries => retries'[r] >= retries[r]
  BY <1>1
<1>4. UNCHANGED retries \/ \E q \in Rows : RetryRead(q)
  BY DEF Next, Handle, ReadRow, FindAccount, Pay, Record, Return, Throw, Take, Evict,
         RunNext, RunAll, RetryUpdate, RetryEnqueue, AddAccount, Crash, vars
<1>5. QED
  BY <1>1, <1>2, <1>3, <1>4

LEMMA IssuedNext == Steady /\ [Next]_vars => Issued'
<1> SUFFICES ASSUME Steady, [Next]_vars, NEW j \in JobIds, job'[j].state # "none"
             PROVE  j[2] <= retries'[j[1]]
  BY DEF Issued
<1>1. j[1] \in Rows /\ j[2] \in Nat
  BY DEF JobIds
<1>2. retries[j[1]] \in Nat /\ retries'[j[1]] \in Nat /\ retries'[j[1]] >= retries[j[1]]
  BY <1>1, RetriesGrow DEF Steady
<1>3. CASE job[j].state # "none"
  BY <1>1, <1>2, <1>3 DEF Steady, Issued
<1>4. CASE \E r \in Rows : RunNext(r) /\ j = Stable(r)
  BY <1>2, <1>4 DEF Stable
<1>5. CASE RetryEnqueue /\ j = <<admin.row, retries[admin.row]>>
  BY <1>1, <1>2, <1>5
<1>6. QED
  BY <1>3, <1>4, <1>5, JobStep DEF Steady

LEMMA AdminNext == Steady /\ [Next]_vars => AdminRetried'
<1> SUFFICES ASSUME Steady, [Next]_vars PROVE AdminRetried'
  OBVIOUS
<1>1. ASSUME NEW r \in Rows, RetryRead(r) PROVE AdminRetried'
  <2>1. admin' = [pc |-> "update", row |-> r] /\ retries'[r] = retries[r] + 1
    BY <1>1 DEF RetryRead, Steady, TypeOK
  <2>2. retries[r] \in Nat
    BY DisbursementAssumption DEF Steady, TypeOK
  <2>3. QED
    BY <2>1, <2>2 DEF AdminRetried
<1>2. CASE RetryUpdate
  <2>1. admin \in [pc : {"update", "enqueue"}, row : Rows]
    BY <1>2 DEF RetryUpdate, AdminIdle, Steady, TypeOK
  <2>2. admin # AdminIdle /\ admin'.row = admin.row /\ retries' = retries
    BY <1>2, <2>1 DEF RetryUpdate, AdminIdle, fixedVars
  <2>3. QED
    BY <2>2 DEF Steady, AdminRetried
<1>3. admin' = AdminIdle => AdminRetried'
  BY DEF AdminRetried
<1>4. UNCHANGED <<admin, retries>> => AdminRetried'
  BY DEF Steady, AdminRetried
<1>5. QED
  BY <1>1, <1>2, <1>3, <1>4
     DEF Next, Handle, ReadRow, FindAccount, Pay, Record, Return, Throw, Take, Evict,
         RunNext, RunAll, RetryEnqueue, AddAccount, Crash, vars

\* A step of slot w leaves what the slots read true.
LEMMA HandleUnpaid ==
  ASSUME Steady, NEW w \in Workers, Handle(w) \/ Throw(w)
  PROVE  StillUnpaid'
<1> DEFINE Reading == {"account", "pay", "record"}
<1> SUFFICES ASSUME NEW v \in Workers, worker'[v].pc \in Reading,
                    retries'[RowOf(v)'] = 0
             PROVE  row'[RowOf(v)'] # "processed"
  BY DEF StillUnpaid
<1>1. worker[w] \in Busy /\ worker[w] # Idle /\ RowOf(w) \in Rows
  BY NotIdle, Working DEF Steady, Handle, ReadRow, FindAccount, Pay, Record, Return,
                          Throw, At
<1>2. worker \in [Workers -> Busy \cup {Idle}] /\ retries' = retries
        /\ row \in [Rows -> {"pending", "processed", "failed"}]
  BY DEF Steady, TypeOK, Handle, ReadRow, FindAccount, Pay, Record, Return, Throw
<1>3. v # w => worker'[v] = worker[v]
  BY <1>2 DEF Handle, ReadRow, FindAccount, Pay, Record, Return, Throw, Finish, Goto,
              Rethrow
<1>4. CASE v # w
  <2>1. /\ worker[v].pc \in Reading /\ RowOf(v)' = RowOf(v)
        /\ row[RowOf(v)] # "processed" /\ retries[RowOf(v)] = 0
    BY <1>2, <1>3, <1>4 DEF Steady, StillUnpaid, RowOf
  <2>2. RowOf(v) # RowOf(w) /\ RowOf(v) \in Rows
    <3>1. worker[v].pc # "idle" /\ worker[v] # Idle
      BY <2>1 DEF Idle
    <3>2. OneWorkerPerRow
      BY ExclusiveRows DEF Steady
    <3>3. QED
      BY <1>1, <1>4, <2>1, <3>1, <3>2, Working DEF OneWorkerPerRow, Steady
  <2>3. row'[RowOf(v)] = row[RowOf(v)]
    BY <1>1, <1>2, <2>2 DEF Handle, ReadRow, FindAccount, Pay, Record, Return, Throw
  <2>4. QED
    BY <2>1, <2>3
<1>5. CASE v = w /\ ReadRow(w)
  <2>1. row[RowOf(w)] # "processed" /\ row' = row
    BY <1>1, <1>2, <1>5 DEF ReadRow, Finish, Idle
  <2>2. RowOf(w)' = RowOf(w)
    BY <1>1, <1>2, <1>5, <2>1 DEF ReadRow, Finish, Goto, RowOf, Busy, Idle
  <2>3. QED
    BY <1>5, <2>1, <2>2
<1>6. CASE v = w /\ FindAccount(w)
  <2>1. RowOf(w)' = RowOf(w)
    BY <1>1, <1>2, <1>6 DEF FindAccount, Finish, Goto, RowOf, Busy, Idle
  <2>2. row[RowOf(w)] # "processed" /\ row' = row
    BY <1>2, <1>6, <2>1 DEF Steady, StillUnpaid, FindAccount, At
  <2>3. QED
    BY <1>6, <2>1, <2>2
<1>7. CASE v = w /\ Pay(w)
  <2>1. RowOf(w)' = RowOf(w)
    BY <1>7, PayMoves DEF Steady, RowOf
  <2>2. row[RowOf(w)] # "processed" /\ row' = row
    BY <1>2, <1>7, <2>1 DEF Steady, StillUnpaid, Pay, At
  <2>3. QED
    BY <1>7, <2>1, <2>2
<1>8. CASE v = w /\ (Record(w) \/ Return(w) \/ Throw(w))
  <2>1. worker'[w].pc \in {"idle", "read", "return"}
    BY <1>1, <1>2, <1>8 DEF Record, Return, Throw, Finish, Rethrow, Goto, Busy, Idle
  <2>2. QED
    BY <1>8, <2>1
<1>9. QED
  BY <1>4, <1>5, <1>6, <1>7, <1>8 DEF Handle

LEMMA UnpaidNext == Steady /\ [Next]_vars => StillUnpaid'
<1> SUFFICES ASSUME Steady, [Next]_vars PROVE StillUnpaid'
  OBVIOUS
<1>0. \A w \in Workers : worker[w].pc # "idle" => RowOf(w) \in Rows
  BY Working DEF Steady
<1>1. ASSUME NEW w \in Workers, NEW j \in JobIds, Take(w, j)
      PROVE  StillUnpaid'
  BY <1>1 DEF Take, Steady, StillUnpaid, TypeOK, RowOf
<1>2. ASSUME Crash PROVE StillUnpaid'
  BY <1>2 DEF Crash, StillUnpaid, Idle
<1>3. ASSUME NEW r \in Rows, RetryRead(r) PROVE StillUnpaid'
  <2>1. /\ row' = row /\ worker' = worker
        /\ \A q \in Rows : retries'[q] = 0 => retries[q] = 0
    <3>1. \A q \in Rows : retries[q] \in Nat
      BY DisbursementAssumption DEF Steady, TypeOK
    <3>2. QED
      BY <1>3, <3>1 DEF RetryRead, Steady, TypeOK
  <2>2. QED
    BY <1>0, <2>1 DEF Steady, StillUnpaid, RowOf
<1>4. CASE RetryUpdate
  <2>1. /\ worker' = worker /\ retries' = retries
        /\ \A q \in Rows : row'[q] = "processed" => row[q] = "processed"
    BY <1>4 DEF RetryUpdate, Steady, TypeOK
  <2>2. QED
    BY <1>0, <2>1 DEF Steady, StillUnpaid, RowOf
<1>5. ASSUME UNCHANGED <<row, worker, retries>> PROVE StillUnpaid'
  BY <1>5 DEF Steady, StillUnpaid, RowOf
<1>6. QED
  BY <1>1, <1>2, <1>3, <1>4, <1>5, HandleUnpaid
     DEF Next, Evict, RunNext, RunAll, RetryEnqueue, AddAccount, vars

LEMMA SteadyAlways == Spec => []Steady
<1>1. Steady /\ [Next]_vars => Steady'
  BY TypeNext, ExclusiveNext, IssuedNext, AdminNext, UnpaidNext DEF Steady
<1>2. QED
  BY <1>1, SteadyInit, PTL DEF Spec

(***************************************************************************)
(* Two slots never run one job, and they meet on one row only if an admin  *)
(* retried it, under both queues and whatever crashes.                     *)
(***************************************************************************)
THEOREM JobIdsExclude == Spec => []OneWorkerPerRow
<1>1. Steady => OneWorkerPerRow
  BY ExclusiveRows DEF Steady
<1>2. QED
  BY <1>1, SteadyAlways, PTL

(***************************************************************************)
(* And so a row that is processed stays so, unless it was retried: the     *)
(* slots and the bulk run alone never undo a payment's record.             *)
(***************************************************************************)
THEOREM ProcessedStays == Spec => ProcessedIsFinal
<1> DEFINE Kept == \A r \in Rows :
                     row[r] = "processed" /\ row'[r] # "processed" => retries[r] > 0
<1>1. Steady /\ [Next]_vars => [Kept]_vars
  <2> SUFFICES ASSUME Steady, [Next]_vars PROVE Kept
    OBVIOUS
  <2>0. \A r \in Rows : retries[r] # 0 => retries[r] > 0
    BY DisbursementAssumption DEF Steady, TypeOK
  <2>1. CASE RetryUpdate
    <3>1. retries[admin.row] > 0
      BY <2>1 DEF RetryUpdate, AdminIdle, Steady, AdminRetried
    <3>2. \A r \in Rows : r # admin.row => row'[r] = row[r]
      BY <2>1 DEF RetryUpdate, Steady, TypeOK
    <3>3. QED
      BY <3>1, <3>2
  <2>2. ASSUME NEW w \in Workers, Record(w),
               \A r \in Rows \ {RowOf(w)} : row'[r] = row[r]
        PROVE  Kept
    BY <2>0, <2>2 DEF Record, At, Steady, StillUnpaid
  <2>3. UNCHANGED row => Kept
    OBVIOUS
  <2> HIDE DEF Kept
  <2>4. QED
    BY <2>1, <2>2, <2>3, RowStep DEF Steady
<1>2. QED
  BY <1>1, SteadyAlways, PTL DEF Spec, ProcessedIsFinal

----------------------------------------------------------------------------
(* The money.                                                              *)

\* With a key: the provider refuses or replays the second call.
KeyedOnce == flow.gateway # "unkeyed" => \A r \in Rows : moved[r] <= 1

\* Only a refund goes without a key, and refunds are not run in bulk.
NoBulkRefund ==
  /\ flow.gateway = "unkeyed" => ~flow.account
  /\ ~flow.account => bulk = {}

\* Without one, and as long as nothing about r was lost: at most one job of r is
\* at work; a payment is recorded, or about to be; and whoever may still pay,
\* or has had no payment, or is about to enqueue a retry, has not paid.
Orderly(r) ==
  /\ moved[r] <= 1
  /\ \A j, k \in JobIds : j[1] = r /\ k[1] = r /\ Alive(j) /\ Alive(k) => j = k
  /\ moved[r] > 0 => \/ row[r] = "processed"
                     \/ \E w \in Unrecorded : RowOf(w) = r
  /\ \A w \in Workers :
       /\ worker[w] # Idle /\ RowOf(w) = r
       /\ \/ At(w, "account") \/ At(w, "pay")
          \/ At(w, "record") /\ ~worker[w].paid
       => moved[r] = 0
  /\ admin.pc = "enqueue" /\ admin.row = r => ~Live(r) /\ moved[r] = 0

UnkeyedOrderly == flow.gateway = "unkeyed" => \A r \in Rows \ doubt : Orderly(r)

MoneyInv == TypeOK /\ Exclusive /\ KeyedOnce /\ NoBulkRefund /\ UnkeyedOrderly

LEMMA MoneyInit == Init => MoneyInv
<1> SUFFICES ASSUME Init PROVE MoneyInv
  OBVIOUS
<1>1. KeyedOnce /\ Exclusive
  BY DEF Init, KeyedOnce, Exclusive
<1>4. NoBulkRefund
  BY DEF Init, NoBulkRefund, Flows
<1>2. ASSUME NEW r \in Rows PROVE Orderly(r)
  <2>1. ASSUME NEW j \in JobIds, NEW k \in JobIds, j[1] = r, k[1] = r, Alive(j), Alive(k)
        PROVE  j = k
    <3>1. PICK queued \in SUBSET Rows :
            job = [i \in JobIds |-> IF i \in queued \X {0} THEN Fresh ELSE NoJob]
      BY DEF Init
    <3>2. j \in queued \X {0} /\ k \in queued \X {0}
      BY <2>1, <3>1 DEF Alive, NoJob
    <3>3. j = <<r, 0>> /\ k = <<r, 0>>
      BY <2>1, <3>2
    <3>4. QED
      BY <3>3
  <2>2. moved[r] = 0 /\ admin.pc = "idle"
    BY DEF Init, AdminIdle
  <2>3. QED
    BY <2>1, <2>2 DEF Orderly
<1>3. QED
  BY <1>1, <1>2, <1>4, TypeInit DEF MoneyInv, UnkeyedOrderly

LEMMA KeyedNext == MoneyInv /\ [Next]_vars => KeyedOnce'
<1> SUFFICES ASSUME MoneyInv, [Next]_vars, flow'.gateway # "unkeyed", NEW r \in Rows
             PROVE  moved'[r] <= 1
  BY DEF KeyedOnce
<1>1. flow' = flow
  BY DEF Next, Handle, ReadRow, FindAccount, Pay, Record, Return, Throw, Take, Evict,
         RunNext, RetryRead, RunAll, RetryUpdate, RetryEnqueue, AddAccount, Crash,
         vars, fixedVars
<1>2. moved[r] <= 1
  BY <1>1 DEF MoneyInv, KeyedOnce
<1>3. ASSUME NEW w \in Workers, Pay(w) PROVE moved'[r] <= 1
  BY <1>1, <1>2, <1>3, PayMoves DEF MoneyInv
<1>4. QED
  BY <1>2, <1>3, OnlyPayMoves

LEMMA BulkNext == MoneyInv /\ [Next]_vars => NoBulkRefund'
BY DEF MoneyInv, NoBulkRefund, Next, Handle, ReadRow, FindAccount, Pay, Record, Return,
       Throw, Take, Evict, RunNext, RetryRead, RunAll, RetryUpdate, RetryEnqueue,
       AddAccount, Crash, vars, fixedVars

\* What was in doubt stays in doubt, and the flow is what it was.
LEMMA DoubtGrows == [Next]_vars => doubt \subseteq doubt' /\ flow' = flow
BY DEF Next, Handle, ReadRow, FindAccount, Pay, Record, Return, Throw, Take, Evict,
       RunNext, RetryRead, RunAll, RetryUpdate, RetryEnqueue, AddAccount, Crash, vars,
       fixedVars

\* Two slots are never on one orderly row.
LEMMA OneOnOrderly ==
  ASSUME TypeOK, Exclusive, NEW r \in Rows, Orderly(r),
         NEW v \in Workers, NEW w \in Workers, worker[v] # Idle, worker[w] # Idle,
         RowOf(v) = r, RowOf(w) = r
  PROVE  v = w
<1>1. worker[v].job \in JobIds /\ worker[w].job \in JobIds
  BY NotIdle, Working
<1>2. Alive(worker[v].job) /\ Alive(worker[w].job)
  BY DEF Exclusive, Alive
<1>3. worker[v].job = worker[w].job
  BY <1>1, <1>2 DEF Orderly, RowOf
<1>4. QED
  BY <1>3 DEF Exclusive

\* At most one job of r is at work after the step, and none if a retry of r is
\* about to be enqueued.
LEMMA OrderlyJobs ==
  ASSUME MoneyInv, [Next]_vars, flow.gateway = "unkeyed", NEW r \in Rows, Orderly(r)
  PROVE  /\ \A j, k \in JobIds : j[1] = r /\ k[1] = r /\ Alive(j)' /\ Alive(k)' => j = k
         /\ ~Live(r) /\ ~(RetryEnqueue /\ admin.row = r) => ~Live(r)'
<1>1. \A q \in Rows : ~RunNext(q)
  BY DEF RunNext, MoneyInv, NoBulkRefund
<1>2. ASSUME NEW j \in JobIds, j[1] = r, Alive(j)'
      PROVE  \/ Alive(j)
             \/ /\ RetryEnqueue /\ j = <<admin.row, retries[admin.row]>>
                /\ admin.row = r /\ ~Live(r)
  <2>1. Alive(j) \/ (RetryEnqueue /\ j = <<admin.row, retries[admin.row]>>)
    BY <1>1, <1>2, JobStep DEF MoneyInv
  <2>2. CASE RetryEnqueue /\ j = <<admin.row, retries[admin.row]>>
    <3>1. admin.row = r
      BY <1>2, <2>2
    <3>2. QED
      BY <2>2, <3>1 DEF RetryEnqueue, Orderly
  <2>3. QED
    BY <2>1, <2>2
<1>3. ASSUME NEW j \in JobIds, NEW k \in JobIds, j[1] = r, k[1] = r, Alive(j)', Alive(k)'
      PROVE  j = k
  <2>1. CASE Alive(j) /\ Alive(k)
    BY <1>3, <2>1 DEF Orderly
  <2>2. CASE ~Live(r)
    <3>1. ~Alive(j) /\ ~Alive(k)
      BY <1>3, <2>2 DEF Live, Alive
    <3>2. QED
      BY <1>2, <1>3, <3>1
  <2>3. QED
    BY <1>2, <1>3, <2>1, <2>2
<1>4. ASSUME ~Live(r), ~(RetryEnqueue /\ admin.row = r), Live(r)' PROVE FALSE
  <2>1. PICK j \in JobIds : j[1] = r /\ Alive(j)'
    BY <1>4 DEF Live, Alive
  <2>2. Alive(j)
    BY <1>2, <1>4, <2>1
  <2>3. QED
    BY <1>4, <2>1, <2>2 DEF Live, Alive
<1>5. QED
  BY <1>3, <1>4

\* A step that leaves r's row, its money, its slots and its retry alone.
LEMMA OrderlyKept ==
  ASSUME MoneyInv, [Next]_vars, flow.gateway = "unkeyed", NEW r \in Rows, Orderly(r),
         moved'[r] = moved[r], row'[r] = row[r],
         \A v \in Workers :
           worker'[v].pc \in {"account", "pay", "record"} /\ RowOf(v)' = r
             => worker'[v] = worker[v],
         \A v \in Unrecorded : RowOf(v) = r => worker'[v] = worker[v],
         (admin' = admin /\ ~RetryEnqueue) \/ admin'.pc # "enqueue"
  PROVE  Orderly(r)'
<1>1. moved'[r] > 0 => row'[r] = "processed" \/ \E w \in Unrecorded' : RowOf(w)' = r
  <2> SUFFICES ASSUME moved'[r] > 0, row'[r] # "processed"
               PROVE  \E w \in Unrecorded' : RowOf(w)' = r
    OBVIOUS
  <2>1. PICK w \in Unrecorded : RowOf(w) = r
    BY DEF Orderly
  <2>2. w \in Workers /\ worker'[w] = worker[w]
    BY <2>1 DEF Unrecorded
  <2>3. w \in Unrecorded' /\ RowOf(w)' = r
    BY <2>1, <2>2 DEF Unrecorded, At, RowOf
  <2>4. QED
    BY <2>3
<1>2. ASSUME NEW w \in Workers, worker'[w] # Idle, RowOf(w)' = r,
             \/ At(w, "account")' \/ At(w, "pay")'
             \/ At(w, "record")' /\ ~worker'[w].paid
      PROVE  moved'[r] = 0
  <2>1. worker'[w] = worker[w]
    BY <1>2 DEF At
  <2>2. QED
    BY <1>2, <2>1 DEF Orderly, At, RowOf
<1>3. ASSUME admin'.pc = "enqueue", admin'.row = r
      PROVE  ~Live(r)' /\ moved'[r] = 0
  <2>1. admin' = admin /\ ~RetryEnqueue
    BY <1>3
  <2>2. ~Live(r) /\ moved[r] = 0
    BY <1>3, <2>1 DEF Orderly
  <2>3. QED
    BY <2>1, <2>2, OrderlyJobs
<1>4. moved'[r] <= 1
  BY DEF Orderly
<1>5. QED
  BY <1>1, <1>2, <1>3, <1>4, OrderlyJobs DEF Orderly

\* The only slot on r takes a step: reading, paying and recording.
LEMMA OrderlyWorker ==
  ASSUME MoneyInv, [Next]_vars, flow.gateway = "unkeyed", NEW r \in Rows, Orderly(r),
         NEW w \in Workers, Handle(w) \/ Throw(w), RowOf(w) = r, r \notin doubt'
  PROVE  Orderly(r)'
<1>1. TypeOK /\ Exclusive
  BY DEF MoneyInv
<1>2. worker[w] \in Busy /\ worker[w] # Idle /\ worker[w].job \in JobIds
  BY <1>1, NotIdle, Working DEF Handle, ReadRow, FindAccount, Pay, Record, Return,
                                Throw, At
<1>3. worker \in [Workers -> Busy \cup {Idle}]
  BY <1>1 DEF TypeOK
<1>4. \A v \in Workers \ {w} : worker'[v] = worker[v] /\ RowOf(v)' = RowOf(v)
  <2>1. \A v \in Workers \ {w} : worker'[v] = worker[v]
    BY <1>3 DEF Handle, ReadRow, FindAccount, Pay, Record, Return, Throw, Finish, Goto,
                Rethrow
  <2>2. QED
    BY <2>1 DEF RowOf
<1>5. \A v \in Workers \ {w} : worker[v] # Idle => RowOf(v) # r
  BY <1>1, <1>2, OneOnOrderly
<1>6. admin' = admin /\ ~(admin.pc = "enqueue" /\ admin.row = r)
  <2>1. Live(r)
    BY <1>1, <1>2 DEF Exclusive, Live, RowOf
  <2>2. admin' = admin
    BY DEF Handle, ReadRow, FindAccount, Pay, Record, Return, Throw
  <2>3. QED
    BY <2>1, <2>2 DEF Orderly
<1>7. \A v \in Unrecorded : v # w => RowOf(v) # r
  BY <1>5 DEF Unrecorded, At, Idle
\* The conjuncts that the step can disturb, and a way to the goal.
<1>8. ASSUME moved'[r] <= 1,
             moved'[r] > 0 => \/ row'[r] = "processed"
                              \/ w \in Unrecorded' /\ RowOf(w)' = r,
             (\/ At(w, "account")' \/ At(w, "pay")'
              \/ At(w, "record")' /\ ~worker'[w].paid) => moved'[r] = 0
      PROVE  Orderly(r)'
  <2>1. ASSUME NEW v \in Workers, worker'[v] # Idle, RowOf(v)' = r,
               \/ At(v, "account")' \/ At(v, "pay")'
               \/ At(v, "record")' /\ ~worker'[v].paid
        PROVE  moved'[r] = 0
    <3>1. v = w
      BY <1>4, <1>5, <2>1
    <3>2. \/ At(w, "account")' \/ At(w, "pay")'
          \/ At(w, "record")' /\ ~worker'[w].paid
      BY <2>1, <3>1 DEF At
    <3>3. QED
      BY <1>8, <3>2
  <2>2. ~(admin'.pc = "enqueue" /\ admin'.row = r)
    BY <1>6
  <2>3. moved'[r] > 0 => row'[r] = "processed" \/ \E v \in Unrecorded' : RowOf(v)' = r
    BY <1>8
  <2>4. QED
    BY <1>8, <2>1, <2>2, <2>3, OrderlyJobs DEF Orderly
<1>9. w \notin Unrecorded /\ row[r] # "processed" => moved[r] = 0
  BY <1>7, <1>1 DEF Orderly, TypeOK
<1>10. moved[r] <= 1 /\ moved[r] \in 0..2
  BY <1>1 DEF Orderly, TypeOK
<1>11. CASE ReadRow(w)
  <2>1. w \notin Unrecorded /\ moved' = moved /\ row' = row
    BY <1>11 DEF ReadRow, Unrecorded, At
  <2>2. CASE row[r] = "processed"
    <3>1. worker'[w] = Idle
      BY <1>3, <1>11, <2>2 DEF ReadRow, Finish
    <3>2. QED
      BY <1>8, <1>10, <2>1, <2>2, <3>1 DEF At, Idle
  <2>3. CASE row[r] # "processed"
    BY <1>8, <1>9, <2>1, <2>3
  <2>4. QED
    BY <2>2, <2>3
<1>12. CASE FindAccount(w)
  <2>1. moved' = moved /\ moved[r] = 0
    BY <1>2, <1>12 DEF FindAccount, Orderly
  <2>2. QED
    BY <1>8, <2>1
<1>13. CASE Pay(w)
  <2>1. moved[r] = 0
    BY <1>2, <1>13 DEF Pay, Orderly
  <2>2. /\ moved'[r] <= 1 /\ worker'[w].pc = "record" /\ worker'[w].job = worker[w].job
        /\ worker'[w].paid \/ moved'[r] = moved[r]
    BY <1>1, <1>13, <2>1, PayMoves
  <2>3. RowOf(w)' = r
    BY <2>2 DEF RowOf
  <2>4. CASE worker'[w].paid
    <3>1. w \in Unrecorded'
      BY <2>2, <2>4 DEF Unrecorded, At
    <3>2. QED
      BY <1>8, <2>2, <2>3, <2>4, <3>1 DEF At
  <2>5. CASE moved'[r] = moved[r]
    BY <1>8, <2>1, <2>5
  <2>6. QED
    BY <2>2, <2>4, <2>5
<1>14. CASE Record(w)
  <2>1. CASE worker[w].paid
    <3>1. row'[r] = "processed" /\ moved' = moved /\ worker'[w].pc = "return"
      BY <1>1, <1>2, <1>3, <1>14, <2>1 DEF Record, Goto, TypeOK, Busy
    <3>2. QED
      BY <1>8, <1>10, <3>1 DEF At
  <2>2. CASE ~worker[w].paid
    <3>1. moved' = moved /\ moved[r] = 0
      BY <1>2, <1>14, <2>2 DEF Record, Orderly
    <3>2. QED
      BY <1>8, <3>1
  <2>3. QED
    BY <2>1, <2>2
<1>15. CASE Return(w)
  <2>1. w \notin Unrecorded /\ moved' = moved /\ row' = row /\ worker'[w] = Idle
    BY <1>3, <1>15 DEF Return, Unrecorded, At, Finish
  <2>2. QED
    BY <1>8, <1>9, <1>10, <2>1 DEF At, Idle
<1>16. CASE Throw(w)
  <2>1. w \notin Unrecorded
    BY <1>16 DEF Throw
  <2>2. moved' = moved /\ row' = row
    BY <1>16 DEF Throw
  <2>3. worker'[w].pc \in {"idle", "read"}
    BY <1>2, <1>3, <1>16 DEF Throw, Rethrow, Finish, Goto, Idle, Busy
  <2>4. QED
    BY <1>8, <1>9, <1>10, <2>1, <2>2, <2>3 DEF At
<1>17. QED
  BY <1>11, <1>12, <1>13, <1>14, <1>15, <1>16 DEF Handle

LEMMA OrderlyNext ==
  ASSUME MoneyInv, [Next]_vars, flow.gateway = "unkeyed", NEW r \in Rows \ doubt',
         Orderly(r)
  PROVE  Orderly(r)'
<1>1. TypeOK /\ Exclusive /\ worker \in [Workers -> Busy \cup {Idle}]
  BY DEF MoneyInv, TypeOK
<1>2. ASSUME NEW w \in Workers, Handle(w) \/ Throw(w) PROVE Orderly(r)'
  <2>1. CASE RowOf(w) = r
    BY <1>2, <2>1, OrderlyWorker
  <2>2. CASE RowOf(w) # r
    <3>1. /\ worker[w] \in Busy /\ worker[w].job \in JobIds /\ RowOf(w) \in Rows
      BY <1>1, <1>2, Working DEF Handle, ReadRow, FindAccount, Pay, Record, Return,
                                 Throw, At
    <3>2. row'[r] = row[r] /\ admin' = admin /\ ~RetryEnqueue
      BY <1>1, <1>2, <2>2, <3>1 DEF Handle, ReadRow, FindAccount, Pay, Record, Return,
                                    Throw, TypeOK, RetryEnqueue, AdminIdle
    <3>3. moved'[r] = moved[r]
      BY <1>1, <1>2, <2>2, PayMoves DEF Handle, ReadRow, FindAccount, Record, Return, Throw
    <3>4. \A v \in Workers \ {w} : worker'[v] = worker[v]
      BY <1>1, <1>2 DEF Handle, ReadRow, FindAccount, Pay, Record, Return, Throw, Finish,
                        Goto, Rethrow
    <3>5. worker'[w] = Idle \/ worker'[w].job = worker[w].job
      <4>1. CASE Pay(w)
        BY <1>1, <4>1, PayMoves
      <4>2. CASE ~Pay(w)
        BY <1>1, <1>2, <3>1, <4>2 DEF Handle, ReadRow, FindAccount, Record, Return,
                                      Throw, Finish, Goto, Rethrow, Busy
      <4>3. QED
        BY <4>1, <4>2
    <3>6. worker'[w].pc # "idle" => RowOf(w)' # r
      BY <2>2, <3>5 DEF RowOf, Idle
    <3>7. QED
      BY <3>2, <3>3, <3>4, <3>6, <2>2, OrderlyKept DEF Unrecorded
  <2>3. QED
    BY <2>1, <2>2
<1>3. ASSUME NEW w \in Workers, NEW j \in JobIds, Take(w, j) PROVE Orderly(r)'
  <2>1. /\ \A v \in Workers \ {w} : worker'[v] = worker[v]
        /\ worker'[w].pc = "read" /\ worker[w] = Idle
        /\ UNCHANGED <<row, moved, admin>>
    BY <1>1, <1>3 DEF Take
  <2>2. w \notin Unrecorded
    BY <2>1 DEF Unrecorded, At, Idle
  <2>3. ~RetryEnqueue
    BY <1>3 DEF Take, RetryEnqueue, AdminIdle
  <2>4. QED
    BY <2>1, <2>2, <2>3, OrderlyKept DEF Unrecorded
<1>4. CASE Crash
  <2>1. \A v \in Unrecorded : RowOf(v) # r
    BY <1>4 DEF Crash
  <2>2. /\ \A v \in Workers : worker'[v].pc = "idle"
        /\ UNCHANGED <<row, moved>> /\ admin'.pc # "enqueue"
    BY <1>4 DEF Crash, Idle, AdminIdle
  <2>3. QED
    BY <2>1, <2>2, OrderlyKept
<1>5. CASE RetryUpdate
  <2>1. /\ admin' = [admin EXCEPT !.pc = "enqueue"] /\ UNCHANGED <<worker, moved, job>>
        /\ row' = [row EXCEPT ![admin.row] = "pending"]
    BY <1>5 DEF RetryUpdate
  <2>2. admin \in [pc : {"update", "enqueue"}, row : Rows]
    BY <1>1, <1>5 DEF RetryUpdate, AdminIdle, TypeOK
  <2>3. admin'.row = admin.row
    BY <2>1, <2>2
  <2>4. CASE admin.row # r
    <3>1. row'[r] = row[r]
      BY <1>1, <2>1, <2>4 DEF TypeOK
    <3>2. moved'[r] > 0 => row'[r] = "processed" \/ \E w \in Unrecorded' : RowOf(w)' = r
      BY <2>1, <3>1 DEF Orderly, Unrecorded, At, RowOf
    <3>3. QED
      BY <2>1, <2>3, <2>4, <3>2, OrderlyJobs DEF Orderly, At, RowOf
  <2>5. CASE admin.row = r
    <3>1. row[r] # "processed" /\ ~Live(r)
      BY <1>5, <2>5 DEF RetryUpdate
    <3>2. ASSUME NEW v \in Unrecorded PROVE RowOf(v) # r
      <4>1. v \in Workers /\ worker[v].pc # "idle"
        BY <3>2 DEF Unrecorded, At
      <4>2. worker[v] # Idle /\ worker[v].job \in JobIds
        BY <1>1, <4>1, Working DEF Idle
      <4>3. job[worker[v].job].state = "active"
        BY <1>1, <4>1, <4>2 DEF Exclusive
      <4>4. QED
        BY <3>1, <4>2, <4>3 DEF Live, RowOf
    <3>3. moved[r] = 0
      BY <1>1, <3>1, <3>2 DEF Orderly, TypeOK
    <3>4. ~Live(r)'
      BY <2>1, <3>1 DEF Live
    <3>5. QED
      BY <2>1, <3>3, <3>4, OrderlyJobs DEF Orderly
  <2>6. QED
    BY <2>4, <2>5
<1>6. ASSUME UNCHANGED <<row, moved, worker>>,
             (admin' = admin /\ ~RetryEnqueue) \/ admin'.pc # "enqueue"
      PROVE  Orderly(r)'
  BY <1>6, OrderlyKept
<1>7. ASSUME NEW q \in Rows, RetryRead(q) PROVE Orderly(r)'
  BY <1>6, <1>7 DEF RetryRead
<1>8. CASE RetryEnqueue
  BY <1>6, <1>8 DEF RetryEnqueue, AdminIdle
<1>9. CASE UNCHANGED <<row, moved, worker, admin>>
  <2>1. CASE RetryEnqueue
    BY <1>8, <2>1
  <2>2. CASE ~RetryEnqueue
    BY <1>6, <1>9, <2>2
  <2>3. QED
    BY <2>1, <2>2
<1>10. QED
  BY <1>2, <1>3, <1>4, <1>5, <1>7, <1>8, <1>9
     DEF Next, Evict, RunNext, RunAll, AddAccount, vars

LEMMA UnkeyedNext == MoneyInv /\ [Next]_vars => UnkeyedOrderly'
<1> SUFFICES ASSUME MoneyInv, [Next]_vars, flow'.gateway = "unkeyed",
                    NEW r \in Rows \ doubt'
             PROVE  Orderly(r)'
  BY DEF UnkeyedOrderly
<1>1. r \notin doubt /\ flow.gateway = "unkeyed"
  BY DoubtGrows
<1>2. Orderly(r)
  BY <1>1 DEF MoneyInv, UnkeyedOrderly
<1>3. QED
  BY <1>1, <1>2, OrderlyNext

(***************************************************************************)
(* The money of a row moves once at most, whatever interleaves, is lost,   *)
(* repeated, retried or killed: where the call carries a key, always, and  *)
(* where it carries none, for every row that was never in doubt.           *)
(***************************************************************************)
THEOREM MovedAtMostOnce == Spec => []DisbursedOnce
<1>1. MoneyInv /\ [Next]_vars => MoneyInv'
  BY TypeNext, ExclusiveNext, KeyedNext, BulkNext, UnkeyedNext DEF MoneyInv
<1>2. MoneyInv => DisbursedOnce
  <2> SUFFICES ASSUME MoneyInv, NEW r \in Rows, moved[r] > 1
               PROVE  flow.gateway = "unkeyed" /\ r \in doubt
    BY DEF DisbursedOnce
  <2>1. ~(moved[r] <= 1)
    BY DEF MoneyInv, TypeOK
  <2>2. QED
    BY <2>1 DEF MoneyInv, KeyedOnce, UnkeyedOrderly, Orderly
<1>3. QED
  BY <1>1, <1>2, MoneyInit, PTL DEF Spec
=============================================================================

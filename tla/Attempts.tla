------------------------------ MODULE Attempts ------------------------------
(***************************************************************************)
(* One learner's attempts at one assessment (attempts.service.ts): starts  *)
(* under the retry policy, saves, submits and expiries that finalise an    *)
(* attempt, answers held for a manual grade, and the reviewers who         *)
(* invalidate and accept attempts.  An action of a request is the code     *)
(* between two awaits; attempts are found by a query and written by id,    *)
(* and nothing keeps the requests of two tabs apart.                       *)
(***************************************************************************)
EXTENDS RetryPolicy, SequencesExt

CONSTANTS
  Limit,       \* the assessment's time limit, or None
  Manual,      \* it has a code question that an instructor grades
  Requests,    \* the learner's requests
  Graders,     \* the instructor's requests
  MaxAttempts, MaxTime, MaxReviews, MaxFails   \* bounds

ASSUME AttemptsAssumption ==
  /\ Limit \in Nat \cup {None}
  /\ Manual \in BOOLEAN
  /\ {MaxAttempts, MaxTime, MaxReviews, MaxFails} \subseteq Nat

VARIABLES
  attempts,   \* the rows, in the order of their creation
  request,    \* request[r]: what a learner's request is doing
  grader,     \* grader[g]: what an instructor's request is doing
  now,
  reviews, fails

vars == <<attempts, request, grader, now, reviews, fails>>

Ids == 1..Len(attempts)

\* passed is None until the attempt is graded; told is the history of
\* AttemptSubmitted events, tainted says that it was ever invalidated, stale
\* that a request wrote it on what another had changed since it looked.
Attempt ==
  [started : 0..MaxTime, submitted : (0..MaxTime) \cup {None},
   held : BOOLEAN, passed : BOOLEAN \cup {None}, invalid : BOOLEAN,
   tainted : BOOLEAN, stale : BOOLEAN, told : Seq(BOOLEAN)]

\* saw holds the attempts that were submitted when a start was judged.
Idle == [pc |-> "idle", id |-> 0, starts |-> FALSE, passed |-> None, saw |-> {}]
Local(pcs) == [pc : pcs \cup {"idle", "tell"}, id : 0..MaxAttempts,
               starts : BOOLEAN, passed : BOOLEAN \cup {None},
               saw : SUBSET (1..MaxAttempts)]

TypeOK ==
  /\ attempts \in Seq(Attempt) /\ Len(attempts) <= MaxAttempts
  /\ request \in [Requests ->
                    Local({"save", "finalize", "eligible", "create"})]
  /\ grader \in [Graders -> Local({"read", "write"})]
  /\ now \in 0..MaxTime
  /\ reviews \in 0..MaxReviews /\ fails \in 0..MaxFails

Init ==
  /\ attempts = <<>>
  /\ request = [r \in Requests |-> Idle]
  /\ grader = [g \in Graders |-> Idle]
  /\ now = 0 /\ reviews = 0 /\ fails = 0

Goto(r, pc) == request' = [request EXCEPT ![r].pc = pc]
Done(r) == request' = [request EXCEPT ![r] = Idle]

Open(i) == attempts[i].submitted = None
Expired(i) == Open(i) /\ Limit # None /\ now > attempts[i].started + Limit

----------------------------------------------------------------------------
(* Eligibility                                                             *)

\* Of two rows submitted at one time, the first comes first.
Before(i, j) ==
  \/ attempts[i].submitted < attempts[j].submitted
  \/ attempts[i].submitted = attempts[j].submitted /\ i < j

\* The rows of a set, oldest first: n - 1 of them come before the n-th.
InOrder(set) ==
  [n \in 1..Cardinality(set) |->
     CHOOSE i \in set : Cardinality({j \in set : Before(j, i)}) = n - 1]

\* Submitted attempts that are not invalidated, oldest first.
Counted == {i \in Ids : ~Open(i) /\ ~attempts[i].invalid}
CountedInOrder == InOrder(Counted)

\* The policy's verdict, unless an attempt still waits for its manual grade.
MayStart ==
  /\ CanRetry([n \in DOMAIN CountedInOrder |->
                 attempts[CountedInOrder[n]].submitted],
              \E i \in Counted : attempts[i].passed = TRUE, now)
  /\ ~\E i \in Counted : attempts[i].passed = None /\ attempts[i].held

----------------------------------------------------------------------------
(* The learner                                                             *)

\* startOrResume looks for the latest attempt in progress.  One that expired is
\* finalised first; one that goes on is resumed, which changes nothing.
Start(r) ==
  LET open == {i \in Ids : Open(i)}
      last == Max(open)
  IN  /\ request[r] = Idle
      /\ open # {} => Expired(last)
      /\ request' = [request EXCEPT ![r] =
           [Idle EXCEPT !.pc = IF open = {} THEN "eligible" ELSE "finalize",
                        !.id = IF open = {} THEN 0 ELSE last,
                        !.starts = TRUE]]
      /\ UNCHANGED <<attempts, grader, now, reviews, fails>>

\* The prerequisites are asked of the completion service.
CheckEligible(r) ==
  /\ request[r].pc = "eligible"
  /\ \E unlocked \in BOOLEAN :
       IF MayStart /\ unlocked
       THEN request' = [request EXCEPT ![r].pc = "create",
                                       ![r].saw = {i \in Ids : ~Open(i)}]
       ELSE Done(r)
  /\ UNCHANGED <<attempts, grader, now, reviews, fails>>

\* There is an attempt that the start was not judged by.
Overtaken(r) == request[r].saw # Ids

Create(r) ==
  /\ request[r].pc = "create"
  /\ Len(attempts) < MaxAttempts
  /\ attempts' = Append(attempts,
       [started |-> now, submitted |-> None, held |-> FALSE, passed |-> None,
        invalid |-> FALSE, tainted |-> FALSE, stale |-> Overtaken(r),
        told |-> <<>>])
  /\ Done(r)
  /\ UNCHANGED <<grader, now, reviews, fails>>

\* submit, a save or a poll loads the row; the last two finalise it when it
\* has expired.
Load(r) ==
  /\ request[r] = Idle
  /\ \E i \in Ids, pc \in {"save", "finalize"} :
       /\ Open(i)
       /\ pc = "save" => ~Expired(i)
       /\ request' = [request EXCEPT ![r] = [Idle EXCEPT !.pc = pc, !.id = i]]
  /\ UNCHANGED <<attempts, grader, now, reviews, fails>>

\* An answer is written with all that was read beside it: what is held for an
\* instructor is none, although the attempt may have been finalised since.
Save(r) ==
  /\ request[r].pc = "save"
  /\ attempts' = [attempts EXCEPT ![request[r].id].held = FALSE]
  /\ Done(r)
  /\ UNCHANGED <<grader, now, reviews, fails>>

\* Mutant: a held attempt is announced before it is graded.
AnnouncedAtOnce(held) == TRUE

\* "a held one waits until the manual grade lands"
Announced(held) == ~held

\* A request that finalised an expired attempt on its way to a new one goes on.
GoesOn(r) ==
  IF request[r].starts THEN [Idle EXCEPT !.pc = "eligible", !.starts = TRUE]
                       ELSE Idle

\* finalize: graded, or held for an instructor, and written by id, whatever
\* the row has become.
Finalize(r) ==
  LET i == request[r].id IN
  /\ request[r].pc = "finalize"
  /\ \E held \in (IF Manual THEN BOOLEAN ELSE {FALSE}), passed \in BOOLEAN :
       /\ attempts' = [attempts EXCEPT
            ![i].submitted = now, ![i].held = held,
            ![i].passed = IF held THEN None ELSE passed,
            ![i].stale = @ \/ ~Open(i)]
       /\ request' = [request EXCEPT
            ![r] = IF Announced(held)
                   THEN [@ EXCEPT !.pc = "tell", !.passed = ~held /\ passed]
                   ELSE GoesOn(r)]
  /\ UNCHANGED <<grader, now, reviews, fails>>

\* The AttemptSubmitted event.
Announce(i, passed) ==
  attempts' = [attempts EXCEPT ![i].told = Append(@, passed)]

Tell(r) ==
  /\ request[r].pc = "tell"
  /\ Announce(request[r].id, request[r].passed)
  /\ request' = [request EXCEPT ![r] = GoesOn(r)]
  /\ UNCHANGED <<grader, now, reviews, fails>>

----------------------------------------------------------------------------
(* The instructor and the reviewers                                        *)

\* gradeManual: an attempt with nothing held is refused.
ReadHeld(g, i) ==
  /\ grader[g] = Idle
  /\ ~Open(i) /\ attempts[i].held
  /\ grader' = [grader EXCEPT ![g] = [Idle EXCEPT !.pc = "write", !.id = i]]
  /\ UNCHANGED <<attempts, request, now, reviews, fails>>

WriteGrade(g) ==
  LET held == attempts[grader[g].id].held IN
  /\ grader[g].pc = "write"
  /\ \E passed \in BOOLEAN :
       /\ attempts' = [attempts EXCEPT ![grader[g].id].held = FALSE,
                                       ![grader[g].id].passed = passed,
                                       ![grader[g].id].stale = @ \/ ~held]
       /\ grader' = [grader EXCEPT ![g].pc = "tell", ![g].passed = passed]
  /\ UNCHANGED <<request, now, reviews, fails>>

TellGrade(g) ==
  /\ grader[g].pc = "tell"
  /\ Announce(grader[g].id, grader[g].passed)
  /\ grader' = [grader EXCEPT ![g] = Idle]
  /\ UNCHANGED <<request, now, reviews, fails>>

Review(i, invalid) ==
  /\ attempts[i].invalid # invalid
  /\ reviews < MaxReviews
  /\ reviews' = reviews + 1
  /\ attempts' = [attempts EXCEPT ![i].invalid = invalid, ![i].tainted = TRUE]
  /\ UNCHANGED <<request, grader, now, fails>>

Invalidate(i) == Review(i, TRUE)
Accept(i) == Review(i, FALSE)

Tick ==
  /\ now < MaxTime
  /\ now' = now + 1
  /\ UNCHANGED <<attempts, request, grader, reviews, fails>>

\* A rejected await, or a crash of the process.
Fail ==
  /\ fails < MaxFails
  /\ fails' = fails + 1
  /\ \/ \E r \in Requests : request[r] # Idle /\ Done(r) /\ UNCHANGED grader
     \/ \E g \in Graders :
          grader[g] # Idle /\ grader' = [grader EXCEPT ![g] = Idle]
                           /\ UNCHANGED request
  /\ UNCHANGED <<attempts, now, reviews>>

Next ==
  \/ \E r \in Requests :
       Start(r) \/ CheckEligible(r) \/ Create(r)
       \/ Load(r) \/ Save(r) \/ Finalize(r) \/ Tell(r)
  \/ \E g \in Graders :
       (\E i \in Ids : ReadHeld(g, i)) \/ WriteGrade(g) \/ TellGrade(g)
  \/ \E i \in Ids : Invalidate(i) \/ Accept(i)
  \/ Tick \/ Fail

Spec == Init /\ [][Next]_vars

----------------------------------------------------------------------------
(* Properties.                                                             *)

\* Attempts that were submitted and never invalidated, oldest first, but for
\* those that a start made beside another or a second finalisation wrote again.
Standing ==
  InOrder({i \in Ids : ~Open(i) /\ ~attempts[i].tainted /\ ~attempts[i].stale})

At(n) == attempts[Standing[n]].submitted

\* Whatever was invalidated and accepted meanwhile, and whatever overlapped, the
\* attempts that always counted and that no request wrote on what it had read too
\* early keep to the policy: nobody goes on after a pass, two of them are a
\* cooldown or a lockout apart, and no lockout's length holds more of them than a
\* window allows.
RetriesWithinPolicy ==
  \A n \in 2..Len(Standing) :
    /\ \A k \in 1..(n - 1) : attempts[Standing[k]].passed # TRUE
    /\ \/ Spacing = None
       \/ At(n) >= At(n - 1) + Spacing
       \/ Lockout # None /\ At(n) >= At(n - 1) + Lockout
    /\ MaxTries # None /\ n > MaxTries =>
         Lockout # None /\ At(n) >= At(n - MaxTries) + Lockout

\* The outcome that completion, engagement and reminders were told is told
\* once and is the one that stands ("a held one waits until the manual grade
\* lands, which fires this then"), whatever saves overlap, unless a second
\* finalisation or a second grade wrote the attempt again.
GradeStands ==
  \A i \in Ids :
    ~attempts[i].stale => attempts[i].told \in {<<>>, <<attempts[i].passed>>}
=============================================================================

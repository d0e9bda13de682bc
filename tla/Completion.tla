----------------------------- MODULE Completion -----------------------------
(***************************************************************************)
(* What one learner has completed (completion.service.ts): progress        *)
(* reports on lessons, and the lazy recomputation of courses, paths and    *)
(* cohorts by whoever looks at them; then the certificates the             *)
(* EntityCompleted event issues (certificates.service.ts).                 *)
(*                                                                         *)
(* A request is one call of recordLessonProgress or of a progress view.    *)
(* Each of its actions is the code between two awaits: several requests of *)
(* the learner run at once, each on what it read earlier.  A lesson's row  *)
(* (LessonCompletion) and an entity's (CompletionStatus) are written by    *)
(* the same pattern, so one set of actions writes both.                    *)
(***************************************************************************)
EXTENDS Naturals, Sequences, FiniteSets

CONSTANTS
  Courses, Paths, Cohorts,
  Parts,        \* Parts[e]: the courses (and paths) of a path or cohort
  Required,     \* Required[p]: the required courses of a path
  Lessons,
  CourseOf,     \* CourseOf[l]
  Readable,     \* lessons of type text or pdf
  Codes,        \* lessons of type code; the rest is video and audio
  MinWatch,     \* minVideoWatchPct
  Items,        \* assessments that have questions, and projects
  Quiz,         \* Quiz[l]: the post-lesson quiz, or None
  Gates,        \* Gates[e]: the entity's own assessments and projects
  Reports,      \* percentages a player reports
  None,
  Requests,     \* concurrent requests (a bound)
  MaxRequests,  \* bound on requests
  MaxInvalidations, MaxFails  \* bounds on invalidations and failures

Aggregates == Paths \cup Cohorts
Entities == Courses \cup Aggregates
Rows == Lessons \cup Entities

LessonsOf(c) == {l \in Lessons : CourseOf[l] = c}

ASSUME CompletionAssumption ==
  /\ Courses \cap Aggregates = {} /\ Paths \cap Cohorts = {}
  /\ Lessons \cap Entities = {}
  /\ CourseOf \in [Lessons -> Courses]
  /\ Readable \subseteq Lessons /\ Codes \subseteq Lessons \ Readable
  /\ Quiz \in [Lessons -> Items \cup {None}]
  /\ Gates \in [Entities -> SUBSET Items]
  /\ Parts \in [Aggregates -> SUBSET (Courses \cup Paths)]
  /\ \A p \in Paths : Parts[p] \subseteq Courses
  \* within one cohort no course occurs twice
  /\ \A a \in Cohorts : \A p \in Parts[a] \cap Paths :
       \A d \in (Parts[a] \cap Paths) \ {p} : Parts[p] \cap Parts[d] = {}
  /\ \A a \in Cohorts : \A p \in Parts[a] \cap Paths :
       Parts[p] \cap Parts[a] = {}
  /\ Required \in [Paths -> SUBSET Courses]
  /\ \A p \in Paths : Required[p] \subseteq Parts[p]
  /\ MinWatch \in 0..100 /\ Reports \subseteq 0..100
  /\ None \notin Rows \cup Items \cup Reports \cup [pct : 0..100, done : BOOLEAN]
  /\ MaxRequests \in Nat /\ MaxInvalidations \in Nat /\ MaxFails \in Nat

VARIABLES
  row,        \* row[x]: None, or the furthest percentage and whether
              \* completedAt is set (an entity's percentage is left out)
  passed,     \* items the learner passed, validly
  request,    \* request[r]: the local state of request r
  issuing,    \* issuing[e][stage]: certificate handlers at work
  certificates,  \* certificates[e]: Certificate rows
  flagged,    \* entities whose status says certificateIssued
  started, invalidations, fails,
  peak        \* history: peak[l]: the highest percentage reported of l

certVars == <<issuing, certificates, flagged>>
bounds == <<started, invalidations, fails>>
vars == <<row, passed, request, certVars, bounds, peak>>

Pcs == {"idle", "read", "quiz", "write", "flip", "tell"}

Idle == [pc |-> "idle", lesson |-> None, pct |-> 0, quizOk |-> FALSE,
         todo |-> {}, entity |-> None, watched |-> None, passes |-> None,
         complete |-> {}, saw |-> None]

RowValues == {None} \cup [pct : 0..100, done : BOOLEAN]

RequestStates ==
  [pc : Pcs, lesson : Lessons \cup {None}, pct : 0..100, quizOk : BOOLEAN,
   todo : SUBSET Entities, entity : Entities \cup {None},
   watched : {None} \cup SUBSET Lessons, passes : {None} \cup SUBSET Items,
   complete : SUBSET Entities, saw : RowValues]

Stages == {"look", "create", "flag"}

TypeOK ==
  /\ row \in [Rows -> RowValues]
  /\ passed \subseteq Items
  /\ request \in [Requests -> RequestStates]
  /\ issuing \in [Entities -> [Stages -> Nat]]
  /\ certificates \in [Entities -> Nat]
  /\ flagged \subseteq Entities
  /\ started \in 0..MaxRequests
  /\ invalidations \in 0..MaxInvalidations
  /\ fails \in 0..MaxFails
  /\ peak \in [Lessons -> 0..100]

\* A learner who has begun nothing.
Init ==
  /\ row = [x \in Rows |-> None]
  /\ passed = {}
  /\ request = [r \in Requests |-> Idle]
  /\ issuing = [e \in Entities |-> [s \in Stages |-> 0]]
  /\ certificates = [e \in Entities |-> 0]
  /\ flagged = {}
  /\ started = 0 /\ invalidations = 0 /\ fails = 0
  /\ peak = [l \in Lessons |-> 0]

----------------------------------------------------------------------------
(* What counts as done.                                                    *)

\* The report and the views disagree on code lessons.
ReportThreshold(l) == IF l \in Readable \cup Codes THEN 100 ELSE MinWatch
ViewThreshold(l) == IF l \in Readable THEN 100 ELSE MinWatch

Pct(x) == IF row[x] = None THEN 0 ELSE row[x].pct

Consumed == {l \in Lessons : Pct(l) >= ViewThreshold(l)}

CourseMet(e, watched, passes) ==
  \A l \in LessonsOf(e) : l \in watched /\ Quiz[l] \in passes \cup {None}

\* The required courses or, if none is, all of them; a path without courses
\* is never complete.
PathMet(e, complete) ==
  LET gating == IF Required[e] # {} THEN Required[e] ELSE Parts[e]
  IN  gating # {} /\ gating \subseteq complete

CohortMet(e, complete) == Parts[e] \subseteq complete

\* Mutant: an aggregate's own assessments and projects do not gate it.
CompleteByParts(e, watched, passes, complete) ==
  /\ e \in Courses => Gates[e] \subseteq passes /\ CourseMet(e, watched, passes)
  /\ e \in Aggregates => CohortMet(e, complete)

\* Is e complete for one who consumed the lessons watched, passed the items
\* passes and completed the entities complete?
Complete(e, watched, passes, complete) ==
  /\ Gates[e] \subseteq passes
  /\ e \in Courses => CourseMet(e, watched, passes)
  /\ e \in Paths => PathMet(e, complete)
  /\ e \in Cohorts => CohortMet(e, complete)

\* The entities a view of e computes, e itself last.
Plan(e) ==
  IF e \in Courses THEN {e}
  ELSE {e} \cup Parts[e] \cup UNION {Parts[p] : p \in Parts[e] \cap Paths}

\* The next of them: one whose parts are computed.
NextEntity(todo) ==
  CHOOSE e \in todo : e \in Aggregates => Parts[e] \cap todo = {}

----------------------------------------------------------------------------
(* One request.                                                            *)

At(r, pc) == request[r].pc = pc

Become(r, local) == request' = [request EXCEPT ![r] = local]

Reporting(r) == request[r].lesson # None

\* A request with entities left goes on to the next, or ends.
Compute(r, todo, complete) ==
  Become(r, IF todo = {} THEN Idle
            ELSE [Idle EXCEPT !.pc = "read", !.todo = todo,
                              !.entity = NextEntity(todo), !.complete = complete])

\* A progress report on a lesson, or a look at an entity's progress.
Begin(r) ==
  /\ At(r, "idle") /\ started < MaxRequests
  /\ started' = started + 1
  /\ UNCHANGED <<row, passed, certVars, invalidations, fails>>

Report(r, l, pct) ==
  /\ Begin(r)
  /\ peak' = [peak EXCEPT ![l] = IF pct > @ THEN pct ELSE @]
  /\ Become(r, [Idle EXCEPT !.pc = "read", !.lesson = l, !.pct = pct])

View(r, e) == Begin(r) /\ Compute(r, Plan(e), {}) /\ UNCHANGED peak

\* A request step that writes nothing.
Reading == UNCHANGED <<row, passed, certVars, bounds, peak>>

ReadLesson(r) ==
  LET q == request[r] IN
  /\ At(r, "read") /\ Reporting(r)
  /\ Become(r, [q EXCEPT !.saw = row[q.lesson],
                         !.pc = IF Quiz[q.lesson] = None THEN "write" ELSE "quiz",
                         !.quizOk = Quiz[q.lesson] = None])
  /\ Reading

ReadQuiz(r) ==
  LET q == request[r] IN
  /\ At(r, "quiz")
  /\ Become(r, [q EXCEPT !.pc = "write", !.quizOk = Quiz[q.lesson] \in passed])
  /\ Reading

\* The rows and the passes of an entity are read by parallel queries.
ReadWatched(r) ==
  LET q == request[r] IN
  /\ At(r, "read") /\ q.entity \in Courses /\ q.watched = None
  /\ Become(r, [q EXCEPT !.watched = Consumed \cap LessonsOf(q.entity)])
  /\ Reading

ReadPassed(r) ==
  LET q == request[r]
      quizzes == {Quiz[l] : l \in {m \in LessonsOf(q.entity) : Quiz[m] # None}}
  IN
  /\ At(r, "read") /\ ~Reporting(r) /\ q.passes = None
  /\ Become(r, [q EXCEPT !.passes = passed \cap (Gates[q.entity] \cup quizzes)])
  /\ Reading

\* With both, the verdict; then persistCompletion looks the status up.
FindStatus(r) ==
  LET q == request[r]
      watched == IF q.entity \in Courses THEN q.watched ELSE {}
  IN
  /\ At(r, "read") /\ q.passes # None
  /\ watched # None
  /\ Become(r, [q EXCEPT !.pc = "write", !.saw = row[q.entity],
                         !.watched = None, !.passes = None,
                         !.complete = IF Complete(q.entity, watched, q.passes, @)
                                      THEN @ \cup {q.entity} ELSE @])
  /\ Reading

----------------------------------------------------------------------------
(* The write, by what the request saw.                                     *)

Target(r) == IF Reporting(r) THEN request[r].lesson ELSE request[r].entity

\* Mutant: the row takes the percentage reported.
Latest(r) == request[r].pct

\* The furthest percentage the request knows of.
Furthest(r) ==
  LET seen == IF request[r].saw = None THEN 0 ELSE request[r].saw.pct
  IN  IF request[r].pct > seen THEN request[r].pct ELSE seen

Verdict(r) ==
  IF Reporting(r)
  THEN Furthest(r) >= ReportThreshold(request[r].lesson) /\ request[r].quizOk
  ELSE request[r].entity \in request[r].complete

NewRow(r) ==
  [pct |-> IF Reporting(r) THEN Furthest(r) ELSE 0, done |-> Verdict(r)]

\* After a write that emits or does not: a report goes on with its course,
\* a view with its next entity.
Onward(r) ==
  LET q == request[r] IN
  IF Reporting(r) THEN Compute(r, Plan(CourseOf[q.lesson]), {})
                  ELSE Compute(r, q.todo \ {q.entity}, q.complete)

Written(r, x, emits) ==
  /\ row' = [row EXCEPT ![x] = NewRow(r)]
  /\ IF emits THEN Become(r, [request[r] EXCEPT !.pc = "tell"]) ELSE Onward(r)

\* Mutant: the write is not conditional.
FlipRowAnyway(r, x) == Written(r, x, NewRow(r).done)

\* The conditional write: only the request that flips the row emits.
FlipRow(r, x) ==
  \/ /\ row[x] # None /\ ~row[x].done
     /\ Written(r, x, NewRow(r).done)
  \/ /\ row[x] = None \/ row[x].done
     /\ Onward(r)
     /\ UNCHANGED row

\* Mutant: the loser of a create race gives up.
CreateRowOrNot(r, x) ==
  \/ /\ row[x] = None
     /\ Written(r, x, NewRow(r).done)
  \/ /\ row[x] # None
     /\ Onward(r)
     /\ UNCHANGED row

CreateRow(r, x) ==
  \/ /\ row[x] = None
     /\ Written(r, x, NewRow(r).done)
  \/ /\ row[x] # None
     /\ Become(r, [request[r] EXCEPT !.pc = "flip"])
     /\ UNCHANGED row

WriteRow(r) ==
  LET saw == request[r].saw
      x == Target(r)
  IN
  /\ At(r, "write")
  /\ IF saw = None THEN CreateRow(r, x)
     ELSE IF Verdict(r) /\ ~saw.done THEN FlipRow(r, x)
     ELSE Written(r, x, FALSE)
  /\ UNCHANGED <<passed, certVars, bounds, peak>>

FlipAfterCreate(r) ==
  /\ At(r, "flip")
  /\ FlipRow(r, Target(r))
  /\ UNCHANGED <<passed, certVars, bounds, peak>>

\* The event: EntityCompleted starts a certificate handler, LessonCompleted
\* has no listener here.
Tell(r) ==
  LET x == Target(r) IN
  /\ At(r, "tell")
  /\ issuing' = IF x \in Entities
                THEN [issuing EXCEPT ![x].look = @ + 1] ELSE issuing
  /\ Onward(r)
  /\ UNCHANGED <<row, passed, certificates, flagged, bounds, peak>>

----------------------------------------------------------------------------
(* Certificates.                                                           *)

\* One handler of e leaves a stage, for another or for good.
Moves(e, from, to) ==
  /\ issuing[e][from] > 0
  /\ issuing' = [issuing EXCEPT
       ![e] = [s \in Stages |-> @[s] - (IF s = from THEN 1 ELSE 0)
                                    + (IF s = to THEN 1 ELSE 0)]]
  /\ UNCHANGED <<row, passed, request, started, invalidations, peak>>

LookCertificate(e) ==
  /\ Moves(e, "look", IF certificates[e] = 0 THEN "create" ELSE "end")
  /\ UNCHANGED <<certificates, flagged, fails>>

CreateCertificate(e) ==
  /\ Moves(e, "create", "flag")
  /\ certificates' = [certificates EXCEPT ![e] = @ + 1]
  /\ UNCHANGED <<flagged, fails>>

FlagCompletion(e) ==
  /\ Moves(e, "flag", "end")
  /\ flagged' = flagged \cup {e}
  /\ UNCHANGED <<certificates, fails>>

----------------------------------------------------------------------------
(* The rest of the world.                                                  *)

\* An attempt is graded or accepted, a submission graded.
Pass(i) ==
  /\ i \notin passed
  /\ passed' = passed \cup {i}
  /\ UNCHANGED <<row, request, certVars, bounds, peak>>

\* An integrity review invalidates the passing attempt, or a grader takes
\* the pass back.
Invalidate(i) ==
  /\ i \in passed /\ invalidations < MaxInvalidations
  /\ invalidations' = invalidations + 1
  /\ passed' = passed \ {i}
  /\ UNCHANGED <<row, request, certVars, started, fails, peak>>

\* A rejected await, or the crash of the process, ends a request or a handler.
FailRequest(r) ==
  /\ ~At(r, "idle") /\ fails < MaxFails
  /\ fails' = fails + 1
  /\ Become(r, Idle)
  /\ UNCHANGED <<row, passed, certVars, started, invalidations, peak>>

FailHandler(e, s) ==
  /\ fails < MaxFails
  /\ fails' = fails + 1
  /\ Moves(e, s, "end")
  /\ UNCHANGED <<certificates, flagged>>

RequestStep(r) ==
  \/ ReadLesson(r) \/ ReadQuiz(r)
  \/ ReadWatched(r) \/ ReadPassed(r) \/ FindStatus(r)
  \/ WriteRow(r) \/ FlipAfterCreate(r) \/ Tell(r)

HandlerStep(e) ==
  LookCertificate(e) \/ CreateCertificate(e) \/ FlagCompletion(e)

Next ==
  \/ \E r \in Requests :
       \/ \E l \in Lessons, pct \in Reports : Report(r, l, pct)
       \/ \E e \in Entities : View(r, e)
       \/ RequestStep(r) \/ FailRequest(r)
  \/ \E e \in Entities :
       \/ HandlerStep(e)
       \/ \E s \in Stages : FailHandler(e, s)
  \/ \E i \in Items : Pass(i) \/ Invalidate(i)

Spec == Init /\ [][Next]_vars

\* A request and a handler that have begun go on; learners and reviewers
\* are free.
FairSpec ==
  /\ Spec
  /\ \A r \in Requests : WF_vars(RequestStep(r))
  /\ \A e \in Entities : WF_vars(HandlerStep(e))

----------------------------------------------------------------------------
(* Properties.                                                             *)

\* What the documentation of recordLessonProgress claims: "completion, once
\* reached, is never revoked by later partial views" (completion.service.ts:
\* 190-191); only an invalidation re-opens a lesson.  A report that read the
\* row before another one completed it writes its older state over it.
NeverRevoked ==
  [][\A l \in Lessons :
       row[l] # None /\ row[l].done /\ invalidations = 0 => row'[l].done]_row

\* What the code keeps of that: the percentage watched is lowered, and a
\* completed lesson taken back without an invalidation, only by the report of
\* a request that read the lesson before another request wrote it, never by
\* one that read what it overwrites.
LoweredByStaleOnly ==
  [][\A l \in Lessons : row[l] # None =>
       \/ /\ row'[l] # None /\ row'[l].pct >= row[l].pct
          /\ row[l].done /\ ~row'[l].done => invalidations > 0
       \/ \E r \in Requests :
            /\ request[r].lesson = l /\ (At(r, "write") \/ At(r, "flip"))
            /\ request'[r] # request[r] /\ request[r].saw # row[l]]_row

\* A request sets out to announce a completion only with the write that
\* turned the row complete ("concurrent progress reads can't double-emit").
OnlyFlipsAreTold ==
  [][\A r \in Requests : request'[r].pc = "tell" /\ ~At(r, "tell") =>
       LET x == Target(r) IN
       (row[x] = None \/ ~row[x].done) /\ row'[x].done]_request

\* The reference: the entities e stands on, with their lessons, quizzes and
\* gates, straight from what was reported and passed.
Gating(e) ==
  IF e \in Paths /\ Required[e] # {} THEN Required[e]
  ELSE IF e \in Aggregates THEN Parts[e] ELSE {}

StandsOn(e) == {e} \cup Gating(e) \cup UNION {Gating(d) : d \in Gating(e)}

Earned(e) ==
  \A d \in StandsOn(e) :
    /\ Gates[d] \subseteq passed
    /\ \A l \in LessonsOf(d) :
         peak[l] >= ViewThreshold(l) /\ Quiz[l] \in passed \cup {None}

\* A status that says so has its certificate, and without invalidations a
\* certificate stands for items passed and lessons watched as far as the views
\* ask, each in some report: no sum of stale reads and stale writes completes
\* an entity whose gates were never all met.
CertifiedIsEarned ==
  \A e \in Entities :
    /\ e \in flagged => certificates[e] > 0
    /\ certificates[e] > 0 /\ invalidations = 0 => Earned(e)

\* Without failures, a view that found everything met, whatever runs beside
\* it, ends in a certificate and in a status that says so.
ReachedIsCertified ==
  \A e \in Entities :
    (\E r \in Requests :
       At(r, "write") /\ request[r].entity = e /\ e \in request[r].complete)
      ~> e \in flagged \/ fails > 0
=============================================================================

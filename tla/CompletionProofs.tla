-------------------------- MODULE CompletionProofs --------------------------
(***************************************************************************)
(* Completion, for every tree of lessons, courses, paths and cohorts and   *)
(* any number of requests, reports, passes, invalidations and failures:    *)
(* types; a completion is announced by the write that made it so; and, if  *)
(* two reports of one lesson never overlap, what was watched is never      *)
(* lowered and certificates stand for earned work.                         *)
(***************************************************************************)
EXTENDS Completion, TLAPS

\* A request at work is about a lesson or about an entity.
Directed(q) ==
  /\ q.pc # "idle" => (q.lesson = None <=> q.entity # None)
  /\ q.lesson # None => q.passes = None /\ q.entity = None
  /\ q.pc = "quiz" => q.lesson # None

Typed == TypeOK /\ \A r \in Requests : Directed(request[r])

\* What a request turns into when it computes the next of todo.
Computing(todo, complete) ==
  IF todo = {} THEN Idle
  ELSE [Idle EXCEPT !.pc = "read", !.todo = todo,
                    !.entity = NextEntity(todo), !.complete = complete]

Continued(r) ==
  IF Reporting(r) THEN Computing(Plan(CourseOf[request[r].lesson]), {})
  ELSE Computing(request[r].todo \ {request[r].entity}, request[r].complete)

\* A request that has read nothing yet.
Fresh(q, complete) ==
  /\ q \in RequestStates /\ Directed(q)
  /\ q.pc \in {"idle", "read"} /\ q.lesson = None
  /\ q.watched = None /\ q.passes = None
  /\ q.complete \subseteq complete

----------------------------------------------------------------------------
(* The helpers.                                                            *)

\* Whatever is left to compute, some entity's parts are not among it.
LEMMA NextEntityIsLeft ==
  ASSUME NEW todo \in SUBSET Entities, todo # {}
  PROVE  NextEntity(todo) \in todo
<1> SUFFICES \E e \in todo : e \in Aggregates => Parts[e] \cap todo = {}
  BY DEF NextEntity
<1>1. CASE \E e \in todo : e \in Courses
  BY <1>1, CompletionAssumption
<1>2. CASE (\A e \in todo : e \notin Courses) /\ \E p \in todo : p \in Paths
  <2>1. PICK p \in todo : p \in Paths
    BY <1>2
  <2>2. Parts[p] \subseteq Courses
    BY <2>1, CompletionAssumption
  <2>3. Parts[p] \cap todo = {}
    BY <1>2, <2>2
  <2>4. QED
    BY <2>3
<1>3. CASE \A e \in todo : e \notin Courses /\ e \notin Paths
  <2>1. PICK a \in todo : TRUE
    OBVIOUS
  <2>2. a \in Cohorts
    BY <1>3 DEF Entities, Aggregates
  <2>3. Parts[a] \subseteq Courses \cup Paths
    BY <2>2, CompletionAssumption DEF Aggregates
  <2>4. Parts[a] \cap todo = {}
    BY <1>3, <2>3
  <2>5. QED
    BY <2>4
<1>4. QED
  BY <1>1, <1>2, <1>3

LEMMA NoneIsNothing == None \notin Lessons /\ None \notin Entities /\ None \notin Items
BY CompletionAssumption DEF Rows

LEMMA PlanOfEntities ==
  ASSUME NEW e \in Entities
  PROVE  Plan(e) \in SUBSET Entities
<1>1. CASE e \in Courses
  BY <1>1 DEF Plan
<1>2. CASE e \notin Courses
  <2>1. e \in Aggregates
    BY <1>2 DEF Entities
  <2>2. \A d \in Aggregates : Parts[d] \subseteq Entities
    BY CompletionAssumption DEF Entities, Aggregates
  <2>3. UNION {Parts[p] : p \in Parts[e] \cap Paths} \subseteq Entities
    BY <2>2 DEF Aggregates
  <2>4. QED
    BY <1>2, <2>1, <2>2, <2>3 DEF Plan
<1>3. QED
  BY <1>1, <1>2

LEMMA IdleIsFresh == \A complete : Fresh(Idle, complete)
BY DEF Fresh, Idle, RequestStates, Pcs, RowValues, Directed

\* The local state of a request that is about to compute e.
LEMMA StartedIsFresh ==
  ASSUME NEW todo \in SUBSET Entities, NEW complete \in SUBSET Entities,
         NEW e \in Entities
  PROVE  Fresh([Idle EXCEPT !.pc = "read", !.todo = todo,
                            !.entity = e, !.complete = complete], complete)
<1> DEFINE q == [Idle EXCEPT !.pc = "read", !.todo = todo,
                             !.entity = e, !.complete = complete]
<1>1. e # None
  BY NoneIsNothing
<1>2. /\ q.pc = "read" /\ q.lesson = None /\ q.pct = 0 /\ q.quizOk = FALSE
      /\ q.todo = todo /\ q.entity = e /\ q.watched = None /\ q.passes = None
      /\ q.complete = complete /\ q.saw = None
  BY DEF Idle
<1>3. Idle \in RequestStates
  BY IdleIsFresh DEF Fresh
<1>4. q \in RequestStates
  BY <1>3 DEF RequestStates, Pcs
<1> HIDE DEF q
<1>5. QED
  BY <1>1, <1>2, <1>4 DEF Fresh, Directed, q

LEMMA ComputingIsFresh ==
  ASSUME NEW todo \in SUBSET Entities, NEW complete \in SUBSET Entities
  PROVE  Fresh(Computing(todo, complete), complete)
<1>1. CASE todo = {}
  BY <1>1, IdleIsFresh DEF Computing
<1>2. CASE todo # {}
  <2>1. NextEntity(todo) \in Entities
    BY <1>2, NextEntityIsLeft
  <2>2. QED
    BY <1>2, <2>1, StartedIsFresh DEF Computing
<1>3. QED
  BY <1>1, <1>2

LEMMA ContinuedIsFresh ==
  ASSUME Typed, NEW r \in Requests
  PROVE  Fresh(Continued(r), request[r].complete)
<1>1. request[r] \in RequestStates
  BY DEF Typed, TypeOK
<1>2. CASE Reporting(r)
  <2>1. request[r].lesson \in Lessons
    BY <1>1, <1>2 DEF Reporting, RequestStates
  <2>2. CourseOf[request[r].lesson] \in Entities
    BY <2>1, CompletionAssumption DEF Entities
  <2>3. Plan(CourseOf[request[r].lesson]) \in SUBSET Entities
    BY <2>2, PlanOfEntities
  <2>4. Fresh(Continued(r), {})
    BY <1>2, <2>3, ComputingIsFresh DEF Continued
  <2>5. QED
    BY <2>4 DEF Fresh
<1>3. CASE ~Reporting(r)
  <2>1. /\ request[r].todo \ {request[r].entity} \in SUBSET Entities
        /\ request[r].complete \in SUBSET Entities
    BY <1>1 DEF RequestStates
  <2>2. QED
    BY <1>3, <2>1, ComputingIsFresh DEF Continued
<1>4. QED
  BY <1>2, <1>3

\* A request that changes its own local state only, within its type.
LEMMA LocalStep ==
  ASSUME Typed, NEW r \in Requests, NEW local \in RequestStates,
         Directed(local), Become(r, local)
  PROVE  /\ request' \in [Requests -> RequestStates]
         /\ \A s \in Requests : Directed(request'[s])
         /\ request'[r] = local
         /\ \A s \in Requests \ {r} : request'[s] = request[s]
BY DEF Typed, TypeOK, Become

LEMMA OnwardStep ==
  ASSUME Typed, NEW r \in Requests, Onward(r)
  PROVE  Become(r, Continued(r))
BY DEF Onward, Compute, Continued, Computing

----------------------------------------------------------------------------
(* Types.                                                                  *)

LEMMA TypedInit == Init => Typed
<1> SUFFICES ASSUME Init PROVE Typed
  OBVIOUS
<1>1. Idle \in RequestStates /\ Directed(Idle)
  BY IdleIsFresh DEF Fresh
<1>2. /\ row \in [Rows -> RowValues] /\ passed \subseteq Items
      /\ request \in [Requests -> RequestStates]
  BY <1>1 DEF Init, RowValues
<1>3. /\ issuing \in [Entities -> [Stages -> Nat]]
      /\ certificates \in [Entities -> Nat] /\ flagged \subseteq Entities
  BY DEF Init
<1>4. /\ started \in 0..MaxRequests /\ invalidations \in 0..MaxInvalidations
      /\ fails \in 0..MaxFails
  BY CompletionAssumption DEF Init
<1>5. \A r \in Requests : Directed(request[r])
  BY <1>1 DEF Init
<1>6. peak \in [Lessons -> 0..100]
  BY DEF Init
<1>7. QED
  BY <1>2, <1>3, <1>4, <1>5, <1>6 DEF Typed, TypeOK

LEMMA BeginTyped ==
  ASSUME Typed, NEW r \in Requests, Begin(r), NEW local \in RequestStates,
         Directed(local), Become(r, local), peak' \in [Lessons -> 0..100]
  PROVE  Typed'
<1>1. /\ request' \in [Requests -> RequestStates]
      /\ \A s \in Requests : Directed(request'[s])
  BY LocalStep
<1>2. started' \in 0..MaxRequests
  BY CompletionAssumption DEF Begin, Typed, TypeOK
<1>3. QED
  BY <1>1, <1>2 DEF Begin, Typed, TypeOK, certVars

LEMMA ReportTyped ==
  ASSUME Typed, NEW r \in Requests, NEW l \in Lessons, NEW pct \in Reports,
         Report(r, l, pct)
  PROVE  Typed'
<1> DEFINE local == [Idle EXCEPT !.pc = "read", !.lesson = l, !.pct = pct]
<1>1. Idle \in RequestStates /\ pct \in 0..100 /\ l # None
  BY IdleIsFresh, CompletionAssumption, NoneIsNothing DEF Fresh
<1>2. local \in RequestStates
  BY <1>1 DEF RequestStates, Pcs
<1>3. local.pc = "read" /\ local.lesson = l /\ local.entity = None /\ local.passes = None
  BY DEF Idle
<1>4. Begin(r) /\ Become(r, local)
  BY DEF Report
<1> HIDE DEF local
<1>5. Directed(local)
  BY <1>1, <1>3 DEF Directed
<1>6. peak' \in [Lessons -> 0..100]
  BY <1>1 DEF Report, Typed, TypeOK
<1>7. QED
  BY <1>2, <1>4, <1>5, <1>6, BeginTyped

LEMMA ViewTyped ==
  ASSUME Typed, NEW r \in Requests, NEW e \in Entities, View(r, e)
  PROVE  Typed'
<1> DEFINE local == Computing(Plan(e), {})
<1>1. Fresh(local, {})
  BY PlanOfEntities, ComputingIsFresh
<1>2. Begin(r) /\ Become(r, local)
  BY DEF View, Compute, Computing
<1>3. peak' \in [Lessons -> 0..100]
  BY DEF View, Typed, TypeOK
<1> HIDE DEF local
<1>4. QED
  BY <1>1, <1>2, <1>3, BeginTyped DEF Fresh

\* A step that only reads: request r moves on, all else stays.
LEMMA ReadingTyped ==
  ASSUME Typed, NEW r \in Requests, Reading, NEW local \in RequestStates,
         Directed(local), Become(r, local)
  PROVE  Typed'
<1>1. /\ request' \in [Requests -> RequestStates]
      /\ \A s \in Requests : Directed(request'[s])
  BY LocalStep
<1>2. QED
  BY <1>1 DEF Reading, Typed, TypeOK, certVars, bounds

LEMMA ReadLessonTyped ==
  ASSUME Typed, NEW r \in Requests, ReadLesson(r)
  PROVE  Typed'
<1> DEFINE q == request[r]
           local == [q EXCEPT !.saw = row[q.lesson],
                              !.pc = IF Quiz[q.lesson] = None THEN "write" ELSE "quiz",
                              !.quizOk = Quiz[q.lesson] = None]
<1>1. q \in RequestStates /\ Directed(q) /\ q.lesson # None
  BY DEF ReadLesson, Reporting, Typed, TypeOK
<1>2. row[q.lesson] \in RowValues
  BY <1>1 DEF RequestStates, Rows, Typed, TypeOK
<1>3. local \in RequestStates
  BY <1>1, <1>2 DEF RequestStates, Pcs
<1>4. /\ local.lesson = q.lesson /\ local.entity = q.entity
      /\ local.passes = q.passes
  BY <1>1 DEF RequestStates
<1>5. Become(r, local) /\ Reading
  BY DEF ReadLesson
<1>6. Directed(local)
  <2> HIDE DEF q, local
  <2>1. QED
    BY <1>1, <1>4 DEF Directed
<1> HIDE DEF local
<1>7. QED
  BY <1>3, <1>5, <1>6, ReadingTyped

LEMMA ReadQuizTyped ==
  ASSUME Typed, NEW r \in Requests, ReadQuiz(r)
  PROVE  Typed'
<1> DEFINE q == request[r]
           ok == Quiz[q.lesson] \in passed
           local == [q EXCEPT !.pc = "write", !.quizOk = ok]
<1>1. q \in RequestStates /\ Directed(q) /\ q.pc = "quiz"
  BY DEF ReadQuiz, At, Typed, TypeOK
<1>4. Become(r, local) /\ Reading
  BY DEF ReadQuiz
<1>0. ok \in BOOLEAN
  OBVIOUS
<1> HIDE DEF ok
<1>2. local \in RequestStates
  BY <1>0, <1>1 DEF RequestStates, Pcs
<1>3. /\ local.lesson = q.lesson /\ local.entity = q.entity
      /\ local.passes = q.passes
  BY <1>1 DEF RequestStates
<1>5. Directed(local)
  <2> HIDE DEF q, local
  <2>1. QED
    BY <1>1, <1>3 DEF Directed
<1> HIDE DEF local
<1>6. QED
  BY <1>2, <1>4, <1>5, ReadingTyped

LEMMA ReadWatchedTyped ==
  ASSUME Typed, NEW r \in Requests, ReadWatched(r)
  PROVE  Typed'
<1> DEFINE q == request[r]
           local == [q EXCEPT !.watched = Consumed \cap LessonsOf(q.entity)]
<1>1. q \in RequestStates /\ Directed(q)
  BY DEF Typed, TypeOK
<1>2. local \in RequestStates
  BY <1>1 DEF RequestStates, Consumed
<1>3. /\ local.lesson = q.lesson /\ local.entity = q.entity
      /\ local.passes = q.passes /\ local.pc = q.pc
  BY <1>1 DEF RequestStates
<1>4. Become(r, local) /\ Reading
  BY DEF ReadWatched
<1>5. Directed(local)
  <2> HIDE DEF q, local
  <2>1. QED
    BY <1>1, <1>3 DEF Directed
<1> HIDE DEF local
<1>6. QED
  BY <1>2, <1>4, <1>5, ReadingTyped

LEMMA ReadPassedTyped ==
  ASSUME Typed, NEW r \in Requests, ReadPassed(r)
  PROVE  Typed'
<1> DEFINE q == request[r]
           quizzes == {Quiz[l] : l \in {m \in LessonsOf(q.entity) : Quiz[m] # None}}
           local == [q EXCEPT !.passes = passed \cap (Gates[q.entity] \cup quizzes)]
<1>1. q \in RequestStates /\ Directed(q) /\ q.pc = "read" /\ q.lesson = None
  BY DEF ReadPassed, At, Reporting, Typed, TypeOK
<1>2. passed \cap (Gates[q.entity] \cup quizzes) \in SUBSET Items
  BY DEF Typed, TypeOK
<1>3. local \in RequestStates
  BY <1>1, <1>2 DEF RequestStates
<1>4. local.lesson = q.lesson /\ local.entity = q.entity /\ local.pc = q.pc
  BY <1>1 DEF RequestStates
<1>5. Become(r, local) /\ Reading
  BY DEF ReadPassed
<1>6. Directed(local)
  <2> HIDE DEF q, local
  <2>1. QED
    BY <1>1, <1>4 DEF Directed
<1> HIDE DEF local
<1>7. QED
  BY <1>3, <1>5, <1>6, ReadingTyped

LEMMA FindStatusTyped ==
  ASSUME Typed, NEW r \in Requests, FindStatus(r)
  PROVE  Typed'
<1> DEFINE q == request[r]
           watched == IF q.entity \in Courses THEN q.watched ELSE {}
           complete == IF Complete(q.entity, watched, q.passes, q.complete)
                       THEN q.complete \cup {q.entity} ELSE q.complete
           local == [q EXCEPT !.pc = "write", !.saw = row[q.entity],
                              !.watched = None, !.passes = None,
                              !.complete = complete]
<1>1. q \in RequestStates /\ Directed(q) /\ q.pc = "read" /\ q.passes # None
  BY DEF FindStatus, At, Typed, TypeOK
<1>2. q.lesson = None /\ q.entity \in Entities
  BY <1>1 DEF Directed, RequestStates
<1>3. row[q.entity] \in RowValues
  BY <1>2 DEF Rows, Typed, TypeOK
<1>4. complete \in SUBSET Entities
  BY <1>1, <1>2 DEF RequestStates
<1>5. Become(r, local) /\ Reading
  BY DEF FindStatus
<1> HIDE DEF complete
<1>6. local \in RequestStates
  BY <1>1, <1>3, <1>4 DEF RequestStates, Pcs
<1>7. /\ local.lesson = q.lesson /\ local.entity = q.entity
      /\ local.pc = "write"
  BY <1>1 DEF RequestStates
<1>8. Directed(local)
  <2> HIDE DEF q, local
  <2>1. QED
    BY <1>1, <1>2, <1>7, NoneIsNothing DEF Directed
<1> HIDE DEF local
<1>9. QED
  BY <1>5, <1>6, <1>8, ReadingTyped

\* A request at work has a row to write, and what it writes is a row.
LEMMA NewRowTyped ==
  ASSUME Typed, NEW r \in Requests, ~At(r, "idle")
  PROVE  /\ Target(r) \in Rows
         /\ Reporting(r) => Target(r) = request[r].lesson /\ Target(r) \in Lessons
         /\ ~Reporting(r) => Target(r) = request[r].entity /\ Target(r) \in Entities
         /\ NewRow(r) \in RowValues /\ NewRow(r) # None
         /\ Furthest(r) \in 0..100
<1> DEFINE q == request[r]
<1>1. q \in RequestStates /\ Directed(q) /\ q.pc # "idle"
  BY DEF At, Typed, TypeOK
<1>2. /\ Reporting(r) => Target(r) = q.lesson /\ q.lesson \in Lessons
      /\ ~Reporting(r) => Target(r) = q.entity /\ q.entity \in Entities
  BY <1>1 DEF Reporting, Target, Directed, RequestStates
<1>3. Furthest(r) \in 0..100
  <2>1. q.pct \in 0..100 /\ q.saw \in RowValues
    BY <1>1 DEF RequestStates
  <2>2. q.saw # None => q.saw.pct \in 0..100
    BY <2>1 DEF RowValues
  <2>3. QED
    BY <2>1, <2>2 DEF Furthest
<1>4. Verdict(r) \in BOOLEAN
  <2>1. CASE Reporting(r)
    <3>1. Verdict(r) = (/\ Furthest(r) >= ReportThreshold(request[r].lesson)
                        /\ request[r].quizOk)
      BY <2>1 DEF Verdict
    <3>2. QED
      BY <3>1
  <2>2. CASE ~Reporting(r)
    BY <2>2 DEF Verdict
  <2>3. QED
    BY <2>1, <2>2
<1>5. NewRow(r) \in [pct : 0..100, done : BOOLEAN]
  BY <1>3, <1>4 DEF NewRow
<1>6. NewRow(r) # None
  BY <1>5, CompletionAssumption
<1>7. QED
  BY <1>2, <1>3, <1>5, <1>6 DEF RowValues, Rows

\* What a write comes to: the row is written, with an announcement when it
\* flips; or nothing is written, and the request goes on; or it lost the race
\* to create the row and will try to flip it.
Outcome(r) ==
  \/ /\ row' = [row EXCEPT ![Target(r)] = NewRow(r)]
     /\ \/ /\ Become(r, [request[r] EXCEPT !.pc = "tell"])
           /\ row[Target(r)] = None \/ ~row[Target(r)].done
           /\ Verdict(r)
        \/ Onward(r)
  \/ row' = row /\ Onward(r)
  \/ /\ row' = row /\ Become(r, [request[r] EXCEPT !.pc = "flip"])
     /\ request[r].saw = None /\ row[Target(r)] # None

LEMMA WrittenOutcome ==
  ASSUME NEW r \in Requests, row[Target(r)] = None \/ ~row[Target(r)].done,
         Written(r, Target(r), NewRow(r).done)
  PROVE  Outcome(r)
<1>1. NewRow(r).done = Verdict(r)
  BY DEF NewRow
<1>2. row' = [row EXCEPT ![Target(r)] = NewRow(r)]
  BY DEF Written
<1>3. CASE Verdict(r)
  <2>1. Become(r, [request[r] EXCEPT !.pc = "tell"])
    BY <1>1, <1>3 DEF Written
  <2>2. QED
    BY <1>2, <1>3, <2>1 DEF Outcome
<1>4. CASE ~Verdict(r)
  <2>1. Onward(r)
    BY <1>1, <1>4 DEF Written
  <2>2. QED
    BY <1>2, <2>1 DEF Outcome
<1>5. QED
  BY <1>3, <1>4

LEMMA WriteHasOutcome ==
  ASSUME NEW r \in Requests, WriteRow(r) \/ FlipAfterCreate(r)
  PROVE  Outcome(r)
<1> DEFINE x == Target(r)
<1>1. ASSUME FlipRow(r, x) PROVE Outcome(r)
  <2>1. CASE row[x] # None /\ ~row[x].done /\ Written(r, x, NewRow(r).done)
    BY <2>1, WrittenOutcome
  <2>2. CASE Onward(r) /\ UNCHANGED row
    BY <2>2 DEF Outcome
  <2>3. QED
    BY <1>1, <2>1, <2>2 DEF FlipRow
<1>2. CASE FlipAfterCreate(r)
  BY <1>1, <1>2 DEF FlipAfterCreate
<1>3. CASE WriteRow(r) /\ request[r].saw = None
  <2>1. CreateRow(r, x)
    BY <1>3 DEF WriteRow
  <2>2. CASE row[x] = None /\ Written(r, x, NewRow(r).done)
    BY <2>2, WrittenOutcome
  <2>3. CASE row[x] # None /\ Become(r, [request[r] EXCEPT !.pc = "flip"])
             /\ UNCHANGED row
    BY <1>3, <2>3 DEF Outcome
  <2>4. QED
    BY <2>1, <2>2, <2>3 DEF CreateRow
<1>4. CASE WriteRow(r) /\ request[r].saw # None
  <2>1. CASE Verdict(r) /\ ~request[r].saw.done
    BY <1>1, <1>4, <2>1 DEF WriteRow
  <2>2. CASE ~(Verdict(r) /\ ~request[r].saw.done)
    <3>1. Written(r, x, FALSE)
      BY <1>4, <2>2 DEF WriteRow
    <3>2. QED
      BY <3>1 DEF Written, Outcome
  <2>3. QED
    BY <2>1, <2>2
<1>5. QED
  BY <1>2, <1>3, <1>4

LEMMA OnwardTyped ==
  ASSUME Typed, NEW r \in Requests, Onward(r)
  PROVE  /\ request' \in [Requests -> RequestStates]
         /\ \A s \in Requests : Directed(request'[s])
BY OnwardStep, ContinuedIsFresh, LocalStep DEF Fresh

LEMMA GotoTyped ==
  ASSUME Typed, NEW r \in Requests, NEW pc \in {"flip", "tell"}, ~At(r, "idle"),
         Become(r, [request[r] EXCEPT !.pc = pc])
  PROVE  /\ request' \in [Requests -> RequestStates]
         /\ \A s \in Requests : Directed(request'[s])
<1> DEFINE q == request[r]
           local == [q EXCEPT !.pc = pc]
<1>1. q \in RequestStates /\ Directed(q) /\ q.pc # "idle"
  BY DEF At, Typed, TypeOK
<1>2. local \in RequestStates
  BY <1>1 DEF RequestStates, Pcs
<1>3. /\ local.lesson = q.lesson /\ local.entity = q.entity
      /\ local.passes = q.passes /\ local.pc = pc
  BY <1>1 DEF RequestStates
<1>4. Become(r, local)
  OBVIOUS
<1>5. Directed(local)
  <2> HIDE DEF q, local
  <2>1. QED
    BY <1>1, <1>3 DEF Directed
<1> HIDE DEF local
<1>6. QED
  BY <1>2, <1>4, <1>5, LocalStep

LEMMA WriteTyped ==
  ASSUME Typed, NEW r \in Requests, WriteRow(r) \/ FlipAfterCreate(r)
  PROVE  Typed'
<1>1. ~At(r, "idle")
  BY DEF WriteRow, FlipAfterCreate, At
<1>2. Outcome(r)
  BY WriteHasOutcome
<1>3. row' \in [Rows -> RowValues]
  <2>1. row' = row \/ row' = [row EXCEPT ![Target(r)] = NewRow(r)]
    BY <1>2 DEF Outcome
  <2>2. QED
    BY <1>1, <2>1, NewRowTyped DEF Typed, TypeOK
<1>4. /\ request' \in [Requests -> RequestStates]
      /\ \A s \in Requests : Directed(request'[s])
  BY <1>1, <1>2, OnwardTyped, GotoTyped DEF Outcome
<1>5. UNCHANGED <<passed, certVars, bounds, peak>>
  BY DEF WriteRow, FlipAfterCreate
<1>6. QED
  BY <1>3, <1>4, <1>5 DEF Typed, TypeOK, certVars, bounds

LEMMA TellTyped ==
  ASSUME Typed, NEW r \in Requests, Tell(r)
  PROVE  Typed'
<1>1. /\ request' \in [Requests -> RequestStates]
      /\ \A s \in Requests : Directed(request'[s])
  BY OnwardTyped DEF Tell
<1>2. issuing' \in [Entities -> [Stages -> Nat]]
  BY DEF Tell, Typed, TypeOK, Stages
<1>3. QED
  BY <1>1, <1>2 DEF Tell, Typed, TypeOK, bounds

LEMMA MovesTyped ==
  ASSUME Typed, NEW e \in Entities, NEW from \in Stages, NEW to, Moves(e, from, to)
  PROVE  issuing' \in [Entities -> [Stages -> Nat]]
<1> DEFINE next == [s \in Stages |-> issuing[e][s] - (IF s = from THEN 1 ELSE 0)
                                     + (IF s = to THEN 1 ELSE 0)]
<1>1. issuing \in [Entities -> [Stages -> Nat]] /\ issuing[e][from] > 0
  BY DEF Moves, Typed, TypeOK
<1>2. next \in [Stages -> Nat]
  <2>1. ASSUME NEW s \in Stages
        PROVE  issuing[e][s] - (IF s = from THEN 1 ELSE 0)
                 + (IF s = to THEN 1 ELSE 0) \in Nat
    BY <1>1
  <2>2. QED
    BY <2>1
<1>3. issuing' = [issuing EXCEPT ![e] = next]
  BY DEF Moves
<1> HIDE DEF next
<1>4. QED
  BY <1>1, <1>2, <1>3

LEMMA HandlerTyped ==
  ASSUME Typed, NEW e \in Entities,
         HandlerStep(e) \/ \E s \in Stages : FailHandler(e, s)
  PROVE  Typed'
<1> DEFINE Moved == /\ issuing' \in [Entities -> [Stages -> Nat]]
                    /\ UNCHANGED <<row, passed, request, started, invalidations, peak>>
<1>1. ASSUME NEW from \in Stages, NEW to, Moves(e, from, to) PROVE Moved
  <2>1. UNCHANGED <<row, passed, request, started, invalidations, peak>>
    BY <1>1 DEF Moves
  <2>2. QED
    BY <1>1, <2>1, MovesTyped
<1>2. Moved
  <2> HIDE DEF Moved
  <2>1. CASE LookCertificate(e)
    BY <1>1, <2>1 DEF LookCertificate, Stages
  <2>2. CASE CreateCertificate(e)
    BY <1>1, <2>2 DEF CreateCertificate, Stages
  <2>3. CASE FlagCompletion(e)
    BY <1>1, <2>3 DEF FlagCompletion, Stages
  <2>4. ASSUME NEW s \in Stages, FailHandler(e, s) PROVE Moved
    BY <1>1, <2>4 DEF FailHandler
  <2>5. QED
    BY <2>1, <2>2, <2>3, <2>4 DEF HandlerStep
<1>3. /\ certificates' \in [Entities -> Nat] /\ flagged' \subseteq Entities
      /\ fails' \in 0..MaxFails
  <2>1. CASE CreateCertificate(e)
    BY <2>1 DEF CreateCertificate, Typed, TypeOK
  <2>2. CASE LookCertificate(e) \/ FlagCompletion(e)
    BY <2>2 DEF LookCertificate, FlagCompletion, Typed, TypeOK
  <2>3. ASSUME NEW s \in Stages, FailHandler(e, s)
        PROVE  /\ certificates' \in [Entities -> Nat] /\ flagged' \subseteq Entities
               /\ fails' \in 0..MaxFails
    BY <2>3, CompletionAssumption DEF FailHandler, Typed, TypeOK
  <2>4. QED
    BY <2>1, <2>2, <2>3 DEF HandlerStep
<1>4. QED
  BY <1>2, <1>3 DEF Typed, TypeOK

LEMMA PassTyped ==
  ASSUME Typed, NEW i \in Items, Pass(i) \/ Invalidate(i)
  PROVE  Typed'
<1>1. passed' \subseteq Items /\ invalidations' \in 0..MaxInvalidations
  BY CompletionAssumption DEF Pass, Invalidate, bounds, Typed, TypeOK
<1>2. QED
  BY <1>1 DEF Pass, Invalidate, certVars, bounds, Typed, TypeOK

LEMMA FailTyped ==
  ASSUME Typed, NEW r \in Requests, FailRequest(r)
  PROVE  Typed'
<1>1. /\ request' \in [Requests -> RequestStates]
      /\ \A s \in Requests : Directed(request'[s])
  BY IdleIsFresh, LocalStep DEF FailRequest, Fresh
<1>2. fails' \in 0..MaxFails
  BY CompletionAssumption DEF FailRequest, Typed, TypeOK
<1>3. QED
  BY <1>1, <1>2 DEF FailRequest, Typed, TypeOK, certVars

LEMMA TypedNext == Typed /\ [Next]_vars => Typed'
<1> SUFFICES ASSUME Typed, [Next]_vars PROVE Typed'
  OBVIOUS
<1>1. CASE UNCHANGED vars
  BY <1>1 DEF vars, certVars, bounds, Typed, TypeOK
<1>2. ASSUME NEW r \in Requests, NEW l \in Lessons, NEW pct \in Reports,
             Report(r, l, pct)
      PROVE  Typed'
  BY <1>2, ReportTyped
<1>3. ASSUME NEW r \in Requests, NEW e \in Entities, View(r, e)
      PROVE  Typed'
  BY <1>3, ViewTyped
<1>4. ASSUME NEW r \in Requests, RequestStep(r) PROVE Typed'
  BY <1>4, ReadLessonTyped, ReadQuizTyped, ReadWatchedTyped, ReadPassedTyped,
     FindStatusTyped, WriteTyped, TellTyped DEF RequestStep
<1>5. ASSUME NEW r \in Requests, FailRequest(r) PROVE Typed'
  BY <1>5, FailTyped
<1>6. ASSUME NEW e \in Entities,
             HandlerStep(e) \/ \E s \in Stages : FailHandler(e, s)
      PROVE  Typed'
  BY <1>6, HandlerTyped
<1>7. ASSUME NEW i \in Items, Pass(i) \/ Invalidate(i) PROVE Typed'
  BY <1>7, PassTyped
<1>8. QED
  BY <1>1, <1>2, <1>3, <1>4, <1>5, <1>6, <1>7 DEF Next

LEMMA TypedAlways == Spec => []Typed
BY TypedInit, TypedNext, PTL DEF Spec

(***************************************************************************)
(* Every variable keeps its type, for every tree and any concurrency.      *)
(***************************************************************************)
THEOREM TypeCorrect == Spec => []TypeOK
<1>1. Typed => TypeOK
  BY DEF Typed
<1>2. QED
  BY <1>1, TypedAlways, PTL

----------------------------------------------------------------------------
(* Announcements.                                                          *)

\* A request that is made to do anything but announce.
LEMMA NotTelling ==
  ASSUME Typed, NEW r \in Requests, NEW local, Become(r, local), local.pc # "tell"
  PROVE  \A s \in Requests : request'[s].pc = "tell" => At(s, "tell")
BY DEF Typed, TypeOK, Become, At

LEMMA OnwardTellsNothing ==
  ASSUME Typed, NEW r \in Requests, Onward(r)
  PROVE  \A s \in Requests : request'[s].pc = "tell" => At(s, "tell")
BY OnwardStep, ContinuedIsFresh, NotTelling DEF Fresh

LEMMA ReadsTellNothing ==
  ASSUME Typed, NEW r \in Requests,
         ReadLesson(r) \/ ReadQuiz(r) \/ ReadWatched(r) \/ ReadPassed(r) \/ FindStatus(r)
  PROVE  \A s \in Requests : request'[s].pc = "tell" => At(s, "tell")
<1> DEFINE q == request[r]
<1>1. q \in RequestStates
  BY DEF Typed, TypeOK
<1>2. \E local : Become(r, local) /\ local.pc # "tell"
  <2>1. CASE ReadLesson(r)
    <3> DEFINE local == [q EXCEPT !.saw = row[q.lesson],
                                !.pc = IF Quiz[q.lesson] = None THEN "write" ELSE "quiz",
                                !.quizOk = Quiz[q.lesson] = None]
    <3>1. Become(r, local)
      BY <2>1 DEF ReadLesson
    <3>2. local.pc = IF Quiz[q.lesson] = None THEN "write" ELSE "quiz"
      BY <1>1 DEF RequestStates
    <3> HIDE DEF local
    <3>3. local.pc # "tell"
      BY <3>2
    <3>4. QED
      BY <3>1, <3>3
  <2>2. CASE ReadQuiz(r)
    <3> DEFINE local == [q EXCEPT !.pc = "write", !.quizOk = Quiz[q.lesson] \in passed]
    <3>1. Become(r, local)
      BY <2>2 DEF ReadQuiz
    <3>2. local.pc # "tell"
      BY <1>1 DEF RequestStates
    <3> HIDE DEF local
    <3>3. QED
      BY <3>1, <3>2
  <2>3. CASE ReadWatched(r)
    <3> DEFINE local == [q EXCEPT !.watched = Consumed \cap LessonsOf(q.entity)]
    <3>1. Become(r, local)
      BY <2>3 DEF ReadWatched
    <3>2. q.pc = "read"
      BY <2>3 DEF ReadWatched, At
    <3>3. local.pc # "tell"
      BY <1>1, <3>2 DEF RequestStates
    <3> HIDE DEF local
    <3>4. QED
      BY <3>1, <3>3
  <2>4. CASE ReadPassed(r)
    BY <1>1, <2>4 DEF ReadPassed, RequestStates, At
  <2>5. CASE FindStatus(r)
    <3> DEFINE local == [q EXCEPT !.pc = "write", !.saw = row[q.entity],
                                !.watched = None, !.passes = None, !.complete =
                IF Complete(q.entity, IF q.entity \in Courses THEN q.watched ELSE {},
                            q.passes, @)
                THEN @ \cup {q.entity} ELSE @]
    <3>1. Become(r, local)
      BY <2>5 DEF FindStatus
    <3>2. local.pc # "tell"
      BY <1>1, <2>5 DEF FindStatus, RequestStates
    <3>3. QED
      BY <3>1, <3>2
  <2>6. QED
    BY <2>1, <2>2, <2>3, <2>4, <2>5
<1>3. QED
  BY <1>2, NotTelling

(***************************************************************************)
(* However many reports and views run at once, a completion is announced   *)
(* only by the request whose write made it so.                             *)
(***************************************************************************)
THEOREM AnnouncedByTheFlip == Spec => OnlyFlipsAreTold
<1> DEFINE Told ==
      \A r \in Requests : request'[r].pc = "tell" /\ ~At(r, "tell") =>
        LET x == Target(r) IN
        (row[x] = None \/ ~row[x].done) /\ row'[x].done
<1>1. Typed /\ [Next]_vars => [Told]_request
  <2> SUFFICES ASSUME Typed, [Next]_vars PROVE [Told]_request
    OBVIOUS
  <2>1. ASSUME \A s \in Requests : request'[s].pc = "tell" => At(s, "tell")
        PROVE  [Told]_request
    BY <2>1
  <2>2. CASE UNCHANGED request
    BY <2>2
  <2>3. ASSUME NEW r \in Requests, NEW l \in Lessons, NEW pct \in Reports,
               Report(r, l, pct)
        PROVE  [Told]_request
    <3>1. [Idle EXCEPT !.pc = "read", !.lesson = l, !.pct = pct].pc # "tell"
      BY DEF Idle
    <3>2. QED
      BY <2>1, <2>3, <3>1, NotTelling DEF Report
  <2>4. ASSUME NEW r \in Requests, NEW e \in Entities, View(r, e)
        PROVE  [Told]_request
    <3>1. Become(r, Computing(Plan(e), {}))
      BY <2>4 DEF View, Compute, Computing
    <3>2. Computing(Plan(e), {}).pc # "tell"
      BY PlanOfEntities, ComputingIsFresh DEF Fresh
    <3>3. QED
      BY <2>1, <3>1, <3>2, NotTelling
  <2>5. ASSUME NEW r \in Requests, WriteRow(r) \/ FlipAfterCreate(r)
        PROVE  [Told]_request
    <3>1. Outcome(r) /\ ~At(r, "idle")
      BY <2>5, WriteHasOutcome DEF WriteRow, FlipAfterCreate, At
    <3>2. CASE Onward(r)
      BY <2>1, <3>2, OnwardTellsNothing
    <3>3. CASE Become(r, [request[r] EXCEPT !.pc = "flip"])
      <4>1. [request[r] EXCEPT !.pc = "flip"].pc # "tell"
        BY DEF Typed, TypeOK, RequestStates
      <4>2. QED
        BY <2>1, <3>3, <4>1, NotTelling
    <3>4. CASE /\ row' = [row EXCEPT ![Target(r)] = NewRow(r)]
               /\ Become(r, [request[r] EXCEPT !.pc = "tell"])
               /\ row[Target(r)] = None \/ ~row[Target(r)].done
               /\ Verdict(r)
      <4>1. Target(r) \in Rows /\ row \in [Rows -> RowValues]
        BY <3>1, NewRowTyped DEF Typed, TypeOK
      <4>2. row'[Target(r)].done
        BY <3>4, <4>1 DEF NewRow
      <4>3. \A s \in Requests \ {r} : request'[s] = request[s]
        BY <3>4 DEF Typed, TypeOK, Become
      <4>4. Told
        BY <3>4, <4>2, <4>3 DEF At
      <4>5. QED
        BY <4>4
    <3>5. QED
      BY <3>1, <3>2, <3>3, <3>4 DEF Outcome
  <2>6. ASSUME NEW r \in Requests, RequestStep(r)
        PROVE  [Told]_request
    <3>1. CASE Tell(r)
      BY <2>1, <3>1, OnwardTellsNothing DEF Tell
    <3>2. QED
      BY <2>1, <2>5, <2>6, <3>1, ReadsTellNothing DEF RequestStep
  <2>7. ASSUME NEW r \in Requests, FailRequest(r)
        PROVE  [Told]_request
    <3>1. Idle.pc # "tell"
      BY DEF Idle
    <3>2. QED
      BY <2>1, <2>7, <3>1, NotTelling DEF FailRequest
  <2>8. ASSUME NEW e \in Entities,
               HandlerStep(e) \/ \E s \in Stages : FailHandler(e, s)
        PROVE  UNCHANGED request
    BY <2>8 DEF HandlerStep, LookCertificate, CreateCertificate, FlagCompletion,
                FailHandler, Moves
  <2>9. ASSUME NEW i \in Items, Pass(i) \/ Invalidate(i)
        PROVE  UNCHANGED request
    BY <2>9 DEF Pass, Invalidate
  <2>10. CASE UNCHANGED vars
    BY <2>2, <2>10 DEF vars
  <2>11. QED
    BY <2>2, <2>3, <2>4, <2>6, <2>7, <2>8, <2>9, <2>10 DEF Next
<1>2. QED
  BY <1>1, TypedAlways, PTL DEF Spec, OnlyFlipsAreTold

----------------------------------------------------------------------------
(* Reports of one lesson, overlapping as they may.                         *)

\* The lesson's quiz is passed, or was before an invalidation.
QuizStands(l) == Quiz[l] = None \/ Quiz[l] \in passed \/ invalidations > 0

\* What a row of lesson l says, now or when a report read it, was reported and,
\* if it says completed, is what completes the lesson.
Stands(l, v) ==
  v # None => /\ v.pct <= peak[l]
              /\ v.done => v.pct >= ReportThreshold(l) /\ QuizStands(l)

\* What a report holds of its lesson stands, and justifies what it will write.
Justified(q) ==
  q.lesson # None =>
    /\ q.pct <= peak[q.lesson] /\ Stands(q.lesson, q.saw)
    /\ q.pc = "quiz" => Quiz[q.lesson] # None
    /\ q.pc \in {"write", "flip"} /\ q.quizOk => QuizStands(q.lesson)
    /\ q.pc \in {"write", "flip"} /\ ~q.quizOk =>
         Quiz[q.lesson] # None /\ (q.saw # None /\ q.saw.done => invalidations > 0)

Ready(r) == Justified(request[r])

Reported ==
  /\ Typed
  /\ \A r \in Requests : Ready(r)
  /\ \A l \in Lessons : Stands(l, row[l])

LEMMA PassesOnlyInvalidated ==
  ASSUME Typed, [Next]_vars
  PROVE  /\ passed \subseteq passed' \/ invalidations' > 0
         /\ invalidations \in Nat /\ invalidations' \in Nat
         /\ invalidations' >= invalidations
<1>1. invalidations \in Nat /\ invalidations' \in Nat
  BY TypedNext, CompletionAssumption DEF Typed, TypeOK
<1>3. ASSUME NEW r \in Requests, Begin(r) \/ FailRequest(r)
      PROVE  UNCHANGED <<passed, invalidations>>
  BY <1>3 DEF Begin, FailRequest
<1>4. ASSUME NEW r \in Requests, RequestStep(r)
      PROVE  UNCHANGED <<passed, invalidations>>
  BY <1>4 DEF RequestStep, ReadLesson, ReadQuiz, ReadWatched, ReadPassed, FindStatus,
              WriteRow, FlipAfterCreate, Tell, Reading, bounds
<1>5. ASSUME NEW e \in Entities,
             HandlerStep(e) \/ \E s \in Stages : FailHandler(e, s)
      PROVE  UNCHANGED <<passed, invalidations>>
  BY <1>5 DEF HandlerStep, LookCertificate, CreateCertificate, FlagCompletion,
              FailHandler, Moves
<1>6. ASSUME NEW i \in Items, Pass(i)
      PROVE  passed \subseteq passed' /\ UNCHANGED invalidations
  BY <1>6 DEF Pass, bounds
<1>7. ASSUME NEW i \in Items, Invalidate(i)
      PROVE  invalidations' = invalidations + 1
  BY <1>7 DEF Invalidate
<1> DEFINE Kept == passed \subseteq passed' /\ invalidations' = invalidations
           Taken == invalidations' = invalidations + 1
<1>8. ASSUME UNCHANGED <<passed, invalidations>> PROVE Kept
  BY <1>8
<1>9. Kept \/ Taken
  <2> HIDE DEF Kept, Taken
  <2>1. ASSUME NEW i \in Items, Pass(i) \/ Invalidate(i) PROVE Kept \/ Taken
    BY <1>6, <1>7, <2>1 DEF Kept, Taken
  <2>2. CASE UNCHANGED vars
    BY <1>8, <2>2 DEF vars, bounds
  <2>3. QED
    BY <1>3, <1>4, <1>5, <1>8, <2>1, <2>2 DEF Next, Report, View
<1>10. QED
  BY <1>1, <1>9

LEMMA QuizStandsOn ==
  ASSUME Typed, [Next]_vars, NEW l \in Lessons, QuizStands(l)
  PROVE  QuizStands(l)'
BY PassesOnlyInvalidated DEF QuizStands

\* What was once reported stays reported.
LEMMA PeakGrows ==
  ASSUME Typed, [Next]_vars, NEW l \in Lessons
  PROVE  peak[l] \in 0..100 /\ peak'[l] \in 0..100 /\ peak'[l] >= peak[l]
<1>1. peak[l] \in 0..100 /\ peak'[l] \in 0..100
  BY TypedNext DEF Typed, TypeOK
<1>2. ASSUME NEW r \in Requests, NEW m \in Lessons, NEW pct \in Reports, Report(r, m, pct)
      PROVE  peak'[l] >= peak[l]
  <2>1. pct \in 0..100
    BY CompletionAssumption
  <2>2. CASE l = m
    BY <1>1, <1>2, <2>1, <2>2 DEF Report, Typed, TypeOK
  <2>3. CASE l # m
    BY <1>1, <1>2, <2>3 DEF Report, Typed, TypeOK
  <2>4. QED
    BY <2>2, <2>3
<1>3. UNCHANGED peak => peak'[l] >= peak[l]
  BY <1>1
<1>4. ASSUME NEW r \in Requests, RequestStep(r) PROVE UNCHANGED peak
  BY <1>4 DEF RequestStep, ReadLesson, ReadQuiz, ReadWatched, ReadPassed, FindStatus,
              WriteRow, FlipAfterCreate, Tell, Reading
<1>5. ASSUME NEW e \in Entities,
             HandlerStep(e) \/ \E s \in Stages : FailHandler(e, s)
      PROVE  UNCHANGED peak
  BY <1>5 DEF HandlerStep, LookCertificate, CreateCertificate, FlagCompletion,
              FailHandler, Moves
<1>6. QED
  BY <1>1, <1>2, <1>3, <1>4, <1>5 DEF Next, View, FailRequest, Pass, Invalidate, vars

\* The row of a lesson is written only by a report of it.
LEMMA LessonRows ==
  ASSUME Typed, [Next]_vars, NEW l \in Lessons
  PROVE  \/ row'[l] = row[l]
         \/ \E r \in Requests :
              /\ Reporting(r) /\ request[r].lesson = l
              /\ At(r, "write") \/ At(r, "flip")
              /\ request'[r] # request[r]
              /\ row' = [row EXCEPT ![l] = NewRow(r)]
<1>1. CASE UNCHANGED row
  BY <1>1
<1>2. ASSUME NEW r \in Requests, WriteRow(r) \/ FlipAfterCreate(r)
      PROVE  \/ row'[l] = row[l]
             \/ /\ Reporting(r) /\ request[r].lesson = l
                /\ At(r, "write") \/ At(r, "flip")
                /\ request'[r] # request[r]
                /\ row' = [row EXCEPT ![l] = NewRow(r)]
  <2>1. ~At(r, "idle") /\ Outcome(r) /\ (At(r, "write") \/ At(r, "flip"))
    BY <1>2, WriteHasOutcome DEF WriteRow, FlipAfterCreate, At
  <2>2. CASE row' = row
    BY <2>2
  <2>3. CASE row' = [row EXCEPT ![Target(r)] = NewRow(r)] /\ ~Reporting(r)
    <3>1. Target(r) \in Entities /\ Target(r) # l
      BY <2>1, <2>3, NewRowTyped, CompletionAssumption
    <3>2. QED
      BY <2>1, <2>3, <3>1 DEF Typed, TypeOK, Rows
  <2>4. CASE row' = [row EXCEPT ![Target(r)] = NewRow(r)] /\ Reporting(r)
    <3>1. Target(r) = request[r].lesson /\ Target(r) \in Lessons
      BY <2>1, <2>4, NewRowTyped
    <3>2. CASE Target(r) = l
      <4>1. CASE Onward(r)
        <5>1. Continued(r).pc \notin {"write", "flip"} /\ request'[r] = Continued(r)
          BY <2>1, <4>1, OnwardStep, ContinuedIsFresh, LocalStep DEF Fresh
        <5>2. request'[r] # request[r]
          BY <2>1, <5>1 DEF At
        <5>3. QED
          BY <2>1, <2>4, <3>1, <3>2, <5>2
      <4>2. CASE Become(r, [request[r] EXCEPT !.pc = "tell"])
        <5>1. request'[r].pc = "tell"
          BY <2>1, <4>2 DEF Become, Typed, TypeOK, RequestStates
        <5>2. request'[r] # request[r]
          BY <2>1, <5>1 DEF At
        <5>3. QED
          BY <2>1, <2>4, <3>1, <3>2, <5>2
      <4>3. CASE row' = row
        BY <4>3
      <4>4. QED
        BY <2>1, <4>1, <4>2, <4>3 DEF Outcome
    <3>4. CASE Target(r) # l
      BY <2>1, <2>4, <3>1, <3>4 DEF Typed, TypeOK, Rows
    <3>5. QED
      BY <3>2, <3>4
  <2>5. QED
    BY <2>1, <2>2, <2>3, <2>4 DEF Outcome
<1>3. ASSUME NEW r \in Requests, RequestStep(r)
      PROVE  UNCHANGED row \/ WriteRow(r) \/ FlipAfterCreate(r)
  BY <1>3 DEF RequestStep, ReadLesson, ReadQuiz, ReadWatched, ReadPassed, FindStatus,
              Tell, Reading
<1>4. ASSUME NEW r \in Requests, Begin(r) \/ FailRequest(r) PROVE UNCHANGED row
  BY <1>4 DEF Begin, FailRequest
<1>5. ASSUME NEW e \in Entities,
             HandlerStep(e) \/ \E s \in Stages : FailHandler(e, s)
      PROVE  UNCHANGED row
  BY <1>5 DEF HandlerStep, LookCertificate, CreateCertificate, FlagCompletion,
              FailHandler, Moves
<1>6. ASSUME NEW i \in Items, Pass(i) \/ Invalidate(i) PROVE UNCHANGED row
  BY <1>6 DEF Pass, Invalidate
<1>7. CASE UNCHANGED vars
  BY <1>1, <1>7 DEF vars
<1>8. QED
  BY <1>1, <1>2, <1>3, <1>4, <1>5, <1>6, <1>7 DEF Next, Report, View

\* What a report writes stands.
LEMMA WrittenStands ==
  ASSUME Reported, NEW r \in Requests, NEW l \in Lessons,
         Reporting(r), request[r].lesson = l, At(r, "write") \/ At(r, "flip")
  PROVE  /\ NewRow(r) # None /\ NewRow(r) \in RowValues /\ Stands(l, NewRow(r))
         /\ NewRow(r).pct = Furthest(r) /\ NewRow(r).done = Verdict(r)
         /\ Furthest(r) \in 0..100
         /\ request[r].saw # None => Furthest(r) >= request[r].saw.pct
<1>1. Typed /\ Ready(r) /\ peak[l] \in 0..100 /\ request[r] \in RequestStates
  BY DEF Reported, Typed, TypeOK
<1>2. NewRow(r) # None /\ NewRow(r) \in RowValues /\ Furthest(r) \in 0..100
  BY <1>1, NewRowTyped DEF At
<1>3. NewRow(r).pct = Furthest(r) /\ NewRow(r).done = Verdict(r)
  BY DEF NewRow
<1>4. request[r].pct \in 0..100 /\ request[r].saw \in RowValues
  BY <1>1 DEF RequestStates
<1>5. request[r].saw # None => request[r].saw.pct \in 0..100
  BY <1>4 DEF RowValues
<1>6. /\ request[r].pct <= peak[l]
      /\ request[r].saw # None => request[r].saw.pct <= peak[l]
  BY <1>1 DEF Ready, Justified, Reporting, Stands
<1>7. /\ Furthest(r) <= peak[l]
      /\ request[r].saw # None => Furthest(r) >= request[r].saw.pct
  <2>1. peak[l] \in Nat /\ request[r].pct \in Nat
    BY <1>1, <1>4
  <2>2. CASE request[r].saw = None
    BY <1>6, <2>1, <2>2 DEF Furthest
  <2>3. CASE request[r].saw # None
    <3>1. request[r].saw.pct \in Nat
      BY <1>5, <2>3
    <3>2. Furthest(r) = IF request[r].pct > request[r].saw.pct
                        THEN request[r].pct ELSE request[r].saw.pct
      BY <2>3 DEF Furthest
    <3>3. QED
      BY <1>6, <2>1, <2>3, <3>1, <3>2
  <2>4. QED
    BY <2>2, <2>3
<1>8. ASSUME Verdict(r) PROVE Furthest(r) >= ReportThreshold(l) /\ QuizStands(l)
  BY <1>1, <1>8 DEF Verdict, Ready, Justified, Reporting, At
<1>9. Stands(l, NewRow(r))
  BY <1>3, <1>7, <1>8 DEF Stands
<1>10. QED
  BY <1>2, <1>3, <1>7, <1>9

LEMMA StandsStill ==
  ASSUME Typed, [Next]_vars, NEW CONSTANT l \in Lessons, NEW CONSTANT v \in RowValues,
         Stands(l, v)
  PROVE  Stands(l, v)'
<1>1. v # None => v.pct \in Nat
  BY DEF RowValues
<1>2. peak[l] \in Nat /\ peak'[l] \in Nat /\ peak'[l] >= peak[l]
  BY PeakGrows
<1>3. QuizStands(l) => QuizStands(l)'
  BY QuizStandsOn
<1>4. ASSUME v # None PROVE v.pct <= peak'[l]
  BY <1>1, <1>2, <1>4 DEF Stands
<1>5. QED
  BY <1>3, <1>4 DEF Stands, ReportThreshold

LEMMA JustifiedStill ==
  ASSUME Typed, [Next]_vars, NEW CONSTANT q \in RequestStates, Justified(q)
  PROVE  Justified(q)'
<1> SUFFICES ASSUME q.lesson # None PROVE Justified(q)'
  BY DEF Justified
<1>1. q.lesson \in Lessons /\ q.saw \in RowValues /\ q.pct \in Nat
  BY DEF RequestStates
<1>2. /\ peak[q.lesson] \in Nat /\ peak'[q.lesson] \in Nat
      /\ peak'[q.lesson] >= peak[q.lesson]
  BY <1>1, PeakGrows
<1>3. q.pct <= peak'[q.lesson]
  BY <1>1, <1>2 DEF Justified
<1>4. Stands(q.lesson, q.saw)'
  BY <1>1, StandsStill DEF Justified
<1>5. QuizStands(q.lesson) => QuizStands(q.lesson)'
  BY <1>1, QuizStandsOn
<1>6. invalidations > 0 => invalidations' > 0
  BY PassesOnlyInvalidated
<1>7. QED
  BY <1>3, <1>4, <1>5, <1>6 DEF Justified

LEMMA RowsStandOn ==
  ASSUME Reported, [Next]_vars, NEW l \in Lessons
  PROVE  Stands(l, row[l])'
<1>1. Typed /\ Stands(l, row[l]) /\ row[l] \in RowValues
  BY DEF Reported, Typed, TypeOK, Rows
<1>2. \E v \in RowValues : row'[l] = v /\ Stands(l, v)
  <2>1. CASE row'[l] = row[l]
    BY <1>1, <2>1
  <2>2. ASSUME NEW r \in Requests,
               Reporting(r), request[r].lesson = l, At(r, "write") \/ At(r, "flip"),
               row' = [row EXCEPT ![l] = NewRow(r)]
        PROVE  row'[l] = NewRow(r) /\ NewRow(r) \in RowValues /\ Stands(l, NewRow(r))
    BY <1>1, <2>2, WrittenStands DEF Typed, TypeOK, Rows
  <2>3. QED
    BY <1>1, <2>1, <2>2, LessonRows
<1>3. PICK v \in RowValues : row'[l] = v /\ Stands(l, v)
  BY <1>2
<1>4. Stands(l, v)'
  BY <1>1, <1>3, StandsStill
<1>5. QED
  BY <1>3, <1>4 DEF Stands

\* Nothing another request does disturbs a report.
LEMMA OthersReady ==
  ASSUME Reported, [Next]_vars, NEW s \in Requests, request'[s] = request[s]
  PROVE  Ready(s)'
<1>1. PICK q \in RequestStates : q = request[s]
  BY DEF Reported, Typed, TypeOK
<1>2. Justified(q)
  BY <1>1 DEF Reported, Ready
<1>3. Justified(q)'
  BY <1>2, JustifiedStill DEF Reported
<1>4. request'[s] = q
  BY <1>1
<1>5. QED
  BY <1>3, <1>4 DEF Ready, Justified, Stands, QuizStands

\* A request moves on.
LEMMA ReportedStep ==
  ASSUME Reported, [Next]_vars, NEW r \in Requests, NEW local, Become(r, local),
         Ready(r)'
  PROVE  Reported'
<1>1. Typed /\ Typed'
  BY TypedNext DEF Reported
<1>2. \A s \in Requests \ {r} : request'[s] = request[s]
  BY <1>1 DEF Become, Typed, TypeOK
<1>3. \A s \in Requests : Ready(s)'
  BY <1>2, OthersReady
<1>4. QED
  BY <1>1, <1>3, RowsStandOn DEF Reported

\* A request that reports nothing, or announces.
LEMMA QuietStep ==
  ASSUME Reported, [Next]_vars, NEW r \in Requests, NEW local, Become(r, local),
         local.lesson = None
  PROVE  Reported'
<1>1. request'[r] = local
  BY DEF Become, Reported, Typed, TypeOK
<1>2. Ready(r)'
  BY <1>1 DEF Ready, Justified
<1>3. QED
  BY <1>2, ReportedStep

LEMMA OnwardReported ==
  ASSUME Reported, [Next]_vars, NEW r \in Requests, Onward(r)
  PROVE  Reported'
<1>1. Fresh(Continued(r), request[r].complete)
  BY ContinuedIsFresh DEF Reported
<1>2. Become(r, Continued(r))
  BY OnwardStep DEF Reported
<1>3. QED
  BY <1>1, <1>2, QuietStep DEF Fresh

LEMMA ReadLessonReported ==
  ASSUME Reported, [Next]_vars, NEW r \in Requests, ReadLesson(r)
  PROVE  Reported'
<1> DEFINE q == request[r]
           pc == IF Quiz[q.lesson] = None THEN "write" ELSE "quiz"
           ok == Quiz[q.lesson] = None
           local == [q EXCEPT !.saw = row[q.lesson], !.pc = pc, !.quizOk = ok]
<1>1. Typed /\ q \in RequestStates /\ Directed(q) /\ q.lesson \in Lessons
  BY DEF ReadLesson, Reporting, Reported, Typed, TypeOK, RequestStates
<1>2. Become(r, local) /\ UNCHANGED <<row, peak, passed, invalidations>>
  BY DEF ReadLesson, Reading, bounds
<1>3. pc \in {"write", "quiz"} /\ ok \in BOOLEAN /\ row[q.lesson] \in RowValues
  BY <1>1 DEF Typed, TypeOK, Rows
<1> HIDE DEF pc, ok
<1>4. local \in RequestStates
  BY <1>1, <1>3 DEF RequestStates, Pcs
<1>5. /\ local.lesson = q.lesson /\ local.entity = q.entity
      /\ local.passes = q.passes /\ local.pc = pc /\ local.quizOk = ok
      /\ local.saw = row[q.lesson] /\ local.pct = q.pct
  BY <1>1 DEF RequestStates
<1> HIDE DEF q, local
<1>6. Directed(local)
  BY <1>1, <1>5, NoneIsNothing DEF Directed
<1>7. request'[r] = local
  BY <1>1, <1>2, <1>4, <1>6, LocalStep
<1>8. Ready(r)'
  <2>1. Stands(q.lesson, row[q.lesson]) /\ Justified(q)
    BY <1>1 DEF Reported, Ready, q
  <2>2. q.pct <= peak[q.lesson]
    BY <1>1, <2>1, NoneIsNothing DEF Justified
  <2>3. QED
    BY <1>1, <1>2, <1>5, <1>7, <2>1, <2>2
       DEF Ready, Justified, Stands, QuizStands, ReportThreshold, pc, ok
<1>9. QED
  BY <1>2, <1>8, ReportedStep DEF q

LEMMA ReadQuizReported ==
  ASSUME Reported, [Next]_vars, NEW r \in Requests, ReadQuiz(r)
  PROVE  Reported'
<1> DEFINE q == request[r]
           ok == Quiz[q.lesson] \in passed
           local == [q EXCEPT !.pc = "write", !.quizOk = ok]
<1>1. /\ Typed /\ q \in RequestStates /\ Directed(q) /\ q.pc = "quiz"
      /\ Justified(q) /\ q.lesson # None /\ q.lesson \in Lessons
  BY DEF ReadQuiz, At, Reported, Ready, Typed, TypeOK, Directed, RequestStates
<1>2. Become(r, local) /\ UNCHANGED <<row, peak, passed, invalidations>>
  BY DEF ReadQuiz, Reading, bounds
<1>3. ok \in BOOLEAN
  OBVIOUS
<1>4. /\ Quiz[q.lesson] # None /\ Stands(q.lesson, q.saw) /\ q.pct <= peak[q.lesson]
      /\ q.saw # None /\ q.saw.done => QuizStands(q.lesson)
  BY <1>1 DEF Justified, Stands
<1> HIDE DEF ok
<1>5. local \in RequestStates
  BY <1>1, <1>3 DEF RequestStates, Pcs
<1>6. /\ local.lesson = q.lesson /\ local.entity = q.entity
      /\ local.passes = q.passes /\ local.pc = "write" /\ local.quizOk = ok
      /\ local.saw = q.saw /\ local.pct = q.pct
  BY <1>1 DEF RequestStates
<1> HIDE DEF q, local
<1>7. Directed(local)
  BY <1>1, <1>6 DEF Directed
<1>8. request'[r] = local
  BY <1>1, <1>2, <1>5, <1>7, LocalStep
<1>9. Ready(r)'
  BY <1>2, <1>4, <1>6, <1>8 DEF Ready, Justified, Stands, QuizStands, ReportThreshold, ok
<1>10. QED
  BY <1>2, <1>9, ReportedStep DEF q

LEMMA ViewReadsReported ==
  ASSUME Reported, [Next]_vars, NEW r \in Requests,
         ReadWatched(r) \/ ReadPassed(r) \/ FindStatus(r)
  PROVE  Reported'
<1> DEFINE q == request[r]
<1>1. q \in RequestStates /\ Directed(q)
  BY DEF Reported, Typed, TypeOK
<1>2. q.lesson = None
  BY <1>1, NoneIsNothing
     DEF ReadWatched, ReadPassed, FindStatus, At, Reporting, Directed, Entities
<1>3. CASE ReadWatched(r)
  <2> DEFINE local == [q EXCEPT !.watched = Consumed \cap LessonsOf(q.entity)]
  <2>1. Become(r, local)
    BY <1>3 DEF ReadWatched
  <2>2. local.lesson = None
    BY <1>1, <1>2 DEF RequestStates
  <2> HIDE DEF local
  <2>3. QED
    BY <2>1, <2>2, QuietStep
<1>4. CASE ReadPassed(r)
  <2> DEFINE quizzes == {Quiz[l] : l \in {m \in LessonsOf(q.entity) : Quiz[m] # None}}
             local == [q EXCEPT !.passes = passed \cap (Gates[q.entity] \cup quizzes)]
  <2>1. Become(r, local)
    BY <1>4 DEF ReadPassed
  <2>2. local.lesson = None
    BY <1>1, <1>2 DEF RequestStates
  <2> HIDE DEF local
  <2>3. QED
    BY <2>1, <2>2, QuietStep
<1>5. CASE FindStatus(r)
  <2> DEFINE watched == IF q.entity \in Courses THEN q.watched ELSE {}
             complete == IF Complete(q.entity, watched, q.passes, q.complete)
                         THEN q.complete \cup {q.entity} ELSE q.complete
             local == [q EXCEPT !.pc = "write", !.saw = row[q.entity],
                                !.watched = None, !.passes = None,
                                !.complete = complete]
  <2>1. Become(r, local)
    BY <1>5 DEF FindStatus
  <2> HIDE DEF complete
  <2>2. local.lesson = None
    BY <1>1, <1>2 DEF RequestStates
  <2> HIDE DEF local
  <2>3. QED
    BY <2>1, <2>2, QuietStep
<1>6. QED
  BY <1>3, <1>4, <1>5

LEMMA WriteReported ==
  ASSUME Reported, [Next]_vars, NEW r \in Requests, WriteRow(r) \/ FlipAfterCreate(r)
  PROVE  Reported'
<1> DEFINE q == request[r]
<1>1. /\ Typed /\ q \in RequestStates /\ Justified(q) /\ Outcome(r)
      /\ q.pc \in {"write", "flip"} /\ UNCHANGED <<passed, invalidations, peak>>
  BY WriteHasOutcome
     DEF Reported, Ready, Typed, TypeOK, WriteRow, FlipAfterCreate, At, bounds
<1>2. CASE Onward(r)
  BY <1>2, OnwardReported
<1>3. ASSUME NEW pc \in {"tell", "flip"}, Become(r, [q EXCEPT !.pc = pc])
      PROVE  Reported'
  <2> DEFINE local == [q EXCEPT !.pc = pc]
  <2>1. Become(r, local)
    BY <1>3
  <2>2. /\ local.lesson = q.lesson /\ local.pct = q.pct /\ local.saw = q.saw
        /\ local.quizOk = q.quizOk /\ local.pc = pc
    BY <1>1 DEF RequestStates
  <2> HIDE DEF local
  <2>3. request'[r] = local
    BY <1>1, <2>1 DEF Become, Typed, TypeOK
  <2> HIDE DEF q
  <2>4. Ready(r)'
    BY <1>1, <2>2, <2>3 DEF Ready, Justified, Stands, QuizStands, ReportThreshold
  <2>5. QED
    BY <2>1, <2>4, ReportedStep
<1>4. QED
  BY <1>1, <1>2, <1>3 DEF Outcome

LEMMA ReportReported ==
  ASSUME Reported, [Next]_vars, NEW r \in Requests,
         NEW l \in Lessons, NEW pct \in Reports, Report(r, l, pct)
  PROVE  Reported'
<1> DEFINE local == [Idle EXCEPT !.pc = "read", !.lesson = l, !.pct = pct]
<1>1. /\ Become(r, local) /\ local.lesson = l /\ local.pct = pct
      /\ local.pc = "read" /\ local.saw = None
  BY DEF Report, Idle
<1> HIDE DEF local
<1>2. request'[r] = local
  BY <1>1 DEF Become, Reported, Typed, TypeOK
<1>3. pct <= peak'[l]
  <2>1. pct \in 0..100 /\ peak[l] \in 0..100
    <3>1. Reports \subseteq 0..100
      BY CompletionAssumption
    <3>2. peak \in [Lessons -> 0..100]
      BY DEF Reported, Typed, TypeOK
    <3>3. QED
      BY <3>1, <3>2
  <2>2. peak'[l] = IF pct > peak[l] THEN pct ELSE peak[l]
    BY DEF Report, Reported, Typed, TypeOK
  <2>3. QED
    BY <2>1, <2>2
<1>4. Ready(r)'
  BY <1>1, <1>2, <1>3 DEF Ready, Justified, Stands
<1>5. QED
  BY <1>1, <1>4, ReportedStep

LEMMA ReportedInit == Init => Reported
<1> SUFFICES ASSUME Init PROVE Reported
  OBVIOUS
<1>1. \A r \in Requests : Ready(r)
  BY DEF Init, Idle, Ready, Justified
<1>2. \A l \in Lessons : Stands(l, row[l])
  BY DEF Init, Stands, Rows
<1>3. QED
  BY <1>1, <1>2, TypedInit DEF Reported

LEMMA ReportedNext ==
  ASSUME Reported, [Next]_vars
  PROVE  Reported'
<1>1. ASSUME NEW r \in Requests, NEW e \in Entities, View(r, e) PROVE Reported'
  <2>1. Become(r, Computing(Plan(e), {}))
    BY <1>1 DEF View, Compute, Computing
  <2>2. Computing(Plan(e), {}).lesson = None
    BY PlanOfEntities, ComputingIsFresh DEF Fresh
  <2>3. QED
    BY <2>1, <2>2, QuietStep
<1>2. ASSUME NEW r \in Requests, RequestStep(r) PROVE Reported'
  <2>1. CASE Tell(r)
    BY <2>1, OnwardReported DEF Tell
  <2>2. QED
    BY <1>2, <2>1, ReadLessonReported, ReadQuizReported, ViewReadsReported, WriteReported
       DEF RequestStep
<1>3. ASSUME NEW r \in Requests, FailRequest(r) PROVE Reported'
  <2>1. Idle.lesson = None
    BY DEF Idle
  <2>2. QED
    BY <1>3, <2>1, QuietStep DEF FailRequest
<1>4. ASSUME UNCHANGED request PROVE Reported'
  <2>1. \A s \in Requests : Ready(s)'
    BY <1>4, OthersReady
  <2>2. QED
    BY <2>1, RowsStandOn, TypedNext DEF Reported
<1>5. ASSUME NEW e \in Entities,
             HandlerStep(e) \/ \E s \in Stages : FailHandler(e, s)
      PROVE  UNCHANGED request
  BY <1>5 DEF HandlerStep, LookCertificate, CreateCertificate, FlagCompletion,
              FailHandler, Moves
<1>6. ASSUME NEW i \in Items, Pass(i) \/ Invalidate(i) PROVE UNCHANGED request
  BY <1>6 DEF Pass, Invalidate
<1>7. CASE UNCHANGED vars
  BY <1>4, <1>7 DEF vars
<1>8. QED
  BY <1>1, <1>2, <1>3, <1>4, <1>5, <1>6, <1>7, ReportReported DEF Next

LEMMA ReportedAlways == Spec => []Reported
BY ReportedInit, ReportedNext, PTL DEF Spec

\* What a report that still knows the row may do to it.
LEMMA FreshReportsKeep ==
  ASSUME Reported, [Next]_vars, NEW l \in Lessons, row[l] # None,
         NEW r \in Requests, Reporting(r), request[r].lesson = l,
         At(r, "write") \/ At(r, "flip"),
         row' = [row EXCEPT ![l] = NewRow(r)], request[r].saw = row[l]
  PROVE  /\ row'[l] # None /\ row'[l].pct >= row[l].pct
         /\ row[l].done /\ ~row'[l].done => invalidations > 0
<1>1. /\ Typed /\ Stands(l, row[l]) /\ l \in Rows /\ Justified(request[r])
      /\ row[l] \in RowValues
  BY DEF Reported, Ready, Rows, Typed, TypeOK
<1>2. row[l].pct \in Nat
  BY <1>1 DEF RowValues
<1>3. row'[l] = NewRow(r)
  BY <1>1 DEF Typed, TypeOK
<1>4. /\ NewRow(r) # None /\ NewRow(r).pct = Furthest(r)
      /\ NewRow(r).done = Verdict(r) /\ Furthest(r) \in Nat
      /\ Furthest(r) >= row[l].pct
  BY WrittenStands
<1>5. ASSUME row[l].done, ~Verdict(r) PROVE invalidations > 0
  <2>1. row[l].pct >= ReportThreshold(l)
    BY <1>1, <1>5 DEF Stands
  <2>2. ReportThreshold(l) \in Nat
    BY CompletionAssumption DEF ReportThreshold
  <2>3. Furthest(r) >= ReportThreshold(l)
    BY <1>2, <1>4, <2>1, <2>2
  <2>4. ~request[r].quizOk
    BY <1>5, <2>3 DEF Verdict
  <2>5. QED
    BY <1>1, <1>5, <2>4 DEF Justified, Reporting, At
<1>6. QED
  BY <1>3, <1>4, <1>5

(***************************************************************************)
(* However many reports of a lesson overlap: the percentage watched is     *)
(* lowered, and a completed lesson taken back before any invalidation, by  *)
(* nothing but the write of a report whose read of that row is stale.      *)
(***************************************************************************)
THEOREM OnlyStaleReportsLower == Spec => LoweredByStaleOnly
<1> DEFINE Kept(l) ==
             /\ row'[l] # None /\ row'[l].pct >= row[l].pct
             /\ row[l].done /\ ~row'[l].done => invalidations > 0
           Stale(l) ==
             \E r \in Requests :
               /\ request[r].lesson = l /\ (At(r, "write") \/ At(r, "flip"))
               /\ request'[r] # request[r] /\ request[r].saw # row[l]
<1>1. ASSUME Reported, [Next]_vars, NEW l \in Lessons, row[l] # None
      PROVE  Kept(l) \/ Stale(l)
  <2>1. CASE row'[l] = row[l]
    <3>1. row[l].pct \in Nat
      BY <1>1 DEF Reported, Typed, TypeOK, Rows, RowValues
    <3>2. QED
      BY <1>1, <2>1, <3>1
  <2>2. ASSUME NEW r \in Requests, Reporting(r), request[r].lesson = l,
               At(r, "write") \/ At(r, "flip"), request'[r] # request[r],
               row' = [row EXCEPT ![l] = NewRow(r)]
        PROVE  Kept(l) \/ Stale(l)
    <3>1. CASE request[r].saw = row[l]
      BY <1>1, <2>2, <3>1, FreshReportsKeep
    <3>2. CASE request[r].saw # row[l]
      BY <2>2, <3>2
    <3>3. QED
      BY <3>1, <3>2
  <2> HIDE DEF Kept, Stale
  <2>3. QED
    BY <1>1, <2>1, <2>2, LessonRows DEF Reported
<1>2. Reported /\ [Next]_vars =>
        [\A l \in Lessons : row[l] # None =>
           \/ /\ row'[l] # None /\ row'[l].pct >= row[l].pct
              /\ row[l].done /\ ~row'[l].done => invalidations > 0
           \/ \E r \in Requests :
                /\ request[r].lesson = l /\ (At(r, "write") \/ At(r, "flip"))
                /\ request'[r] # request[r] /\ request[r].saw # row[l]]_row
  BY <1>1
<1>3. QED
  BY <1>2, ReportedAlways, PTL DEF Spec, LoweredByStaleOnly

----------------------------------------------------------------------------
(* Certificates.                                                           *)

\* The lessons watched, in some report, as far as the views ask.
Seen == {l \in Lessons : peak[l] >= ViewThreshold(l)}

\* While nothing is invalidated: what a view holds is still so, what it
\* counts as complete is earned, and so is what it announces and what the
\* handlers certify.
Held(r) ==
  LET q == request[r] IN
  ~Reporting(r) =>
    /\ q.watched # None => q.watched \subseteq Seen
    /\ q.passes # None => q.passes \subseteq passed
    /\ \A e \in q.complete : Earned(e)
    /\ q.pc = "tell" => q.entity \in q.complete

Backed(e) ==
  (certificates[e] > 0 \/ \E s \in Stages : issuing[e][s] > 0) => Earned(e)

\* A handler that will set the flag has made the certificate.
Flagging(e) ==
  issuing[e]["flag"] > 0 \/ e \in flagged => certificates[e] > 0

Certified ==
  /\ Reported
  /\ \A e \in Entities : Flagging(e)
  /\ invalidations = 0 => /\ \A r \in Requests : Held(r)
                          /\ \A e \in Entities : Backed(e)

\* Without invalidations nothing that was met is lost.
LEMMA MetStaysMet ==
  ASSUME Reported, [Next]_vars, invalidations' = 0
  PROVE  /\ invalidations = 0 /\ passed \subseteq passed' /\ Seen \subseteq Seen'
         /\ \A e \in Entities : Earned(e) => Earned(e)'
<1>1. invalidations = 0 /\ passed \subseteq passed'
  BY PassesOnlyInvalidated DEF Reported
<1>2. Seen \subseteq Seen'
  <2>1. ASSUME NEW l \in Lessons, peak[l] >= ViewThreshold(l)
        PROVE  peak'[l] >= ViewThreshold(l)
    <3>1. /\ peak[l] \in Nat /\ peak'[l] \in Nat /\ peak'[l] >= peak[l]
          /\ ViewThreshold(l) \in Nat
      BY PeakGrows, CompletionAssumption DEF Reported, ViewThreshold
    <3>2. QED
      BY <2>1, <3>1
  <2>2. QED
    BY <2>1 DEF Seen, ViewThreshold
<1>3. ASSUME NEW e \in Entities, Earned(e) PROVE Earned(e)'
  BY <1>1, <1>2, <1>3 DEF Earned, StandsOn, Gating, Seen, LessonsOf, ViewThreshold
<1>4. QED
  BY <1>1, <1>2, <1>3

\* What a row says was watched was reported.
LEMMA ConsumedIsSeen ==
  ASSUME Reported
  PROVE  Consumed \subseteq Seen
<1>1. ASSUME NEW l \in Lessons, Pct(l) >= ViewThreshold(l)
      PROVE  peak[l] >= ViewThreshold(l)
  <2>1. peak[l] \in Nat /\ ViewThreshold(l) \in Nat /\ row[l] \in RowValues
    BY CompletionAssumption DEF Reported, Typed, TypeOK, Rows, ViewThreshold
  <2>2. Pct(l) \in Nat /\ Pct(l) <= peak[l]
    BY <2>1 DEF Reported, Stands, Pct, RowValues
  <2>3. QED
    BY <1>1, <2>1, <2>2
<1>2. QED
  BY <1>1 DEF Consumed, Seen

\* The verdict of a view is the reference's: what its stale reads add up to
\* is earned.
LEMMA CompleteIsEarned ==
  ASSUME NEW e \in Entities, NEW watched, NEW passes, NEW complete,
         watched \subseteq Seen, passes \subseteq passed,
         \A d \in complete : Earned(d),
         Complete(e, watched, passes, complete)
  PROVE  Earned(e)
<1>1. Gates[e] \subseteq passed
  BY DEF Complete
<1>2. \A l \in LessonsOf(e) : l \in Seen /\ Quiz[l] \in passed \cup {None}
  <2>1. CASE e \in Courses
    BY <2>1 DEF Complete, CourseMet
  <2>2. CASE e \notin Courses
    BY <2>2, CompletionAssumption DEF LessonsOf
  <2>3. QED
    BY <2>1, <2>2
<1>3. \A d \in Gating(e) : Earned(d)
  <2>1. CASE e \in Paths
    BY <2>1 DEF Complete, PathMet, CohortMet, Gating, Aggregates
  <2>2. CASE e \notin Paths /\ e \in Cohorts
    BY <2>2 DEF Complete, PathMet, CohortMet, Gating, Aggregates
  <2>3. CASE e \notin Aggregates
    BY <2>3 DEF Gating, Aggregates
  <2>4. QED
    BY <2>1, <2>2, <2>3 DEF Aggregates
<1>4. ASSUME NEW d \in StandsOn(e)
      PROVE  /\ Gates[d] \subseteq passed
             /\ \A l \in LessonsOf(d) :
                  l \in Seen /\ Quiz[l] \in passed \cup {None}
  <2>1. CASE d = e
    BY <1>1, <1>2, <2>1
  <2>2. CASE d \in Gating(e)
    <3>1. d \in StandsOn(d)
      BY DEF StandsOn
    <3>2. QED
      BY <1>3, <2>2, <3>1 DEF Earned, Seen, LessonsOf
  <2>3. ASSUME NEW g \in Gating(e), d \in Gating(g)
        PROVE  /\ Gates[d] \subseteq passed
               /\ \A l \in LessonsOf(d) :
                    l \in Seen /\ Quiz[l] \in passed \cup {None}
    <3>1. d \in StandsOn(g)
      BY <2>3 DEF StandsOn
    <3>2. QED
      BY <1>3, <2>3, <3>1 DEF Earned, Seen, LessonsOf
  <2>4. QED
    BY <1>4, <2>1, <2>2, <2>3 DEF StandsOn
<1>5. QED
  BY <1>4 DEF Earned, Seen

LEMMA CertifiedInit == Init => Certified
<1> SUFFICES ASSUME Init PROVE Certified
  OBVIOUS
<1>1. \A e \in Entities : Flagging(e) /\ Backed(e)
  BY DEF Init, Flagging, Backed, Stages
<1>2. \A r \in Requests : Held(r)
  BY DEF Init, Idle, Held
<1>3. QED
  BY <1>1, <1>2, ReportedInit DEF Certified

\* A request that goes on with what it has read holds what it held.
LEMMA OthersHeld ==
  ASSUME Reported, [Next]_vars, invalidations' = 0, NEW s \in Requests, Held(s),
         LET q == request[s] next == request'[s] IN
           /\ next.lesson = q.lesson /\ next.entity = q.entity
           /\ next.watched = q.watched /\ next.passes = q.passes
           /\ next.complete = q.complete
           /\ next.pc = "tell" /\ ~Reporting(s) => q.pc = "tell" \/ q.entity \in q.complete
  PROVE  Held(s)'
<1>1. /\ Seen \subseteq Seen' /\ passed \subseteq passed'
      /\ \A e \in Entities : Earned(e) => Earned(e)'
  BY MetStaysMet
<1>2. request[s].complete \subseteq Entities
  BY DEF Reported, Typed, TypeOK, RequestStates
<1>3. QED
  BY <1>1, <1>2 DEF Held, Reporting

\* A request that starts over holds nothing but its verdicts.
LEMMA FreshHeld ==
  ASSUME Reported, [Next]_vars, invalidations' = 0, NEW r \in Requests,
         NEW complete, \A e \in complete : e \in Entities /\ Earned(e),
         Fresh(request'[r], complete)
  PROVE  Held(r)'
<1>1. \A e \in complete : Earned(e)'
  BY MetStaysMet
<1>2. QED
  BY <1>1 DEF Fresh, Held

LEMMA OnwardHeld ==
  ASSUME Reported, [Next]_vars, invalidations' = 0, NEW r \in Requests,
         Held(r), Onward(r)
  PROVE  Held(r)'
<1>1. request'[r] = Continued(r) /\ Typed
  BY OnwardStep DEF Reported, Become, Typed, TypeOK
<1>2. CASE Reporting(r)
  <2>1. CourseOf[request[r].lesson] \in Entities
    BY <1>1, <1>2, CompletionAssumption
       DEF Reporting, Typed, TypeOK, RequestStates, Entities
  <2>2. Fresh(Continued(r), {})
    BY <1>2, <2>1, PlanOfEntities, ComputingIsFresh DEF Continued
  <2>3. QED
    BY <1>1, <2>2, FreshHeld
<1>3. CASE ~Reporting(r)
  <2>1. \A e \in request[r].complete : e \in Entities /\ Earned(e)
    BY <1>1, <1>3 DEF Held, Typed, TypeOK, RequestStates
  <2>2. Fresh(Continued(r), request[r].complete)
    BY <1>1, ContinuedIsFresh
  <2>3. QED
    BY <1>1, <2>1, <2>2, FreshHeld
<1>4. QED
  BY <1>2, <1>3

LEMMA ViewReadsHeld ==
  ASSUME Reported, [Next]_vars, invalidations' = 0, NEW r \in Requests, Held(r),
         ReadWatched(r) \/ ReadPassed(r) \/ FindStatus(r)
  PROVE  Held(r)'
<1> DEFINE q == request[r]
<1>1. Typed /\ q \in RequestStates /\ Directed(q)
  BY DEF Reported, Typed, TypeOK
<1>2. q.lesson = None /\ q.pc = "read" /\ q.entity \in Entities
  BY <1>1, NoneIsNothing
     DEF ReadWatched, ReadPassed, FindStatus, At, Reporting, Directed, RequestStates,
         Entities
<1>3. /\ q.watched # None => q.watched \subseteq Seen
      /\ q.passes # None => q.passes \subseteq passed
      /\ \A e \in q.complete : Earned(e)
  BY <1>2 DEF Held, Reporting
<1>4. /\ Seen \subseteq Seen' /\ passed \subseteq passed'
      /\ \A e \in Entities : Earned(e) => Earned(e)'
  BY MetStaysMet
<1>5. q.complete \subseteq Entities
  BY <1>1 DEF RequestStates
<1>6. CASE ReadWatched(r)
  <2> DEFINE saw == Consumed \cap LessonsOf(q.entity)
             local == [q EXCEPT !.watched = saw]
  <2>1. Become(r, local)
    BY <1>6 DEF ReadWatched
  <2>2. /\ local.watched = saw /\ local.passes = q.passes /\ local.pc = q.pc
        /\ local.complete = q.complete
    BY <1>1 DEF RequestStates
  <2> HIDE DEF local
  <2>3. request'[r] = local
    BY <1>1, <2>1 DEF Become, Typed, TypeOK
  <2>4. saw \subseteq Seen
    BY ConsumedIsSeen
  <2> HIDE DEF saw
  <2>5. QED
    BY <1>2, <1>3, <1>4, <1>5, <2>2, <2>3, <2>4 DEF Held
<1>7. CASE ReadPassed(r)
  <2> DEFINE quizzes == {Quiz[l] : l \in {m \in LessonsOf(q.entity) : Quiz[m] # None}}
             saw == passed \cap (Gates[q.entity] \cup quizzes)
             local == [q EXCEPT !.passes = saw]
  <2>1. Become(r, local)
    BY <1>7 DEF ReadPassed
  <2>2. saw \subseteq passed
    OBVIOUS
  <2> HIDE DEF saw
  <2>3. /\ local.passes = saw /\ local.watched = q.watched /\ local.pc = q.pc
        /\ local.complete = q.complete
    BY <1>1 DEF RequestStates
  <2> HIDE DEF local
  <2>4. request'[r] = local
    BY <1>1, <2>1 DEF Become, Typed, TypeOK
  <2>5. QED
    BY <1>2, <1>3, <1>4, <1>5, <2>2, <2>3, <2>4 DEF Held
<1>8. CASE FindStatus(r)
  <2> DEFINE watched == IF q.entity \in Courses THEN q.watched ELSE {}
             complete == IF Complete(q.entity, watched, q.passes, q.complete)
                         THEN q.complete \cup {q.entity} ELSE q.complete
             local == [q EXCEPT !.pc = "write", !.saw = row[q.entity],
                                !.watched = None, !.passes = None,
                                !.complete = complete]
  <2>1. Become(r, local) /\ q.passes # None /\ watched # None
    BY <1>8 DEF FindStatus
  <2>2. watched \subseteq Seen /\ q.passes \subseteq passed
    BY <1>3, <2>1
  <2>3. complete \subseteq Entities /\ \A e \in complete : Earned(e)
    BY <1>2, <1>3, <1>5, <2>2, CompleteIsEarned
  <2> HIDE DEF complete, watched
  <2>4. /\ local.watched = None /\ local.passes = None /\ local.pc = "write"
        /\ local.complete = complete
    BY <1>1 DEF RequestStates
  <2> HIDE DEF local
  <2>5. request'[r] = local
    BY <1>1, <2>1 DEF Become, Typed, TypeOK
  <2>6. QED
    BY <1>4, <2>3, <2>4, <2>5 DEF Held
<1>9. QED
  BY <1>6, <1>7, <1>8

LEMMA ReportReadsHeld ==
  ASSUME Reported, NEW r \in Requests, ReadLesson(r) \/ ReadQuiz(r)
  PROVE  Held(r)'
<1> DEFINE q == request[r]
<1>1. Typed /\ q \in RequestStates /\ q.lesson # None
  BY DEF Reported, Typed, TypeOK, ReadLesson, ReadQuiz, At, Reporting, Directed
<1>2. request'[r].lesson = q.lesson
  <2>1. CASE ReadLesson(r)
    <3> DEFINE pc == IF Quiz[q.lesson] = None THEN "write" ELSE "quiz"
               ok == Quiz[q.lesson] = None
               local == [q EXCEPT !.saw = row[q.lesson], !.pc = pc, !.quizOk = ok]
    <3>1. Become(r, local)
      BY <2>1 DEF ReadLesson
    <3> HIDE DEF pc, ok
    <3>2. local.lesson = q.lesson
      BY <1>1 DEF RequestStates
    <3> HIDE DEF local
    <3>3. QED
      BY <1>1, <3>1, <3>2 DEF Become, Typed, TypeOK
  <2>2. CASE ReadQuiz(r)
    <3> DEFINE ok == Quiz[q.lesson] \in passed
               local == [q EXCEPT !.pc = "write", !.quizOk = ok]
    <3>1. Become(r, local)
      BY <2>2 DEF ReadQuiz
    <3> HIDE DEF ok
    <3>2. local.lesson = q.lesson
      BY <1>1 DEF RequestStates
    <3> HIDE DEF local
    <3>3. QED
      BY <1>1, <3>1, <3>2 DEF Become, Typed, TypeOK
  <2>3. QED
    BY <2>1, <2>2
<1>3. QED
  BY <1>1, <1>2 DEF Held, Reporting

LEMMA WriteHeld ==
  ASSUME Reported, [Next]_vars, invalidations' = 0, NEW r \in Requests, Held(r),
         WriteRow(r) \/ FlipAfterCreate(r)
  PROVE  Held(r)'
<1> DEFINE q == request[r]
<1>1. /\ Typed /\ q \in RequestStates /\ Outcome(r) /\ q.pc # "tell"
  BY WriteHasOutcome DEF Reported, Typed, TypeOK, WriteRow, FlipAfterCreate, At
<1>2. CASE Onward(r)
  BY <1>2, OnwardHeld
<1>3. ASSUME NEW pc \in {"tell", "flip"}, Become(r, [q EXCEPT !.pc = pc]),
             pc = "tell" /\ ~Reporting(r) => q.entity \in q.complete
      PROVE  Held(r)'
  <2> DEFINE local == [q EXCEPT !.pc = pc]
  <2>1. Become(r, local)
    BY <1>3
  <2>2. /\ local.lesson = q.lesson /\ local.entity = q.entity
        /\ local.watched = q.watched /\ local.passes = q.passes
        /\ local.complete = q.complete /\ local.pc = pc
    BY <1>1 DEF RequestStates
  <2> HIDE DEF local
  <2>3. request'[r] = local
    BY <1>1, <2>1 DEF Become, Typed, TypeOK
  <2>4. QED
    BY <1>3, <2>2, <2>3, OthersHeld
<1>4. CASE Become(r, [q EXCEPT !.pc = "tell"]) /\ Verdict(r)
  BY <1>3, <1>4 DEF Verdict
<1>5. CASE Become(r, [q EXCEPT !.pc = "flip"])
  BY <1>3, <1>5
<1>6. QED
  BY <1>1, <1>2, <1>4, <1>5 DEF Outcome

LEMMA HeldNext ==
  ASSUME Reported, [Next]_vars, invalidations' = 0, NEW r \in Requests, Held(r)
  PROVE  Held(r)'
<1>1. Typed
  BY DEF Reported
<1>2. CASE request'[r] = request[r]
  BY <1>2, OthersHeld
<1>3. ASSUME NEW s \in Requests, NEW local, Become(s, local), s # r
      PROVE  request'[r] = request[r]
  BY <1>1, <1>3 DEF Become, Typed, TypeOK
<1>4. ASSUME NEW l \in Lessons, NEW pct \in Reports, Report(r, l, pct)
      PROVE  Held(r)'
  <2>1. request'[r].lesson = l
    BY <1>1, <1>4 DEF Report, Become, Idle, Typed, TypeOK
  <2>2. QED
    BY <2>1, NoneIsNothing DEF Held, Reporting
<1>5. ASSUME NEW e \in Entities, View(r, e) PROVE Held(r)'
  <2>1. request'[r] = Computing(Plan(e), {})
    BY <1>1, <1>5 DEF View, Compute, Computing, Become, Typed, TypeOK
  <2>2. Fresh(Computing(Plan(e), {}), {})
    BY PlanOfEntities, ComputingIsFresh
  <2>3. QED
    BY <2>1, <2>2, FreshHeld
<1>6. CASE RequestStep(r)
  <2>1. CASE Tell(r)
    BY <2>1, OnwardHeld DEF Tell
  <2>2. QED
    BY <1>6, <2>1, ViewReadsHeld, ReportReadsHeld, WriteHeld DEF RequestStep
<1>7. CASE FailRequest(r)
  <2>1. request'[r] = Idle
    BY <1>1, <1>7 DEF FailRequest, Become, Typed, TypeOK
  <2>2. Fresh(request'[r], {})
    BY <2>1, IdleIsFresh
  <2>3. QED
    BY <2>2, FreshHeld
<1>8. ASSUME NEW s \in Requests, s # r,
             \/ \E l \in Lessons, pct \in Reports : Report(s, l, pct)
             \/ \E e \in Entities : View(s, e)
             \/ RequestStep(s) \/ FailRequest(s)
      PROVE  request'[r] = request[r]
  <2>1. Outcome(s) => \E local : Become(s, local)
    BY OnwardStep, <1>1 DEF Outcome
  <2>2. Onward(s) => \E local : Become(s, local)
    BY OnwardStep, <1>1
  <2>3. CASE ReadLesson(s) \/ ReadQuiz(s) \/ ReadWatched(s) \/ ReadPassed(s) \/ FindStatus(s)
    <3>1. \E local : Become(s, local)
      BY <2>3, Zenon DEF ReadLesson, ReadQuiz, ReadWatched, ReadPassed, FindStatus
    <3>2. QED
      BY <1>3, <1>8, <3>1
  <2>4. CASE WriteRow(s) \/ FlipAfterCreate(s)
    BY <1>3, <1>8, <2>1, <2>4, WriteHasOutcome
  <2>5. CASE Tell(s)
    BY <1>3, <1>8, <2>2, <2>5 DEF Tell
  <2>6. CASE FailRequest(s)
    BY <1>3, <1>8, <2>6 DEF FailRequest
  <2>7. ASSUME NEW l \in Lessons, NEW pct \in Reports, Report(s, l, pct)
        PROVE  request'[r] = request[r]
    BY <1>3, <1>8, <2>7 DEF Report
  <2>8. ASSUME NEW e \in Entities, View(s, e) PROVE request'[r] = request[r]
    BY <1>3, <1>8, <2>8 DEF View, Compute
  <2>9. QED
    BY <1>8, <2>3, <2>4, <2>5, <2>6, <2>7, <2>8 DEF RequestStep
<1>9. ASSUME NEW e \in Entities,
             HandlerStep(e) \/ \E s \in Stages : FailHandler(e, s)
      PROVE  UNCHANGED request
  BY <1>9 DEF HandlerStep, LookCertificate, CreateCertificate, FlagCompletion,
              FailHandler, Moves
<1>10. ASSUME NEW i \in Items, Pass(i) \/ Invalidate(i) PROVE UNCHANGED request
  BY <1>10 DEF Pass, Invalidate
<1>11. CASE UNCHANGED vars
  BY <1>2, <1>11 DEF vars
<1>12. QED
  BY <1>2, <1>4, <1>5, <1>6, <1>7, <1>8, <1>9, <1>10, <1>11 DEF Next

\* What a step may do to the certificates of an entity.
LEMMA CertificateSteps ==
  ASSUME Reported, [Next]_vars
  PROVE  \/ UNCHANGED certVars
         \/ \E r \in Requests :
              /\ At(r, "tell") /\ ~Reporting(r)
              /\ issuing' = [issuing EXCEPT ![request[r].entity].look = @ + 1]
              /\ UNCHANGED <<certificates, flagged>>
         \/ \E e \in Entities :
              HandlerStep(e) \/ \E s \in Stages : FailHandler(e, s)
<1>1. ASSUME NEW r \in Requests, Tell(r)
      PROVE  \/ UNCHANGED certVars
             \/ /\ At(r, "tell") /\ ~Reporting(r)
                /\ issuing' = [issuing EXCEPT ![request[r].entity].look = @ + 1]
                /\ UNCHANGED <<certificates, flagged>>
  <2>1. Typed /\ ~At(r, "idle")
    BY <1>1 DEF Reported, Tell, At
  <2>2. CASE Reporting(r)
    BY <1>1, <2>1, <2>2, NewRowTyped, CompletionAssumption DEF Tell, certVars
  <2>3. CASE ~Reporting(r)
    BY <1>1, <2>1, <2>3, NewRowTyped DEF Tell
  <2>4. QED
    BY <2>2, <2>3
<1>2. ASSUME NEW r \in Requests, Begin(r) \/ FailRequest(r) PROVE UNCHANGED certVars
  BY <1>2 DEF Begin, FailRequest, certVars
<1>3. ASSUME NEW r \in Requests, RequestStep(r)
      PROVE  Tell(r) \/ UNCHANGED certVars
  BY <1>3 DEF RequestStep, ReadLesson, ReadQuiz, ReadWatched, ReadPassed, FindStatus,
              WriteRow, FlipAfterCreate, Reading, certVars
<1>4. ASSUME NEW i \in Items, Pass(i) \/ Invalidate(i) PROVE UNCHANGED certVars
  BY <1>4 DEF Pass, Invalidate, certVars
<1>5. CASE UNCHANGED vars
  BY <1>5 DEF vars, certVars
<1>6. QED
  BY <1>1, <1>2, <1>3, <1>4, <1>5 DEF Next, Report, View

LEMMA BackedNext ==
  ASSUME Certified, [Next]_vars, invalidations' = 0, NEW e \in Entities
  PROVE  Backed(e)'
<1>1. /\ Reported /\ Typed /\ Backed(e)
      /\ \A r \in Requests : Held(r)
      /\ Earned(e) => Earned(e)'
  BY MetStaysMet DEF Certified, Reported
<1>2. issuing \in [Entities -> [Stages -> Nat]] /\ certificates \in [Entities -> Nat]
  BY <1>1 DEF Typed, TypeOK
<1>3. CASE UNCHANGED certVars
  BY <1>1, <1>3 DEF Backed, certVars
<1>4. ASSUME NEW r \in Requests, At(r, "tell"), ~Reporting(r),
             issuing' = [issuing EXCEPT ![request[r].entity].look = @ + 1],
             UNCHANGED <<certificates, flagged>>
      PROVE  Backed(e)'
  <2>1. CASE request[r].entity = e
    <3>1. Earned(e)
      BY <1>1, <1>4, <2>1 DEF Held, At
    <3>2. QED
      BY <1>1, <3>1 DEF Backed
  <2>2. CASE request[r].entity # e
    <3>1. issuing'[e] = issuing[e]
      BY <1>2, <1>4, <2>2
    <3>2. QED
      BY <1>1, <1>4, <3>1 DEF Backed
  <2>3. QED
    BY <2>1, <2>2
<1>5. ASSUME NEW d \in Entities, NEW from \in Stages, NEW to, Moves(d, from, to),
             \A c \in Entities \ {d} : certificates'[c] = certificates[c]
      PROVE  Backed(e)'
  <2>1. CASE d = e
    <3>1. Earned(e)
      BY <1>1, <1>5, <2>1 DEF Moves, Backed
    <3>2. QED
      BY <1>1, <3>1 DEF Backed
  <2>2. CASE d # e
    <3>1. issuing'[e] = issuing[e]
      BY <1>2, <1>5, <2>2 DEF Moves
    <3>2. QED
      BY <1>1, <1>5, <2>2, <3>1 DEF Backed
  <2>3. QED
    BY <2>1, <2>2
<1>6. ASSUME NEW d \in Entities,
             HandlerStep(d) \/ \E s \in Stages : FailHandler(d, s)
      PROVE  Backed(e)'
  <2>1. CASE LookCertificate(d)
    BY <1>5, <2>1 DEF LookCertificate, Stages
  <2>2. CASE CreateCertificate(d)
    BY <1>2, <1>5, <2>2 DEF CreateCertificate, Stages
  <2>3. CASE FlagCompletion(d)
    BY <1>5, <2>3 DEF FlagCompletion, Stages
  <2>4. ASSUME NEW s \in Stages, FailHandler(d, s) PROVE Backed(e)'
    BY <1>5, <2>4 DEF FailHandler
  <2>5. QED
    BY <1>6, <2>1, <2>2, <2>3, <2>4 DEF HandlerStep
<1>7. QED
  BY <1>1, <1>3, <1>4, <1>6, CertificateSteps

LEMMA FlaggingNext ==
  ASSUME Certified, [Next]_vars, NEW e \in Entities
  PROVE  Flagging(e)'
<1>1. Reported /\ Typed /\ Flagging(e)
  BY DEF Certified, Reported
<1>2. issuing \in [Entities -> [Stages -> Nat]] /\ certificates \in [Entities -> Nat]
  BY <1>1 DEF Typed, TypeOK
<1>3. CASE UNCHANGED certVars
  BY <1>1, <1>3 DEF Flagging, certVars
<1>4. ASSUME NEW r \in Requests, At(r, "tell"), ~Reporting(r),
             issuing' = [issuing EXCEPT ![request[r].entity].look = @ + 1],
             UNCHANGED <<certificates, flagged>>
      PROVE  Flagging(e)'
  <2>1. issuing'[e]["flag"] = issuing[e]["flag"]
    BY <1>2, <1>4 DEF Stages
  <2>2. QED
    BY <1>1, <1>4, <2>1 DEF Flagging
<1>5. ASSUME NEW d \in Entities, NEW from \in Stages, NEW to, Moves(d, from, to)
      PROVE  /\ d # e => issuing'[e] = issuing[e]
             /\ to # "flag" => issuing'[e]["flag"] <= issuing[e]["flag"]
             /\ issuing[d][from] > 0
             /\ issuing'[e]["flag"] \in Nat
  <2>1. issuing' \in [Entities -> [Stages -> Nat]] /\ issuing[d][from] > 0
    BY <1>1, <1>5, MovesTyped DEF Moves
  <2>2. d # e => issuing'[e] = issuing[e]
    BY <1>2, <1>5 DEF Moves
  <2>3. d = e => issuing'[e]["flag"] = issuing[e]["flag"]
                   - (IF "flag" = from THEN 1 ELSE 0) + (IF "flag" = to THEN 1 ELSE 0)
    BY <1>2, <1>5 DEF Moves, Stages
  <2>4. issuing[e]["flag"] \in Nat /\ issuing'[e]["flag"] \in Nat
    BY <1>2, <2>1 DEF Stages
  <2>5. QED
    BY <2>1, <2>2, <2>3, <2>4
<1>6. issuing[e]["flag"] \in Nat
  BY <1>2 DEF Stages
<1>7. ASSUME NEW d \in Entities, LookCertificate(d) PROVE Flagging(e)'
  <2>1. issuing'[e]["flag"] <= issuing[e]["flag"] /\ issuing'[e]["flag"] \in Nat
    BY <1>5, <1>7 DEF LookCertificate, Stages
  <2>2. QED
    BY <1>1, <1>6, <1>7, <2>1 DEF LookCertificate, Flagging
<1>8. ASSUME NEW d \in Entities, CreateCertificate(d) PROVE Flagging(e)'
  <2>1. d # e => issuing'[e] = issuing[e]
    BY <1>5, <1>8 DEF CreateCertificate, Stages
  <2>2. CASE d = e
    BY <1>2, <1>8, <2>2 DEF CreateCertificate, Flagging
  <2>3. CASE d # e
    BY <1>1, <1>2, <1>8, <2>1, <2>3 DEF CreateCertificate, Flagging
  <2>4. QED
    BY <2>2, <2>3
<1>9. ASSUME NEW d \in Entities, FlagCompletion(d) PROVE Flagging(e)'
  <2>1. /\ issuing'[e]["flag"] <= issuing[e]["flag"] /\ issuing'[e]["flag"] \in Nat
        /\ issuing[d]["flag"] > 0
    BY <1>5, <1>9 DEF FlagCompletion, Stages
  <2>2. d = e => certificates[e] > 0
    BY <1>1, <2>1 DEF Flagging
  <2>3. QED
    BY <1>1, <1>6, <1>9, <2>1, <2>2 DEF FlagCompletion, Flagging
<1>10. ASSUME NEW d \in Entities, NEW s \in Stages, FailHandler(d, s)
       PROVE  Flagging(e)'
  <2>1. issuing'[e]["flag"] <= issuing[e]["flag"] /\ issuing'[e]["flag"] \in Nat
    BY <1>5, <1>10 DEF FailHandler
  <2>2. QED
    BY <1>1, <1>6, <1>10, <2>1 DEF FailHandler, Flagging
<1>11. QED
  BY <1>1, <1>3, <1>4, <1>7, <1>8, <1>9, <1>10, CertificateSteps DEF HandlerStep

LEMMA CertifiedNext ==
  ASSUME Certified, [Next]_vars
  PROVE  Certified'
<1>1. Reported /\ Reported'
  BY ReportedNext DEF Certified
<1>2. \A e \in Entities : Flagging(e)'
  BY FlaggingNext
<1>3. ASSUME invalidations' = 0
      PROVE  /\ \A r \in Requests : Held(r)'
             /\ \A e \in Entities : Backed(e)'
  <2>1. \A r \in Requests : Held(r)
    BY <1>1, <1>3, MetStaysMet DEF Certified
  <2>2. QED
    BY <1>1, <1>3, <2>1, HeldNext, BackedNext
<1>4. QED
  BY <1>1, <1>2, <1>3 DEF Certified

(***************************************************************************)
(* For every tree of lessons, courses, paths and cohorts: a flagged status *)
(* has its certificate, and without invalidations a certificate stands for *)
(* lessons watched, quizzes and gates passed, all the way down, however    *)
(* stale the reads it was computed from.                                   *)
(***************************************************************************)
THEOREM CertificatesAreEarned == Spec => []CertifiedIsEarned
<1>1. Certified /\ [Next]_vars => Certified'
  BY CertifiedNext
<1>2. Certified => CertifiedIsEarned
  BY DEF Certified, Flagging, Backed, CertifiedIsEarned
<1>3. QED
  BY <1>1, <1>2, CertifiedInit, PTL DEF Spec
=============================================================================

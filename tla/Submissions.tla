----------------------------- MODULE Submissions -----------------------------
(***************************************************************************)
(* A peer-reviewed project (submissions.service.ts): learners hand work    *)
(* in, are given the work of others when they look at their reviews, and   *)
(* review it; the review that completes the set grades the work, and the   *)
(* project's creator may grade it at any time (projects.service.ts).       *)
(* Requests interleave between their awaits, those of one learner too, who *)
(* may have two tabs open.                                                 *)
(***************************************************************************)
EXTENDS Naturals, FiniteSets, Sequences, FiniteSetsExt

CONSTANTS
  Learners,
  Authors,    \* learners who hand work in
  Creator,    \* grades for the project
  Required,   \* peerReviewCount
  Nobody,
  Slots,                         \* requests under way (a bound)
  MaxAssigned, MaxRows, MaxGrades, MaxFails   \* bounds

VARIABLES
  rows,     \* ProjectSubmission rows, in the order of their creation
  reviews,  \* ProjectPeerReview rows: who reviews what, and whether done
  request,  \* request[s]: a request under way, and whose it is
  doubled,  \* history: learners who looked at their reviews twice at once
  grades,   \* the creator's grades so far
  fails

vars == <<rows, reviews, request, doubled, grades, fails>>

Users == Learners \cup {Creator}
Ids == 1..Len(rows)
Idle == [pc |-> "idle", by |-> Nobody, review |-> 0, row |-> 0, todo |-> {},
         ungraded |-> FALSE, count |-> 0]

\* graded says who graded last; told counts the ProjectGraded events.
TypeOK ==
  /\ rows \in Seq([author : Authors, graded : {Nobody, Creator} \cup {"peers"},
                   passed : BOOLEAN, assigned : Nat, completed : Nat, told : Nat])
  /\ Len(rows) <= MaxRows
  /\ reviews \in Seq([reviewer : Learners, row : Ids, done : BOOLEAN])
  /\ request \in [Slots ->
       [pc : {"idle", "create", "assign", "increment", "mark", "count",
              "record", "grade", "write"},
        by : Users \cup {Nobody}, review : {0} \cup DOMAIN reviews,
        row : {0} \cup Ids, todo : SUBSET Ids, ungraded : BOOLEAN, count : Nat]]
  /\ doubled \subseteq Learners
  /\ grades \in 0..MaxGrades /\ fails \in 0..MaxFails

Init ==
  /\ rows = <<>>
  /\ reviews = <<>>
  /\ request = [s \in Slots |-> Idle]
  /\ doubled = {}
  /\ grades = 0 /\ fails = 0

At(s, pc) == request[s].pc = pc
Goto(s, pc) == request' = [request EXCEPT ![s].pc = pc]
Done(s) == request' = [request EXCEPT ![s] = Idle]

Mine(u) == {k \in DOMAIN reviews : reviews[k].reviewer = u}
Completed(i) == {k \in DOMAIN reviews : reviews[k].row = i /\ reviews[k].done}
Graded(i) == rows[i].graded # Nobody

----------------------------------------------------------------------------
(* Handing work in                                                         *)

\* submit: the latest row is rewritten while it is a draft; a fresh attempt
\* follows a graded failure, when the retry policy allows it.
Submit(s, l) ==
  LET own == {i \in Ids : rows[i].author = l}
  IN  /\ At(s, "idle") /\ l \in Authors /\ Len(rows) < MaxRows
      /\ own # {} => Graded(Max(own)) /\ ~rows[Max(own)].passed
      /\ request' = [request EXCEPT ![s] = [Idle EXCEPT !.pc = "create", !.by = l]]
      /\ UNCHANGED <<rows, reviews, doubled, grades, fails>>

CreateRow(s) ==
  /\ At(s, "create") /\ Len(rows) < MaxRows
  /\ rows' = Append(rows, [author |-> request[s].by, graded |-> Nobody,
                           passed |-> FALSE, assigned |-> 0, completed |-> 0,
                           told |-> 0])
  /\ Done(s)
  /\ UNCHANGED <<reviews, doubled, grades, fails>>

----------------------------------------------------------------------------
(* Reviews                                                                 *)

\* Work of others that the learner does not review yet.
Candidates(l) ==
  {i \in Ids : rows[i].author # l /\ \A k \in Mine(l) : reviews[k].row # i}

\* Another request of the learner's is giving work to review.
ListedTwice(l) ==
  \E s \in Slots : request[s].by = l /\ request[s].pc \in {"assign", "increment"}

\* listMyReviews tops the learner's reviews up with the least assigned work.
\* Nothing keeps two of them from giving the same work: neither a lock nor a
\* unique index.
ListReviews(s, l) ==
  LET missing == Required - Cardinality(Mine(l)) IN
  /\ At(s, "idle")
  /\ missing > 0
  /\ \E todo \in SUBSET Candidates(l) :
       /\ Cardinality(todo) = IF Cardinality(Candidates(l)) < missing
                              THEN Cardinality(Candidates(l)) ELSE missing
       /\ \A i \in todo, j \in Candidates(l) \ todo :
            rows[i].assigned <= rows[j].assigned
       /\ todo # {}
       /\ request' = [request EXCEPT ![s] =
                        [Idle EXCEPT !.pc = "assign", !.by = l, !.todo = todo]]
  /\ doubled' = IF ListedTwice(l) THEN doubled \cup {l} ELSE doubled
  /\ UNCHANGED <<rows, reviews, grades, fails>>

Assign(s) ==
  /\ At(s, "assign") /\ Len(reviews) < MaxAssigned
  /\ \E i \in request[s].todo :
       /\ reviews' = Append(reviews,
                        [reviewer |-> request[s].by, row |-> i, done |-> FALSE])
       /\ request' = [request EXCEPT ![s].pc = "increment", ![s].row = i]
  /\ UNCHANGED <<rows, doubled, grades, fails>>

Increment(s) ==
  LET i == request[s].row
      left == request[s].todo \ {i}
  IN  /\ At(s, "increment")
      /\ rows' = [rows EXCEPT ![i].assigned = @ + 1]
      /\ request' = [request EXCEPT ![s] =
           IF left = {} THEN Idle
           ELSE [@ EXCEPT !.pc = "assign", !.row = 0, !.todo = left]]
      /\ UNCHANGED <<reviews, doubled, grades, fails>>

\* submitReview reads the review, made before or not, with its submission.
ReadReview(s, l) ==
  /\ At(s, "idle")
  /\ \E k \in Mine(l) :
       request' = [request EXCEPT ![s] =
         [Idle EXCEPT !.pc = "mark", !.by = l, !.review = k, !.row = reviews[k].row,
                      !.ungraded = ~Graded(reviews[k].row)]]
  /\ UNCHANGED <<rows, reviews, doubled, grades, fails>>

MarkDone(s) ==
  /\ At(s, "mark")
  /\ reviews' = [reviews EXCEPT ![request[s].review].done = TRUE]
  /\ Goto(s, "count")
  /\ UNCHANGED <<rows, doubled, grades, fails>>

CountCompleted(s) ==
  /\ At(s, "count")
  /\ request' = [request EXCEPT
       ![s].pc = "record", ![s].count = Cardinality(Completed(request[s].row))]
  /\ UNCHANGED <<rows, reviews, doubled, grades, fails>>

\* Mutant: the review that is one more than required grades.
EnoughButOne(s) == request[s].count > Required

Enough(s) == request[s].count >= Required

RecordCount(s) ==
  /\ At(s, "record")
  /\ rows' = [rows EXCEPT ![request[s].row].completed = request[s].count]
  /\ IF Enough(s) /\ request[s].ungraded THEN Goto(s, "grade") ELSE Done(s)
  /\ UNCHANGED <<reviews, doubled, grades, fails>>

\* The grade is written by id and announced in the same turn.
GradeByPeers(s) ==
  /\ At(s, "grade")
  /\ \E passed \in BOOLEAN :
       rows' = [rows EXCEPT ![request[s].row].graded = "peers",
                            ![request[s].row].passed = passed,
                            ![request[s].row].told = @ + 1]
  /\ Done(s)
  /\ UNCHANGED <<reviews, doubled, grades, fails>>

----------------------------------------------------------------------------
(* The creator                                                             *)

\* gradeSubmission grades, or grades again; only a first grade is announced.
ReadToGrade(s, i) ==
  /\ At(s, "idle") /\ grades < MaxGrades
  /\ grades' = grades + 1
  /\ request' = [request EXCEPT ![s] =
                   [Idle EXCEPT !.pc = "write", !.by = Creator, !.row = i,
                                !.ungraded = ~Graded(i)]]
  /\ UNCHANGED <<rows, reviews, doubled, fails>>

GradeByCreator(s) ==
  /\ At(s, "write")
  /\ \E passed \in BOOLEAN :
       rows' = [rows EXCEPT
         ![request[s].row].graded = Creator,
         ![request[s].row].passed = passed,
         ![request[s].row].told = IF request[s].ungraded THEN @ + 1 ELSE @]
  /\ Done(s)
  /\ UNCHANGED <<reviews, doubled, grades, fails>>

Fail(s) ==
  /\ ~At(s, "idle") /\ fails < MaxFails
  /\ fails' = fails + 1
  /\ Done(s)
  /\ UNCHANGED <<rows, reviews, doubled, grades>>

Next ==
  \E s \in Slots :
    \/ \E l \in Learners : Submit(s, l) \/ ListReviews(s, l) \/ ReadReview(s, l)
    \/ CreateRow(s) \/ Assign(s) \/ Increment(s)
    \/ MarkDone(s) \/ CountCompleted(s) \/ RecordCount(s) \/ GradeByPeers(s)
    \/ \E i \in Ids : ReadToGrade(s, i)
    \/ GradeByCreator(s) \/ Fail(s)

Spec == Init /\ [][Next]_vars

----------------------------------------------------------------------------
(* Properties.                                                             *)

Reviewers(i) == {reviews[k].reviewer : k \in Completed(i)}

\* Peers grade work when enough of them have reviewed it and not before, however
\* the reviews interleave: without failures the learner is not left waiting and
\* is told ("Aggregate once enough peers have reviewed"), and a grade by peers
\* rests on as many reviews as the project asks for, none of them the author's,
\* by as many different learners unless one of them looked at the reviews twice
\* at once: who does may be given the same work twice, and counts twice.
PeersGradeOnEnough ==
  /\ (\A s \in Slots : At(s, "idle")) /\ fails = 0 =>
       \A i \in Ids : Cardinality(Completed(i)) >= Required =>
                       Graded(i) /\ rows[i].told > 0
  /\ \A i \in Ids : rows[i].graded = "peers" =>
       /\ Cardinality(Completed(i)) >= Required
       /\ rows[i].author \notin Reviewers(i)
       /\ Reviewers(i) \cap doubled = {} => Cardinality(Reviewers(i)) >= Required
=============================================================================

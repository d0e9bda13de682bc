------------------------------ MODULE Reminders ------------------------------
(***************************************************************************)
(* One learner's scheduled notices: the digest of due reviews              *)
(* (reminders.service.ts), a cohort's kickoff and near deadlines           *)
(* (lifecycle-reminders.service.ts) and the weekly coaching                *)
(* (coach.service.ts).  Every sweep first claims its notice with a row     *)
(* under a unique key and then delivers it.  Sweeps may run at once: the   *)
(* cron lock fails open and the HTTP trigger (sweeps.controller.ts) takes  *)
(* none.  Days are the learner's; 0 is the day before the first.           *)
(***************************************************************************)
EXTENDS Naturals, FiniteSets, Sequences, FiniteSetsExt

CONSTANTS
  Kinds,              \* of notices: "digest", "deadline", "kickoff", "coach"
  Reviews,            \* lessons that may be completed
  REVIEW_INTERVALS,   \* days after completion, increasing
  DIGEST_MAX_REVIEWS,
  KICKOFF_CATCHUP_DAYS,
  Starts,             \* the day the learner's cohort starts
  Week,               \* days in a week
  Sweeps,             \* sweeps under way at once (a bound)
  MaxDay, MaxFails    \* bounds

VARIABLES
  item,      \* item[r]: the ReviewItem row, or NoItem
  claimed,   \* ReminderLog and CoachDigest rows: <<kind, date>>
  sweep,     \* sweep[s]: what it is doing
  today,
  delivered, \* history: delivered[key], notices sent (counted to 2)
  composed,  \* history: composed[key], coachings the AI was paid for (to 2)
  named,     \* history: named[r], digests that named r
  fails

rowVars == <<item, claimed>>
historyVars == <<delivered, composed, named>>
vars == <<rowVars, sweep, today, historyVars, fails>>

Keys == Kinds \X (0..MaxDay)
Rungs == Len(REVIEW_INTERVALS)

NoItem == [completed |-> 0, index |-> 0, done |-> TRUE]
Idle == [pc |-> "idle", key |-> <<"digest", 0>>, due |-> {},
         index |-> [r \in Reviews |-> 0]]

TypeOK ==
  /\ item \in [Reviews -> [completed : 0..MaxDay, index : 0..Rungs, done : BOOLEAN]]
  /\ claimed \subseteq Keys
  /\ sweep \in [Sweeps -> [pc : {"idle", "claim", "compose", "release", "deliver", "advance"},
                           key : Keys, due : SUBSET Reviews,
                           index : [Reviews -> 0..Rungs]]]
  /\ today \in 1..MaxDay
  /\ delivered \in [Keys -> 0..2] /\ composed \in [Keys -> 0..2]
  /\ named \in [Reviews -> Nat]
  /\ fails \in 0..MaxFails

Init ==
  /\ item = [r \in Reviews |-> NoItem]
  /\ claimed = {}
  /\ sweep = [s \in Sweeps |-> Idle]
  /\ today = 1
  /\ delivered = [k \in Keys |-> 0] /\ composed = [k \in Keys |-> 0]
  /\ named = [r \in Reviews |-> 0]
  /\ fails = 0

At(s, pc) == sweep[s].pc = pc
Goto(s, pc) == sweep' = [sweep EXCEPT ![s].pc = pc]
Done(s) == sweep' = [sweep EXCEPT ![s] = Idle]
Counted(history, k) ==
  [history EXCEPT ![k] = IF @ < 2 THEN @ + 1 ELSE @]

----------------------------------------------------------------------------
(* The review ladder                                                       *)

DueOn(r) == item[r].completed + REVIEW_INTERVALS[item[r].index + 1]

\* isDue
Due == {r \in Reviews : ~item[r].done /\ DueOn(r) <= today}

\* pickDigestReviews: the oldest due first, as many as fit.
Picks(due) ==
  {picked \in SUBSET due :
    /\ Cardinality(picked) = Min({Cardinality(due), DIGEST_MAX_REVIEWS})
    /\ \A r \in picked, o \in due \ picked : DueOn(r) <= DueOn(o)}

\* Mutant: a lesson completed again starts its ladder again.
Restarted(r) == [completed |-> today, index |-> 0, done |-> FALSE]

\* "a re-completion never resets an in-flight review ladder"
Seeded(r) ==
  IF item[r] = NoItem THEN [completed |-> today, index |-> 0, done |-> FALSE]
  ELSE item[r]

\* LessonCompleted reaches the handler, for the first time or again.
CompleteLesson(r) ==
  /\ item' = [item EXCEPT ![r] = Seeded(r)]
  /\ UNCHANGED <<claimed, sweep, today, historyVars, fails>>

----------------------------------------------------------------------------
(* The sweeps                                                              *)

\* Monday of the week, the cohort's own start day, or today.
DateOf(kind) ==
  CASE kind = "coach" -> today - (today % Week)
    [] kind = "kickoff" -> Starts
    [] OTHER -> today

\* What the sweep reads says that the learner has a notice coming: a review or
\* a streak at risk, a deadline, a week with activity; or a cohort that
\* started in the last days.
Coming(kind) ==
  kind = "kickoff" => Starts <= today /\ today < Starts + KICKOFF_CATCHUP_DAYS

Start(s, kind) ==
  /\ At(s, "idle") /\ Coming(kind)
  /\ \E due \in IF kind = "digest" THEN Picks(Due) ELSE {{}} :
       sweep' = [sweep EXCEPT ![s] =
         [pc |-> "claim", key |-> <<kind, DateOf(kind)>>, due |-> due,
          index |-> [r \in Reviews |-> item[r].index]]]
  /\ UNCHANGED <<rowVars, today, historyVars, fails>>

\* Mutant: nothing keeps a second row for the same notice out.
NotTaken(s) == FALSE

\* "the unique key IS the lock"
Taken(s) == sweep[s].key \in claimed

Claim(s) ==
  /\ At(s, "claim")
  /\ IF Taken(s) THEN Done(s) /\ UNCHANGED claimed
     ELSE /\ claimed' = claimed \cup {sweep[s].key}
          /\ Goto(s, IF sweep[s].key[1] = "coach" THEN "compose" ELSE "deliver")
  /\ UNCHANGED <<item, today, historyVars, fails>>

Compose(s) ==
  /\ At(s, "compose")
  /\ composed' = Counted(composed, sweep[s].key)
  /\ Goto(s, "deliver")
  /\ UNCHANGED <<rowVars, today, delivered, named, fails>>

\* The AI fails: the claim is released for a later sweep of the week.
ComposeFails(s) ==
  /\ At(s, "compose") /\ fails < MaxFails
  /\ fails' = fails + 1
  /\ Goto(s, "release")
  /\ UNCHANGED <<rowVars, today, historyVars>>

Release(s) ==
  /\ At(s, "release")
  /\ claimed' = claimed \ {sweep[s].key}
  /\ Done(s)
  /\ UNCHANGED <<item, today, historyVars, fails>>

\* notify logs the failure of a channel, and the sweep goes on.
Deliver(s) ==
  /\ At(s, "deliver")
  /\ delivered' = Counted(delivered, sweep[s].key)
  /\ named' = [r \in Reviews |-> IF r \in sweep[s].due THEN named[r] + 1 ELSE named[r]]
  /\ IF sweep[s].due = {} THEN Done(s) ELSE Goto(s, "advance")
  /\ UNCHANGED <<rowVars, today, composed, fails>>

\* advanceReview, of the row as the sweep read it.
Advance(s) ==
  /\ At(s, "advance")
  /\ \E r \in sweep[s].due :
       LET next == sweep[s].index[r] + 1
           left == sweep[s].due \ {r}
       IN  /\ item' = [item EXCEPT ![r].index = next, ![r].done = (next >= Rungs)]
           /\ sweep' = [sweep EXCEPT
                ![s] = IF left = {} THEN Idle ELSE [@ EXCEPT !.due = left]]
  /\ UNCHANGED <<claimed, today, historyVars, fails>>

\* A sweep is through with the learner before the next day's hour (a bound:
\* it would have to take most of a day).
Tick ==
  /\ today < MaxDay
  /\ \A s \in Sweeps : At(s, "idle")
  /\ today' = today + 1
  /\ UNCHANGED <<rowVars, sweep, historyVars, fails>>

Fail(s) ==
  /\ ~At(s, "idle") /\ fails < MaxFails
  /\ fails' = fails + 1
  /\ Done(s)
  /\ UNCHANGED <<rowVars, today, historyVars>>

Next ==
  \/ \E s \in Sweeps :
       \/ \E kind \in Kinds : Start(s, kind)
       \/ Claim(s) \/ Compose(s) \/ ComposeFails(s) \/ Release(s)
       \/ Deliver(s) \/ Advance(s) \/ Fail(s)
  \/ \E r \in Reviews : CompleteLesson(r)
  \/ Tick

Spec == Init /\ [][Next]_vars

----------------------------------------------------------------------------
(* Properties.                                                             *)

\* However the sweeps repeat, overlap and fail, a notice is sent at most once
\* and its coaching is paid for once; and without failures a notice that was
\* claimed is sent ("Every sweep here is idempotent").
NoticesOnce ==
  \A k \in Keys :
    /\ delivered[k] <= 1 /\ composed[k] <= 1
    /\ k \in claimed /\ fails = 0 =>
         delivered[k] = 1 \/ \E s \in Sweeps : ~At(s, "claim") /\ sweep[s].key = k

\* A review's rung changes to the next one, and some digest named the review
\* on the rung it leaves.
Climbs ==
  \A r \in Reviews : item'[r].index # item[r].index =>
    item'[r].index = item[r].index + 1 /\ named[r] > item[r].index

\* A review climbs its ladder rung by rung, each only after a digest named it,
\* and nothing takes it back: neither another sweep of the day, nor one that
\* failed halfway, nor a second completion ("Advance only the reviews we
\* actually named").
LadderClimbs == [][Climbs]_vars
=============================================================================

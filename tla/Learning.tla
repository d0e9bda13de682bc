------------------------------ MODULE Learning ------------------------------
(***************************************************************************)
(* The components of a course's work side by side: attempts, the integrity *)
(* of a sitting, peer-reviewed submissions, streaks and badges, notices.   *)
(* They share no state: part, chosen at the start, says which of them a    *)
(* behaviour is about, and the others' variables are unused.               *)
(***************************************************************************)
EXTENDS Attempts, TLC

CONSTANTS
  \* Integrity's
  Events, Switches, Exits, Unmonitored, FastAnswer, Snapshots, SwitchLimit,
  MaxBatch, Calls,
  \* Submissions'
  Learners, Authors, Creator, Required, Nobody, Slots,
  MaxAssigned, MaxRows, MaxGrades,
  \* Engagement's
  Lessons, Handlers, FREEZE_MILESTONE, MAX_FREEZES, LessonBadges, StreakBadges,
  MaxMoves,
  \* Reminders'
  Kinds, Reviews, REVIEW_INTERVALS, DIGEST_MAX_REVIEWS, KICKOFF_CATCHUP_DAYS,
  Starts, Week, Sweeps,
  MaxDay      \* bound on the days of both

\* A creator does not hand work in, and a peer-reviewed project asks for a review.
ASSUME SubmissionsAssumption ==
  /\ Authors \subseteq Learners /\ Creator \notin Learners
  /\ Nobody \notin Learners \cup {Creator} /\ "peers" \notin {Nobody, Creator}
  /\ Required \in Nat \ {0}
  /\ IsFiniteSet(Learners)

\* What may be observed in a sitting is finite: the model counts each event once.
ASSUME IntegrityAssumption ==
  /\ IsFiniteSet(Events) /\ IsFiniteSet(Snapshots)
  /\ Switches \subseteq Events /\ Exits \subseteq Events
  /\ FastAnswer \notin Events \cup Snapshots \cup {Unmonitored}

ASSUME EngagementAssumption ==
  /\ FREEZE_MILESTONE \in Nat \ {0} /\ MAX_FREEZES \in Nat
  /\ LessonBadges \subseteq Nat \ {0} /\ StreakBadges \subseteq Nat \ {0}
  /\ IsFiniteSet(Handlers)

ASSUME RemindersAssumption ==
  /\ "digest" \in Kinds
  /\ REVIEW_INTERVALS \in Seq(Nat) /\ REVIEW_INTERVALS # <<>>
  /\ Starts \in Nat /\ Week \in Nat \ {0}

ASSUME BoundsAssumption ==
  /\ {MaxAssigned, MaxRows, MaxGrades, MaxMoves} \subseteq Nat
  /\ MaxDay \in Nat \ {0}

VARIABLES part,
  seen, buffer, counted, quiet, camera, open, call, finalizer, logs, row, gone,
  rows, doubled, grades,
  recorded, streak, badges, handler, today, active, days, gaveUp, moves,
  item, claimed, sweep, delivered, composed, named

I == INSTANCE Integrity WITH Limit <- SwitchLimit
S == INSTANCE Submissions
E == INSTANCE Engagement
R == INSTANCE Reminders

AttemptsIdle ==
  /\ attempts = <<>> /\ grader = "unused" /\ now = "unused"
IntegrityIdle ==
  /\ seen = "unused" /\ buffer = "unused" /\ counted = "unused"
  /\ quiet = "unused" /\ camera = "unused" /\ open = "unused"
  /\ call = "unused" /\ finalizer = "unused"
  /\ logs = "unused" /\ row = "unused" /\ gone = "unused"
SubmissionsIdle ==
  /\ rows = "unused" /\ doubled = "unused" /\ grades = "unused"
EngagementIdle ==
  /\ recorded = "unused" /\ streak = "unused" /\ badges = "unused"
  /\ handler = "unused" /\ active = "unused"
  /\ days = "unused" /\ gaveUp = "unused" /\ moves = "unused"
RemindersIdle ==
  /\ item = "unused" /\ claimed = "unused" /\ sweep = "unused"
  /\ delivered = "unused" /\ composed = "unused" /\ named = "unused"
NoDays == today = "unused"
NoRequests == request = "unused" /\ reviews = "unused"

LearningInit ==
  \/ /\ part = "attempts" /\ Init /\ NoDays
     /\ IntegrityIdle /\ SubmissionsIdle /\ EngagementIdle /\ RemindersIdle
  \/ /\ part = "integrity" /\ I!Init /\ NoRequests /\ NoDays
     /\ AttemptsIdle /\ SubmissionsIdle /\ EngagementIdle /\ RemindersIdle
  \/ /\ part = "submissions" /\ S!Init /\ NoDays
     /\ AttemptsIdle /\ IntegrityIdle /\ EngagementIdle /\ RemindersIdle
  \/ /\ part = "engagement" /\ E!Init /\ NoRequests
     /\ AttemptsIdle /\ IntegrityIdle /\ SubmissionsIdle /\ RemindersIdle
  \/ /\ part = "reminders" /\ R!Init /\ NoRequests
     /\ AttemptsIdle /\ IntegrityIdle /\ SubmissionsIdle /\ EngagementIdle

AttemptsVars == <<attempts, grader, now>>
RequestVars == <<request, reviews>>
IntegrityVars ==
  <<seen, buffer, counted, quiet, camera, open, call, finalizer, logs, row, gone>>
SubmissionsVars == <<rows, doubled, grades>>
EngagementVars ==
  <<recorded, streak, badges, handler, active, days, gaveUp, moves>>
RemindersVars == <<item, claimed, sweep, delivered, composed, named>>

LearningNext ==
  /\ UNCHANGED part
  /\ \/ /\ part = "attempts" /\ Next
        /\ UNCHANGED <<today, IntegrityVars, SubmissionsVars, EngagementVars,
                       RemindersVars>>
     \/ /\ part = "integrity" /\ I!Next
        /\ UNCHANGED <<today, AttemptsVars, RequestVars, SubmissionsVars,
                       EngagementVars, RemindersVars>>
     \/ /\ part = "submissions" /\ S!Next
        /\ UNCHANGED <<today, AttemptsVars, IntegrityVars, EngagementVars,
                       RemindersVars>>
     \/ /\ part = "engagement" /\ E!Next
        /\ UNCHANGED <<AttemptsVars, RequestVars, IntegrityVars, SubmissionsVars,
                       RemindersVars>>
     \/ /\ part = "reminders" /\ R!Next
        /\ UNCHANGED <<AttemptsVars, RequestVars, IntegrityVars, SubmissionsVars,
                       EngagementVars>>

learningVars == <<part, fails, today, AttemptsVars, RequestVars, IntegrityVars,
                  SubmissionsVars, EngagementVars, RemindersVars>>

LearningSpec == LearningInit /\ [][LearningNext]_learningVars

----------------------------------------------------------------------------
(* The components' properties.                                             *)

\* Each component's variables have their types.
TypesOK ==
  /\ part = "attempts" => TypeOK
  /\ part = "integrity" => I!TypeOK
  /\ part = "submissions" => S!TypeOK
  /\ part = "engagement" => E!TypeOK
  /\ part = "reminders" => R!TypeOK

\* See Integrity: an attempt that was not watched says so.
UnmonitoredIsKnown == part = "integrity" => I!UnmonitoredIsKnown

\* See Integrity: an observed event is forgotten only with a page that went.
EventsKept == part = "integrity" => I!EventsKept

\* See Submissions: peers grade work when enough of them have reviewed it.
PeersGradeOnEnough == part = "submissions" => S!PeersGradeOnEnough

\* See Engagement: a streak counts the days of activity, each once.
StreakCountsDays == part = "engagement" => E!StreakCountsDays

\* See Engagement: what is earned is held.
EarnedBadgesHeld == part = "engagement" => E!EarnedBadgesHeld

\* See Reminders: a notice is sent once, and what is claimed is sent.
NoticesOnce == part = "reminders" => R!NoticesOnce

\* See Reminders: a review climbs its ladder, rung by rung.
LadderClimbs == [][part = "reminders" => R!Climbs]_learningVars
=============================================================================

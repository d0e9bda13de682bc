----------------------------- MODULE Engagement -----------------------------
(***************************************************************************)
(* One learner's streak and badges (engagement.events-handler.ts with its  *)
(* two calculators).  Each learning event starts a handler in some process *)
(* of the API: it records the event, advances the streak in a serializable *)
(* transaction that is retried once, and awards what the record now earns. *)
(* Days are numbered from 1; 0 is a date that is not set.                  *)
(***************************************************************************)
EXTENDS Naturals, FiniteSets, FiniteSetsExt

CONSTANTS
  Lessons,
  Handlers,      \* handlers under way at once (a bound)
  FREEZE_MILESTONE, MAX_FREEZES,
  LessonBadges,  \* numbers of lessons that earn a badge
  StreakBadges,  \* lengths of a streak that earn one
  MaxDay, MaxMoves, MaxFails   \* bounds

VARIABLES
  recorded, \* lessons with a completed ProgressEvent
  streak,   \* the UserStreak row
  badges,   \* UserBadge rows
  handler,  \* handler[h]: what it is doing
  today,    \* the learner's local day
  active,   \* history: local days on which a handler looked at the clock
  days,     \* history: days that moved the streak
  gaveUp,   \* history: a transaction failed twice
  moves, fails

vars == <<recorded, streak, badges, handler, today, active, days, gaveUp,
          moves, fails>>

Keys == ({"lessons"} \X LessonBadges) \cup ({"streak"} \X StreakBadges)
        \cup {<<"comeback", 0>>}
\* Events that are not a lesson's: a submitted attempt is the learner's doing
\* and counts for the streak; the completion of a course or a grade is not.
Triggers == Lessons \cup {"attempt", "entity"}

Streak == [current : Nat, longest : Nat, freezes : 0..MAX_FREEZES, last : 0..MaxDay]
NoStreak == [current |-> 0, longest |-> 0, freezes |-> 0, last |-> 0]
Idle == [pc |-> "idle", trigger |-> "entity", day |-> 0, row |-> NoStreak,
         retried |-> FALSE, current |-> 0, bridged |-> FALSE, keys |-> {}]

TypeOK ==
  /\ recorded \subseteq Lessons
  /\ streak \in Streak
  /\ badges \subseteq Keys
  /\ handler \in [Handlers ->
       [pc : {"idle", "record", "day", "begin", "commit", "earn", "held", "award"},
        trigger : Triggers, day : 0..MaxDay, row : Streak, retried : BOOLEAN,
        current : Nat, bridged : BOOLEAN, keys : SUBSET Keys]]
  /\ today \in 1..MaxDay
  /\ active \subseteq 1..MaxDay /\ days \subseteq active
  /\ gaveUp \in BOOLEAN /\ moves \in 0..MaxMoves /\ fails \in 0..MaxFails

Init ==
  /\ recorded = {} /\ streak = NoStreak /\ badges = {}
  /\ handler = [h \in Handlers |-> Idle]
  /\ today = 1 /\ active = {} /\ days = {}
  /\ gaveUp = FALSE /\ moves = 0 /\ fails = 0

----------------------------------------------------------------------------
(* The streak calculator                                                   *)

\* The same day again, or an earlier one: "a streak never regresses".
Unmoved(s, day) == s.last # 0 /\ day <= s.last

Missed(s, day) == day - s.last - 1

\* Missed days are bridged by banked freezes, all of them or none.
Survives(s, day) == s.last # 0 /\ s.freezes >= Missed(s, day)

\* Mutant: freezes are banked without a cap.
BankedUncapped(left) == left + 1

Banked(left) == Min({MAX_FREEZES, left + 1})

\* applyActivity, on a day that moves the streak.
Moved(s, day) ==
  LET current == IF Survives(s, day) THEN s.current + 1 ELSE 1
      left == IF Survives(s, day) THEN s.freezes - Missed(s, day) ELSE s.freezes
      banked == IF current % FREEZE_MILESTONE = 0 THEN Banked(left) ELSE left
  IN  [current |-> current, longest |-> Max({s.longest, current}),
       freezes |-> banked, last |-> day]

----------------------------------------------------------------------------
(* The handlers                                                            *)

At(h, pc) == handler[h].pc = pc
Goto(h, pc) == handler' = [handler EXCEPT ![h].pc = pc]
Done(h) == handler' = [handler EXCEPT ![h] = Idle]

Emit(h, t) ==
  /\ At(h, "idle")
  /\ handler' = [handler EXCEPT ![h] = [Idle EXCEPT !.pc = "record", !.trigger = t]]
  /\ UNCHANGED <<recorded, streak, badges, today, active, days, gaveUp, moves, fails>>

Record(h) ==
  /\ At(h, "record")
  /\ recorded' = recorded \cup ({handler[h].trigger} \cap Lessons)
  /\ Goto(h, IF handler[h].trigger = "entity" THEN "earn" ELSE "day")
  /\ UNCHANGED <<streak, badges, today, active, days, gaveUp, moves, fails>>

\* recordDailyActivity reads the learner's timezone and the clock.
ReadDay(h) ==
  /\ At(h, "day")
  /\ handler' = [handler EXCEPT ![h].pc = "begin", ![h].day = today]
  /\ active' = active \cup {today}
  /\ UNCHANGED <<recorded, streak, badges, today, days, gaveUp, moves, fails>>

Begin(h) ==
  /\ At(h, "begin")
  /\ handler' = [handler EXCEPT ![h].pc = "commit", ![h].row = streak]
  /\ UNCHANGED <<recorded, streak, badges, today, active, days, gaveUp, moves, fails>>

\* The update goes on to awardBadges.
Judging(h, row, bridged) ==
  [Idle EXCEPT !.pc = "earn", !.trigger = handler[h].trigger,
               !.current = row.current, !.bridged = bridged]

\* Nothing to write.
Same(h) ==
  /\ At(h, "commit") /\ Unmoved(handler[h].row, handler[h].day)
  /\ handler' = [handler EXCEPT ![h] = Judging(h, handler[h].row, FALSE)]
  /\ UNCHANGED <<recorded, streak, badges, today, active, days, gaveUp, moves, fails>>

Commit(h) ==
  LET row == handler[h].row
      day == handler[h].day
  IN  /\ At(h, "commit") /\ ~Unmoved(row, day)
      /\ streak = row
      /\ streak' = Moved(row, day)
      /\ days' = days \cup {day}
      /\ handler' = [handler EXCEPT
           ![h] = Judging(h, streak', Survives(row, day) /\ Missed(row, day) > 0)]
      /\ UNCHANGED <<recorded, badges, today, active, gaveUp, moves, fails>>

\* Mutant: a serialization failure is not retried.
NoRetry(h) == FALSE

\* "Serializable + one retry"
Retries(h) == ~handler[h].retried

\* The row was written since it was read: the transaction fails.
Conflict(h) ==
  /\ At(h, "commit") /\ ~Unmoved(handler[h].row, handler[h].day)
  /\ streak # handler[h].row
  /\ IF Retries(h)
     THEN /\ handler' = [handler EXCEPT ![h].pc = "begin", ![h].retried = TRUE]
          /\ UNCHANGED gaveUp
     ELSE Done(h) /\ gaveUp' = TRUE
  /\ UNCHANGED <<recorded, streak, badges, today, active, days, moves, fails>>

\* earnedBadges, of the record and, after the learner's own doing, of the
\* update it made; else of the row.
Earned(h) ==
  LET current == IF handler[h].trigger = "entity" THEN streak.current
                 ELSE handler[h].current
  IN  ({"lessons"} \X {n \in LessonBadges : Cardinality(recorded) >= n})
      \cup ({"streak"} \X {n \in StreakBadges : current >= n})
      \cup (IF handler[h].bridged THEN {<<"comeback", 0>>} ELSE {})

Earn(h) ==
  /\ At(h, "earn")
  /\ IF Earned(h) = {} THEN Done(h)
     ELSE handler' = [handler EXCEPT ![h] = [Idle EXCEPT !.pc = "held", !.keys = Earned(h)]]
  /\ UNCHANGED <<recorded, streak, badges, today, active, days, gaveUp, moves, fails>>

ReadHeld(h) ==
  /\ At(h, "held")
  /\ IF handler[h].keys \subseteq badges THEN Done(h)
     ELSE handler' = [handler EXCEPT ![h].pc = "award", ![h].keys = @ \ badges]
  /\ UNCHANGED <<recorded, streak, badges, today, active, days, gaveUp, moves, fails>>

\* Mutant: createMany without skipDuplicates writes all rows or none.
AllOrNone(keys) == IF keys \cap badges = {} THEN badges \cup keys ELSE badges

SkippingDuplicates(keys) == badges \cup keys

Award(h) ==
  /\ At(h, "award")
  /\ badges' = SkippingDuplicates(handler[h].keys)
  /\ Done(h)
  /\ UNCHANGED <<recorded, streak, today, active, days, gaveUp, moves, fails>>

----------------------------------------------------------------------------
(* The calendar, and failures                                              *)

Tick ==
  /\ today < MaxDay
  /\ today' = today + 1
  /\ UNCHANGED <<recorded, streak, badges, handler, active, days, gaveUp, moves, fails>>

\* The learner moves to a timezone where it is still yesterday.
MoveWest ==
  /\ today > 1 /\ moves < MaxMoves
  /\ today' = today - 1 /\ moves' = moves + 1
  /\ UNCHANGED <<recorded, streak, badges, handler, active, days, gaveUp, fails>>

Fail(h) ==
  /\ ~At(h, "idle") /\ fails < MaxFails
  /\ fails' = fails + 1
  /\ Done(h)
  /\ UNCHANGED <<recorded, streak, badges, today, active, days, gaveUp, moves>>

Next ==
  \/ \E h \in Handlers :
       \/ \E t \in Triggers : Emit(h, t)
       \/ Record(h) \/ ReadDay(h) \/ Begin(h) \/ Same(h) \/ Commit(h) \/ Conflict(h)
       \/ Earn(h) \/ ReadHeld(h) \/ Award(h)
       \/ Fail(h)
  \/ Tick \/ MoveWest

Spec == Init /\ [][Next]_vars

----------------------------------------------------------------------------
(* Properties.                                                             *)

\* The last `current` days that moved the streak, the days of the streak.
StreakDays == {d \in days : Cardinality({e \in days : e >= d}) <= streak.current}

\* A streak is made of days of activity, each counted once; the days missed
\* between them were paid for with freezes that were earned; and it starts
\* where a day was missed.
StreakIsUnbroken ==
  days # {} =>
    LET first == Min(StreakDays)
        earlier == {d \in days : d < first}
    IN  /\ streak.last = Max(days) /\ Cardinality(StreakDays) = streak.current
        /\ Cardinality((first..streak.last) \ days) + streak.freezes
             <= Cardinality(days) \div FREEZE_MILESTONE
        /\ earlier # {} => Max(earlier) < first - 1

\* Of two events at a time, in one timezone, neither's day is lost to a race:
\* it moved the streak, unless a later day did so first or its handler is
\* still at it ("two qualifying events landing in the same instant must count
\* one day, not lose it to a write race").  A third, or a move, can make the
\* retry fail too.
NoDayLost ==
  fails = 0 /\ moves = 0 /\ Cardinality(Handlers) <= 2 =>
    \A d \in active :
      \/ d \in days \/ d < streak.last
      \/ \E h \in Handlers :
           handler[h].pc \in {"begin", "commit"} /\ handler[h].day = d

StreakCountsDays == StreakIsUnbroken /\ NoDayLost

\* Once the handlers are done, every badge that the record and the longest
\* streak earn is held, whatever raced, unless a handler failed: "re-evaluation
\* is harmless".
EarnedBadgesHeld ==
  fails = 0 /\ ~gaveUp /\ (\A h \in Handlers : At(h, "idle")) =>
    /\ \A n \in LessonBadges :
         Cardinality(recorded) >= n => <<"lessons", n>> \in badges
    /\ \A n \in StreakBadges : streak.longest >= n => <<"streak", n>> \in badges
=============================================================================

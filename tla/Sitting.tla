------------------------------- MODULE Sitting -------------------------------
(***************************************************************************)
(* One attempt being taken, timed or not: the page (TakingView and its     *)
(* offline resilience, use-attempt-resilience.ts), the connection, and the *)
(* API's handlers (attempts.service.ts).  The page holds the answers in    *)
(* memory, mirrors them to localStorage, saves each to the API, queues the *)
(* saves that fail and hands the whole map in at the end.  A handler reads *)
(* the attempt's row and writes it later, by id, so that requests of one   *)
(* page overwrite each other.                                              *)
(***************************************************************************)
EXTENDS Naturals, FiniteSets

CONSTANTS
  Questions, Choices,
  Blank,      \* not answered, and nothing queued
  Calls,      \* concurrent requests: a set of numbers (a bound)
  MaxEdits,   \* bound on answers chosen
  MaxFails    \* bound on lost requests, outages and crashed tabs

ASSUME SittingAssumption ==
  /\ Blank \notin Choices
  /\ Calls \subseteq Nat /\ IsFiniteSet(Calls)
  /\ MaxEdits \in Nat /\ MaxFails \in Nat

VARIABLES
  page,      \* is the learner taking the attempt, away, or shown the result?
  answers,   \* the page's answers
  mirror,    \* localStorage's copy of them
  pending,   \* pending[q]: the queued save of q
  flushing,  \* the flush's saves still to be sent, or Quiet
  submit,    \* the submit mutation: "none", "paused" (offline) or "sent"
  wants,     \* the learner, or the clock, asked for a submit
  countdown, \* the page's own countdown has ended
  online,
  call,      \* call[c]: the request in slot c
  row,       \* the attempt's row, and whether it has a time limit
  late,      \* the server's clock is past the attempt's end
  chosen,    \* history: what the learner chose last
  handed,    \* history: the maps of answers that submits carried
  edits, fails

pageVars == <<page, answers, mirror, pending, flushing, submit, wants, countdown>>
history == <<chosen, handed>>
vars == <<pageVars, online, call, row, late, history, edits, fails>>

Answers == [Questions -> Choices \cup {Blank}]
Nothing == [q \in Questions |-> Blank]
Only(q, v) == [Nothing EXCEPT ![q] = v]
Over(over, base) ==
  [q \in Questions |-> IF over[q] = Blank THEN base[q] ELSE over[q]]

Quiet == [on |-> FALSE, left |-> Nothing]

\* A request: what it carries, whether the page still waits for it, where its
\* handler is, what the handler is about to write or answer, and whether the
\* attempt's time was up when the handler looked.
Free == [pc |-> "free", kind |-> "save", carries |-> Nothing, awaited |-> FALSE,
         copy |-> Nothing, late |-> FALSE, answer |-> "none"]

TypeOK ==
  /\ page \in {"taking", "away", "done"}
  /\ answers \in Answers /\ mirror \in Answers /\ pending \in Answers
  /\ flushing \in [on : BOOLEAN, left : Answers]
  /\ submit \in {"none", "paused", "sent"}
  /\ {wants, countdown, online, late} \subseteq BOOLEAN
  /\ call \in [Calls ->
       [pc : {"free", "sent", "save", "finalize", "reply"},
        kind : {"save", "flush", "submit", "resume"}, carries : Answers,
        awaited : BOOLEAN, copy : Answers, late : BOOLEAN,
        answer : {"none", "saved", "refused", "state", "result"}]]
  /\ row \in [timed : BOOLEAN, submitted : BOOLEAN, auto : BOOLEAN,
              answers : Answers, graded : Answers]
  /\ chosen \in Answers /\ handed \subseteq Answers
  /\ edits \in 0..MaxEdits /\ fails \in 0..MaxFails

Init ==
  /\ page = "taking"
  /\ answers = Nothing /\ mirror = Nothing /\ pending = Nothing
  /\ flushing = Quiet
  /\ submit = "none" /\ wants = FALSE /\ countdown = FALSE
  /\ online = TRUE
  /\ call = [c \in Calls |-> Free]
  /\ row \in [timed : BOOLEAN, submitted : {FALSE}, auto : {FALSE},
              answers : {Nothing}, graded : {Nothing}]
  /\ late = FALSE
  /\ chosen = Nothing /\ handed = {}
  /\ edits = 0 /\ fails = 0

----------------------------------------------------------------------------
(* Sending                                                                 *)

Slots(calls) == {c \in Calls : calls[c].pc = "free"}

Send(calls, kind, carries) ==
  LET c == CHOOSE s \in Slots(calls) : \A t \in Slots(calls) : s <= t
  IN  [calls EXCEPT ![c] = [Free EXCEPT !.pc = "sent", !.kind = kind,
                                        !.carries = carries, !.awaited = TRUE]]

\* The flush sends one save at a time, the next when the last has succeeded.
Queued(left) == {q \in Questions : left[q] # Blank}

FlushFrom(left, calls) ==
  IF Queued(left) = {}
  THEN flushing' = Quiet /\ call' = calls
  ELSE \E q \in Queued(left) :
         /\ flushing' = [on |-> TRUE, left |-> [left EXCEPT ![q] = Blank]]
         /\ call' = Send(calls, "flush", Only(q, left[q]))

----------------------------------------------------------------------------
(* The page                                                                *)

Taking == page = "taking"

\* setAnswer and persistAnswer: offline, the save is refused at once.
Choose(q, v) ==
  /\ Taking /\ edits < MaxEdits /\ v # answers[q]
  /\ answers' = [answers EXCEPT ![q] = v]
  /\ mirror' = answers'
  /\ chosen' = [chosen EXCEPT ![q] = v]
  /\ edits' = edits + 1
  /\ IF online
     THEN /\ Slots(call) # {}
          /\ call' = Send(call, "save", Only(q, v))
          /\ UNCHANGED pending
     ELSE pending' = [pending EXCEPT ![q] = v] /\ UNCHANGED call
  /\ UNCHANGED <<page, flushing, submit, wants, countdown, online, row, late,
                 handed, fails>>

\* The sweep, every 15 seconds.
Sweep ==
  /\ Taking /\ online
  /\ ~flushing.on /\ pending # Nothing
  /\ Slots(call) # {}
  /\ FlushFrom(pending, call)
  /\ UNCHANGED <<page, answers, mirror, pending, submit, wants, countdown,
                 online, row, late, history, edits, fails>>

\* doSubmit, by the button, the anti-cheat or the countdown.  Offline, the
\* mutation is paused until the connection is back.
DoSubmit ==
  /\ Taking /\ submit = "none"
  /\ wants' = TRUE
  /\ IF online
     THEN /\ Slots(call) # {}
          /\ submit' = "sent"
          /\ call' = Send(call, "submit", answers)
          /\ handed' = handed \cup {answers}
     ELSE submit' = "paused" /\ UNCHANGED <<call, handed>>
  /\ UNCHANGED <<page, answers, mirror, pending, flushing, countdown, online,
                 row, late, chosen, edits, fails>>

TimeUp == countdown /\ DoSubmit

Tick ==
  /\ row.timed /\ Taking /\ ~countdown
  /\ countdown' = TRUE
  /\ UNCHANGED <<page, answers, mirror, pending, flushing, submit, wants,
                 online, call, row, late, history, edits, fails>>

\* The browser's "online" event: the flush starts, a paused submit goes on,
\* and one that failed is made again.
Reconnect ==
  LET resubmits == Taking /\ wants /\ submit # "sent"
      calls == IF resubmits THEN Send(call, "submit", answers) ELSE call
  IN  /\ ~online
      /\ Cardinality(Slots(call)) >= 2
      /\ online' = TRUE
      /\ IF resubmits
         THEN submit' = "sent" /\ handed' = handed \cup {answers}
         ELSE UNCHANGED <<submit, handed>>
      /\ IF Taking /\ ~flushing.on
         THEN FlushFrom(pending, calls)
         ELSE call' = calls /\ UNCHANGED flushing
      /\ UNCHANGED <<page, answers, mirror, pending, wants, countdown, row,
                     late, chosen, edits, fails>>

\* The intro's "resume".
Resume ==
  /\ page = "away" /\ online
  /\ \A c \in Calls : ~call[c].awaited
  /\ Slots(call) # {}
  /\ call' = Send(call, "resume", Nothing)
  /\ UNCHANGED <<pageVars, online, row, late, history, edits, fails>>

----------------------------------------------------------------------------
(* Answers and errors                                                      *)

\* TakingView is unmounted: what it held in memory is gone, and nobody waits
\* for its requests.
Unmount ==
  /\ answers' = Nothing /\ pending' = Nothing /\ flushing' = Quiet
  /\ submit' = "none" /\ wants' = FALSE /\ countdown' = FALSE

Disown(calls) ==
  [c \in Calls |-> IF calls[c].pc = "reply" THEN Free
                   ELSE [calls[c] EXCEPT !.awaited = FALSE]]

\* A save that fails is queued, whatever was chosen or queued after it.
SaveSettles(c, answer, calls) ==
  /\ pending' = IF answer = "saved" THEN pending
                ELSE Over(call[c].carries, pending)
  /\ call' = calls
  /\ UNCHANGED <<page, answers, mirror, flushing, submit, wants, countdown>>

\* Mutant: a flush that fails leaves its guard closed.
FlushSettlesOnce(c, answer, calls) ==
  IF answer = "saved"
  THEN /\ pending' = [q \in Questions |->
                        IF pending[q] = call[c].carries[q] THEN Blank
                                                           ELSE pending[q]]
       /\ FlushFrom(flushing.left, calls)
       /\ UNCHANGED <<page, answers, mirror, submit, wants, countdown>>
  ELSE call' = calls /\ UNCHANGED pageVars

\* "Only delete if unchanged meanwhile"; an error ends the flush.
FlushSettles(c, answer, calls) ==
  IF answer = "saved"
  THEN /\ pending' = [q \in Questions |->
                        IF pending[q] = call[c].carries[q] THEN Blank
                                                           ELSE pending[q]]
       /\ FlushFrom(flushing.left, calls)
       /\ UNCHANGED <<page, answers, mirror, submit, wants, countdown>>
  ELSE /\ flushing' = Quiet
       /\ call' = calls
       /\ UNCHANGED <<page, answers, mirror, pending, submit, wants, countdown>>

\* Mutant: the guard stays closed after a failure ("a permanently dead button").
SubmitSettlesOnce(c, answer, calls) ==
  IF answer = "result"
  THEN page' = "done" /\ mirror' = Nothing /\ call' = Disown(calls) /\ Unmount
  ELSE call' = calls /\ UNCHANGED pageVars

\* "A failed submit is NOT a submitted attempt: reopen the guard".
SubmitSettles(c, answer, calls) ==
  IF answer = "result"
  THEN page' = "done" /\ mirror' = Nothing /\ call' = Disown(calls) /\ Unmount
  ELSE /\ submit' = "none"
       /\ call' = calls
       /\ UNCHANGED <<page, answers, mirror, pending, flushing, wants, countdown>>

\* Mutant: the server's copy is put on top.
Restored(copy) == Over(copy, mirror)

\* "Server first, local mirror on top".
Restore(copy) == Over(mirror, copy)

ResumeSettles(c, answer, calls) ==
  /\ call' = calls
  /\ CASE answer = "state" ->
            /\ page' = "taking"
            /\ answers' = Restore(call[c].copy)
            /\ UNCHANGED <<mirror, pending, flushing, submit, wants, countdown>>
       [] answer = "result" ->
            page' = "done" /\ UNCHANGED mirror /\ Unmount
       [] OTHER -> UNCHANGED pageVars

Settle(c, answer, calls) ==
  \/ call[c].kind = "save" /\ SaveSettles(c, answer, calls)
  \/ call[c].kind = "flush" /\ FlushSettles(c, answer, calls)
  \/ call[c].kind = "submit" /\ SubmitSettles(c, answer, calls)
  \/ call[c].kind = "resume" /\ ResumeSettles(c, answer, calls)

Answered(c) ==
  /\ online
  /\ call[c].pc = "reply"
  /\ Settle(c, call[c].answer, [call EXCEPT ![c] = Free])
  /\ UNCHANGED <<online, row, late, history, edits, fails>>

\* The page gives a request up: the connection dropped it, or is down.  The
\* request never arrived, or its handler goes on all the same.
Lose(c) ==
  /\ call[c].awaited
  /\ IF online THEN fails < MaxFails /\ fails' = fails + 1
               ELSE UNCHANGED fails
  /\ \E arrives \in BOOLEAN :
       /\ arrives => call[c].pc # "reply"
       /\ ~arrives => call[c].pc \in {"sent", "reply"}
       /\ Settle(c, "lost", IF arrives THEN [call EXCEPT ![c].awaited = FALSE]
                            ELSE [call EXCEPT ![c] = Free])
  /\ UNCHANGED <<online, row, late, history, edits>>

Disconnect ==
  /\ online /\ fails < MaxFails
  /\ fails' = fails + 1
  /\ online' = FALSE
  /\ UNCHANGED <<pageVars, call, row, late, history, edits>>

\* The tab crashes or is refreshed: only the mirror survives.
Crash ==
  /\ Taking /\ fails < MaxFails
  /\ fails' = fails + 1
  /\ page' = "away"
  /\ Unmount
  /\ call' = Disown(call)
  /\ UNCHANGED <<mirror, online, row, late, history, edits>>

----------------------------------------------------------------------------
(* The API                                                                 *)

\* The attempt's time limit passes.
Expire ==
  /\ row.timed /\ ~late
  /\ late' = TRUE
  /\ UNCHANGED <<pageVars, online, call, row, history, edits, fails>>

\* Mutant: a submit is graded on the answers saved so far.
CopyOfSaved(c) ==
  IF call[c].kind = "save" THEN Over(call[c].carries, row.answers)
                           ELSE row.answers

\* What the handler is going to write: the row as it read it, with what the
\* request carries.  A save that comes late carries nothing into the grading.
CopyOf(c) ==
  IF call[c].kind = "submit" \/ ~late
  THEN Over(call[c].carries, row.answers)
  ELSE row.answers

Reply(r, answer) ==
  IF ~r.awaited THEN Free
  ELSE [r EXCEPT !.pc = "reply", !.answer = answer, !.late = FALSE,
                 !.copy = IF answer = "state" THEN @ ELSE Nothing]

\* Which way the handler goes: an attempt that is submitted has its result, or
\* refuses a save; one whose time is up is finalised by whatever request comes;
\* a submit finalises it, late or not.
Load(c) ==
  LET r == [call[c] EXCEPT !.copy = CopyOf(c), !.late = late]
      saves == r.kind \in {"save", "flush"}
  IN  /\ r.pc = "sent"
      /\ call' = [call EXCEPT ![c] =
           IF row.submitted THEN Reply(r, IF saves THEN "refused" ELSE "result")
           ELSE IF late \/ r.kind = "submit" THEN [r EXCEPT !.pc = "finalize"]
           ELSE IF saves THEN [r EXCEPT !.pc = "save"]
           ELSE Reply(r, "state")]
      /\ UNCHANGED <<pageVars, online, row, late, history, edits, fails>>

\* saveAnswer's update: the whole snapshot, by id.
Save(c) ==
  /\ call[c].pc = "save"
  /\ row' = [row EXCEPT !.answers = call[c].copy]
  /\ call' = [call EXCEPT ![c] = Reply(@, "saved")]
  /\ UNCHANGED <<pageVars, online, late, history, edits, fails>>

\* finalize: graded, then written by id.  A save that found the time up
\* answers TIME_UP, an error, with the result in it.
Finalize(c) ==
  /\ call[c].pc = "finalize"
  /\ row' = [row EXCEPT !.submitted = TRUE, !.auto = call[c].late,
                        !.answers = call[c].copy, !.graded = call[c].copy]
  /\ call' = [call EXCEPT ![c] =
                Reply(@, IF @.kind \in {"save", "flush"} THEN "refused"
                                                         ELSE "result")]
  /\ UNCHANGED <<pageVars, online, late, history, edits, fails>>

Handle(c) == Load(c) \/ Save(c) \/ Finalize(c)

----------------------------------------------------------------------------

Next ==
  \/ \E q \in Questions, v \in Choices : Choose(q, v)
  \/ Sweep \/ DoSubmit \/ Tick \/ Reconnect \/ Resume
  \/ \E c \in Calls : Answered(c) \/ Lose(c) \/ Handle(c)
  \/ Disconnect \/ Crash \/ Expire

Spec == Init /\ [][Next]_vars

\* The page's timers fire, its connection comes back, a request that is not
\* lost is handled and answered, and one caught by an outage fails.  Learners
\* are free.
FairSpec ==
  /\ Spec
  /\ WF_vars(Tick) /\ WF_vars(TimeUp) /\ WF_vars(Sweep) /\ WF_vars(Reconnect)
  /\ \A c \in Calls : /\ WF_vars(Answered(c)) /\ WF_vars(Handle(c))
                      /\ WF_vars(~online /\ Lose(c))

----------------------------------------------------------------------------
(* Properties.                                                             *)

\* Whatever was saved, lost or overwritten, a page that is open again shows
\* exactly what the learner chose ("a crash/refresh mid-outage restores
\* exactly what the learner had").
CrashRestoresChoice == Taking => answers = chosen

\* An attempt handed in before its time was up is graded on every answer that
\* a submit carried, whatever saves raced with it ("The final submit already
\* carries the FULL answers map, so nothing here is load-bearing for grading").
ScoreIsOfASubmit ==
  row.submitted /\ ~row.auto =>
    \E h \in handed : \A q \in Questions : h[q] \in {Blank, row.graded[q]}

\* An attempt that the page hands in is graded on what it handed in, although its
\* time ran out on the way and a save travelled beside it ("The final submit
\* already carries the FULL answers map, so nothing here is load-bearing for
\* grading").
HandedInCounts ==
  page = "done" /\ handed # {} =>
    \E h \in handed : \A q \in Questions : h[q] \in {Blank, row.graded[q]}

\* Without crashes of the tab, a timed attempt comes to its result: no lost
\* submit or outage leaves it open ("the attempt looked lost when nothing was
\* lost at all").
TimedAttemptEnds == row.timed /\ Taking ~> ~Taking

\* A queued save gets through, unless the page is left or the attempt
\* submitted: no failed flush blocks the next one ("the resume path heals
\* itself").
QueueDrains ==
  \A q \in Questions :
    pending[q] # Blank ~> pending[q] = Blank \/ row.submitted
=============================================================================

------------------------------ MODULE Integrity ------------------------------
(***************************************************************************)
(* What is known of one sitting: the page's detectors (use-anti-cheat.ts,  *)
(* camera-monitor.tsx), their reports, and the API's handlers, which log   *)
(* each report and then recompute the attempt's integrity from all its     *)
(* logs (attempts.service.ts).  Reports overlap each other and the         *)
(* finalisation of the attempt; each writes what it read earlier.  The     *)
(* page may go at any time, and the attempt be resumed by another one.     *)
(***************************************************************************)
EXTENDS Naturals, FiniteSets, FiniteSetsExt

CONSTANTS
  Events,      \* what the page may observe, once each
  Switches,    \* those of them that are tab switches
  Exits,       \* and exits from the full screen, where it is required
  Unmonitored, \* the event that the camera monitor never loaded
  FastAnswer,  \* an answer too fast, found by the API at the end
  Snapshots,   \* what the camera sees, reported with a picture
  Limit,       \* tab switches that end the attempt
  MaxBatch,    \* the events of a report that is not refused
  Calls,       \* reports under way (a bound)
  MaxFails     \* bound on lost reports and failures

Camera == Snapshots \cup {Unmonitored}
All == Events \cup Camera \cup {FastAnswer}

VARIABLES
  seen,      \* observed so far
  buffer,    \* observed and not reported yet: the page's memory
  counted,   \* the page's own count of tab switches
  quiet,     \* the page's "submitted": it reports nothing more
  camera,    \* the page's camera monitor
  open,      \* a page is there
  call,      \* call[c]: a report under way
  finalizer, \* the attempt's finalisation
  logs,      \* logs[e]: log rows of e (counted to 2)
  row,       \* the attempt's row
  gone,      \* history: events lost with the memory of a page that went
  fails

page == <<seen, buffer, counted, quiet, camera, open, gone>>
vars == <<page, call, finalizer, logs, row, fails>>

Tally == [flags : 0..2 * Cardinality(All), unmonitored : BOOLEAN, over : BOOLEAN]
NoTally == [flags |-> 0, unmonitored |-> FALSE, over |-> FALSE]

\* Who waits for a report's answer: the page that sent it, a page that took
\* the report for lost, or nobody, that page being gone.
Free == [pc |-> "free", events |-> {}, sender |-> "left", tally |-> NoTally]

TypeOK ==
  /\ seen \subseteq All /\ buffer \subseteq Events /\ gone \subseteq Events
  /\ counted \in Nat /\ quiet \in BOOLEAN /\ open \in BOOLEAN
  /\ camera \in {"loading", "on", "off"}
  /\ call \in [Calls ->
       [pc : {"free", "sent", "insert", "tally", "update", "ack"},
        events : SUBSET All, sender : {"waits", "requeued", "left"}, tally : Tally]]
  /\ finalizer \in
       [pc : {"none", "update", "done"}, tally : Tally, fast : BOOLEAN]
  /\ logs \in [All -> 0..2]
  /\ row \in [submitted : BOOLEAN, flags : 0..2 * Cardinality(All),
              monitored : {"unsaid", "no"}]
  /\ fails \in 0..MaxFails

NotFinalizing == [pc |-> "none", tally |-> NoTally, fast |-> FALSE]

Init ==
  /\ seen = {} /\ buffer = {} /\ counted = 0 /\ gone = {}
  /\ quiet = FALSE /\ camera = "loading" /\ open = TRUE
  /\ call = [c \in Calls |-> Free]
  /\ finalizer = NotFinalizing
  /\ logs = [e \in All |-> 0]
  /\ row = [submitted |-> FALSE, flags |-> 0, monitored |-> "unsaid"]
  /\ fails = 0

----------------------------------------------------------------------------
(* The page                                                                *)

Sent(events, sender) ==
  [Free EXCEPT !.pc = "sent", !.events = events, !.sender = sender]

\* One of calls is free, and carries a report from now on.
Report(calls, c, events, sender) ==
  /\ calls[c] = Free
  /\ call' = [calls EXCEPT ![c] = Sent(events, sender)]

\* flush empties the buffer into one request, unless the page went quiet.
FlushBuffer(events) ==
  IF quiet \/ events = {}
  THEN buffer' = events /\ UNCHANGED call
  ELSE buffer' = {} /\ \E c \in Calls : Report(call, c, events, "waits")

\* A listener fires.  Tab switches and exits are reported at once; the switch
\* that reaches the limit by the page's own count ends the attempt.
Observe(e) ==
  /\ open /\ e \in Events \ seen
  /\ seen' = seen \cup {e}
  /\ IF e \in Switches \cup Exits THEN FlushBuffer(buffer \cup {e})
     ELSE buffer' = buffer \cup {e} /\ UNCHANGED call
  /\ counted' = IF e \in Switches THEN counted + 1 ELSE counted
  /\ quiet' = (quiet \/ (e \in Switches /\ counted' >= Limit))
  /\ UNCHANGED <<camera, open, gone, finalizer, logs, row, fails>>

\* The interval of 8 seconds.
Flush ==
  /\ open /\ ~quiet /\ buffer # {}
  /\ FlushBuffer(buffer)
  /\ UNCHANGED <<seen, counted, quiet, camera, open, gone, finalizer, logs, row, fails>>

\* The monitor gives up loading, or a face is missing for two seconds: each
\* is reported once, and nobody looks at the answer.
ObserveCamera(e) ==
  /\ open /\ e \in Camera \ seen
  /\ camera' = IF e = Unmonitored THEN "off" ELSE "on"
  /\ camera \in {"loading", camera'}
  /\ seen' = seen \cup {e}
  /\ \E c \in Calls : Report(call, c, {e}, "left")
  /\ UNCHANGED <<buffer, counted, quiet, open, gone, finalizer, logs, row, fails>>

\* Mutant: a report that fails is dropped.
DropFailed(events) == buffer

\* "Re-queue on failure so events aren't lost."
Requeue(events) == buffer \cup (events \cap Events)

\* The page learns that a report came to nothing, if it is still there.
Dropped(c) ==
  /\ buffer' = IF call[c].sender = "waits" THEN Requeue(call[c].events) ELSE buffer
  /\ gone' = IF call[c].sender = "left" THEN gone \cup (call[c].events \cap Events)
             ELSE gone
  /\ UNCHANGED <<seen, counted, quiet, camera, open>>

\* A report is lost on its way, or its answer is; then its handler goes on.
Lose(c) ==
  /\ fails < MaxFails /\ fails' = fails + 1
  /\ \/ call[c].pc = "sent"
     \/ call[c].pc \notin {"free", "sent"} /\ call[c].sender = "waits"
  /\ Dropped(c)
  /\ call' = [call EXCEPT ![c] =
                IF @.pc \in {"sent", "ack"} THEN Free ELSE [@ EXCEPT !.sender = "requeued"]]
  /\ UNCHANGED <<finalizer, logs, row>>

\* The answer may say that the limit is reached.
Acknowledge(c) ==
  /\ call[c].pc = "ack"
  /\ call' = [call EXCEPT ![c] = Free]
  /\ quiet' = (quiet \/ call[c].tally.over)
  /\ UNCHANGED <<seen, buffer, counted, camera, open, gone, finalizer, logs, row, fails>>

\* Nobody waits any more for what a page that goes has sent.
Disowned ==
  [c \in Calls |->
     IF call[c].sender = "waits" THEN [call[c] EXCEPT !.sender = "left"] ELSE call[c]]

\* The page is unmounted: its last flush sends what it holds, unless it went
\* quiet.
Leave ==
  /\ open /\ open' = FALSE
  /\ buffer' = {}
  /\ \/ /\ quiet \/ buffer = {}
        /\ gone' = gone \cup buffer
        /\ call' = Disowned
     \/ /\ ~quiet /\ buffer # {}
        /\ \E c \in Calls : Report(Disowned, c, buffer, "left")
        /\ UNCHANGED gone
  /\ UNCHANGED <<seen, counted, quiet, camera, finalizer, logs, row, fails>>

\* It is reloaded or closed, or crashes: what it holds is lost.
Unload ==
  /\ open /\ open' = FALSE
  /\ buffer' = {} /\ gone' = gone \cup buffer
  /\ call' = Disowned
  /\ UNCHANGED <<seen, counted, quiet, camera, finalizer, logs, row, fails>>

\* The attempt is resumed, and everything of the page's begins again.
Resume ==
  /\ ~open /\ ~row.submitted
  /\ open' = TRUE
  /\ counted' = 0 /\ quiet' = FALSE /\ camera' = "loading"
  /\ UNCHANGED <<seen, buffer, gone, call, finalizer, logs, row, fails>>

----------------------------------------------------------------------------
(* The API                                                                 *)

Finished(c, over) ==
  IF call[c].sender = "waits"
  THEN [call[c] EXCEPT !.pc = "ack", !.tally = [NoTally EXCEPT !.over = over]]
  ELSE Free

\* A report of too many events is refused, and one on a submitted attempt is
\* not accepted.
Accept(c) ==
  /\ call[c].pc = "sent"
  /\ IF Cardinality(call[c].events) > MaxBatch
     THEN Dropped(c) /\ call' = [call EXCEPT ![c] = Free]
     ELSE /\ call' = [call EXCEPT ![c] =
               IF row.submitted THEN Finished(c, FALSE) ELSE [@ EXCEPT !.pc = "insert"]]
          /\ UNCHANGED page
  /\ UNCHANGED <<finalizer, logs, row, fails>>

Insert(c) ==
  /\ call[c].pc = "insert"
  /\ logs' = [e \in All |-> IF e \in call[c].events /\ logs[e] < 2
                            THEN logs[e] + 1 ELSE logs[e]]
  /\ call' = [call EXCEPT ![c].pc = "tally"]
  /\ UNCHANGED <<page, finalizer, row, fails>>

\* calculateIntegrity and shouldAutoSubmit: the camera's failure is no flag.
Count(events) == ReduceSet(LAMBDA e, n : n + logs[e], events, 0)

Tallied == [flags |-> Count(All \ {Unmonitored}),
            unmonitored |-> logs[Unmonitored] > 0,
            over |-> Count(Switches) >= Limit \/ Count(Exits) >= 2]

\* Mutant: the camera's state is written with every recompute.
WrittenAnyway(old, tally) ==
  [old EXCEPT !.flags = tally.flags,
              !.monitored = IF tally.unmonitored THEN "no" ELSE "unsaid"]

\* "Only ever set to false here"
Written(old, tally) ==
  [old EXCEPT !.flags = tally.flags,
              !.monitored = IF tally.unmonitored THEN "no" ELSE @]

\* recomputeIntegrity
Recompute(c) ==
  /\ call[c].pc = "tally"
  /\ call' = [call EXCEPT ![c].pc = "update", ![c].tally = Tallied]
  /\ UNCHANGED <<page, finalizer, logs, row, fails>>

Update(c) ==
  /\ call[c].pc = "update"
  /\ row' = Written(row, call[c].tally)
  /\ call' = [call EXCEPT ![c] = Finished(c, @.tally.over)]
  /\ UNCHANGED <<page, finalizer, logs, fails>>

\* A handler fails.
FailHandler(c) ==
  /\ call[c].pc \in {"insert", "tally", "update"} /\ fails < MaxFails
  /\ fails' = fails + 1
  /\ Dropped(c)
  /\ call' = [call EXCEPT ![c] = Free]
  /\ UNCHANGED <<finalizer, logs, row>>

\* The attempt is handed in, or its time is up: a fast answer is logged, the
\* logs are read and the row is written in one transaction, which does not
\* exclude the reports.
Finalize ==
  /\ finalizer.pc = "none"
  /\ \E fast \in BOOLEAN :
       finalizer' =
         [pc |-> "update", fast |-> fast,
          tally |-> [Tallied EXCEPT !.flags = @ + (IF fast THEN 1 ELSE 0)]]
  /\ UNCHANGED <<page, call, logs, row, fails>>

Commit ==
  /\ finalizer.pc = "update"
  /\ finalizer' = [NotFinalizing EXCEPT !.pc = "done"]
  /\ logs' = IF finalizer.fast THEN [logs EXCEPT ![FastAnswer] = 1] ELSE logs
  /\ row' = [Written(row, finalizer.tally) EXCEPT !.submitted = TRUE]
  /\ UNCHANGED <<page, call, fails>>

Abort ==
  /\ finalizer.pc = "update" /\ fails < MaxFails
  /\ fails' = fails + 1
  /\ finalizer' = NotFinalizing
  /\ UNCHANGED <<page, call, logs, row>>

Handle(c) == Accept(c) \/ Insert(c) \/ Recompute(c) \/ Update(c)

Next ==
  \/ \E e \in All : Observe(e) \/ ObserveCamera(e)
  \/ Flush \/ Leave \/ Unload \/ Resume
  \/ Finalize \/ Commit \/ Abort
  \/ \E c \in Calls :
       Handle(c) \/ Acknowledge(c) \/ Lose(c) \/ FailHandler(c)

Spec == Init /\ [][Next]_vars

----------------------------------------------------------------------------
(* Properties.                                                             *)

Settled == \A c \in Calls : call[c].pc \notin {"tally", "update"}

\* Without failures, once a report that nobody was watching is on the record,
\* the attempt's row says so, and no older recompute or finalisation takes it
\* back ("a later clean recompute must not erase the fact that monitoring
\* failed").
UnmonitoredIsKnown ==
  logs[Unmonitored] > 0 /\ Settled /\ fails = 0 => row.monitored = "no"

\* While the attempt goes on, an observed event is forgotten only with the
\* memory of a page that went: whatever report is lost, refused or fails, it
\* waits in the page, or its report has yet to be logged, or it is logged
\* ("Re-queue on failure so events aren't lost").
EventsKept ==
  ~row.submitted =>
    \A e \in seen \cap Events :
      \/ e \in buffer
      \/ \E c \in Calls : call[c].pc \in {"sent", "insert"} /\ e \in call[c].events
      \/ logs[e] > 0
      \/ e \in gone
=============================================================================

---------------------------- MODULE MCCompletion ----------------------------
(* Completion on small instances, for TLC.                                 *)
EXTENDS Completion, TLC

CONSTANTS video, course, path, quiz, exam, r1, r2

\* A video with a quiz, alone in its course; a path of that course with a
\* final exam.
MCParts == (path :> {course})
MCRequired == (path :> {})
MCCourseOf == (video :> course)
MCQuiz == (video :> quiz)
MCGates == (path :> {exam}) @@ (course :> {})
=============================================================================

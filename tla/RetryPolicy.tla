----------------------------- MODULE RetryPolicy -----------------------------
(***************************************************************************)
(* The three knobs of the shared retry policy (retry-policy.calculator.ts): *)
(* how many tries a window has, how far apart two tries are, and how long   *)
(* a learner who used a window up is locked out.  None is no limit.        *)
(***************************************************************************)
EXTENDS Naturals, Sequences

CONSTANTS MaxTries, Spacing, Lockout, None

ASSUME RetryAssumption ==
  /\ MaxTries \in (Nat \ {0}) \cup {None}
  /\ Spacing \in Nat \cup {None} /\ Lockout \in Nat \cup {None}
  /\ None \notin Nat

Full(window) == MaxTries # None /\ Len(window) >= MaxTries

\* Mutant: the lockout runs from the window's first try.
LockoutFromFirst(window) == window[1] + Lockout

\* The lockout runs from the window's last try.
LockoutEnd(window) == window[Len(window)] + Lockout

\* A used-up window's lockout is over.
Elapsed(window, t) ==
  Full(window) /\ Lockout # None /\ t >= LockoutEnd(window)

\* The tries of the current window, of those at times[1] <= times[2] <= ...
Window(times) ==
  LET after[n \in 0..Len(times)] ==
        IF n = 0 THEN <<>>
        ELSE IF Elapsed(after[n - 1], times[n]) THEN <<times[n]>>
        ELSE Append(after[n - 1], times[n])
  IN  after[Len(times)]

\* May a learner who tried at times, and passed or not, try again now?
CanRetry(times, passed, now) ==
  LET window == Window(times)
      spaced == \/ Spacing = None \/ window = <<>>
                \/ window[Len(window)] + Spacing <= now
  IN  /\ ~passed
      /\ \/ Elapsed(window, now)
         \/ ~Full(window) /\ spaced
=============================================================================

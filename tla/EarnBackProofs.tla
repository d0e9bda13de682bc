--------------------------- MODULE EarnBackProofs ---------------------------
(***************************************************************************)
(* Earn-Back, for any number of orders, resolvers and deadline requests,   *)
(* and any interleaving of them: every variable keeps its type, an escrow  *)
(* is resolved once and its creator paid what its resolution says, a       *)
(* deadline is moved once and never later, a learner who completed is      *)
(* refunded what they earned, and the whole implements the escrow          *)
(* specification.                                                          *)
(***************************************************************************)
EXTENDS EarnBack, PoolsProofs

\* A resolver that is past its first reads works on an order.
Busy == \A w \in Resolvers : resolver[w].pc \in {"flip", "enqueue", "announce"}
                               => resolver[w].order \in Orders

\* A deadline request asks for a day, and for none after the provisional window.
Asked == \A l \in Learners : request[l] # NoRequest =>
           /\ request[l].order \in Orders
           /\ request[l].days \in Nat \ {0}
           /\ source[request[l].order] = "provisional"
                => request[l].days <= window[request[l].order]

LEMMA DeadlineNat ==
  ASSUME TypeOK, NEW o \in Orders
  PROVE  Deadline(o) \in Nat
<1>1. window[o] \in Nat /\ UnitsPerDay \in Nat
  BY EarnBackAssumption DEF TypeOK
<1>2. QED
  BY <1>1, TimesMonotone DEF Deadline

\* What a busy resolver computes is a row that hands out the order's escrow.
LEMMA ResultIsARow ==
  ASSUME TypeOK, Busy, NEW w \in Resolvers,
         resolver[w].pc \in {"flip", "enqueue", "announce"}
  PROVE  LET o == resolver[w].order
             r == Result(w)
         IN  /\ o \in Orders /\ r \in Rows
             /\ base[o] \in Nat
             /\ r.refund \in 0..base[o] /\ r.instructor \in 0..base[o]
             /\ r.refund + r.instructor + r.platform = base[o]
             /\ r.platform = base[o] - r.refund - r.instructor
             /\ platformOwned[o] => r.instructor = 0
<1> DEFINE o == resolver[w].order
           completed == resolver[w].completed
           days == IF completed = None THEN MaxLateDays
                   ELSE DaysLate(resolver[w].deadline, completed, UnitsPerDay)
           r == Result(w)
<1>1. o \in Orders
  BY DEF Busy
<1>2. base[o] \in Nat /\ platformOwned[o] \in BOOLEAN /\ Share \in 0..100
  BY <1>1, EarnBackAssumption DEF TypeOK
<1>3. days \in Nat
  <2>1. resolver[w] \in Resolutions
    BY DEF TypeOK
  <2>2. resolver[w].deadline \in Nat /\ completed \in Nat \cup {None}
    BY <2>1 DEF Resolutions
  <2>3. CASE completed = None
    BY <2>3 DEF MaxLateDays
  <2>4. CASE completed # None
    <3>1. resolver[w].deadline \in Int /\ completed \in Int
      BY <2>2, <2>4
    <3>2. DaysLate(resolver[w].deadline, completed, UnitsPerDay) \in Nat
      BY <3>1, DaysLateNat, EarnBackAssumption
    <3>3. QED
      BY <2>4, <3>2
  <2>5. QED
    BY <2>3, <2>4
<1>4. r = CalculateEarnBack(base[o], days, Share, platformOwned[o])
  BY DEF Result, Resolution
<1>5. r.late \in Nat /\ r.noPayout \in BOOLEAN
        /\ r = [late |-> r.late, refund |-> r.refund, forfeited |-> r.forfeited,
                instructor |-> r.instructor, platform |-> r.platform,
                noPayout |-> r.noPayout]
  <2> HIDE DEF days
  <2>1. Clamp(days, MaxLateDays) \in Nat
    BY <1>3 DEF Clamp, AtMost, AtLeastZero, MaxLateDays
  <2>2. QED
    BY <1>4, <2>1 DEF CalculateEarnBack
<1> HIDE DEF days, r, o
<1>6. /\ r.refund \in 0..base[o] /\ r.forfeited \in 0..base[o]
      /\ r.instructor \in 0..base[o] /\ r.platform \in 0..base[o]
      /\ r.refund + r.forfeited = base[o]
      /\ r.instructor + r.platform = r.forfeited
      /\ platformOwned[o] => r.instructor = 0
  <2>1. Conserves(r, base[o], platformOwned[o])
    BY <1>2, <1>3, <1>4, ResolutionConserves
  <2>2. QED
    BY <2>1 DEF Conserves
<1>7. /\ r.refund + r.instructor + r.platform = base[o]
      /\ r.platform = base[o] - r.refund - r.instructor
  BY <1>2, <1>6
<1>8. r \in Rows
  <2>1. /\ r.refund \in Nat /\ r.forfeited \in Nat
        /\ r.instructor \in Nat /\ r.platform \in Nat
    BY <1>2, <1>6
  <2>2. QED
    BY <1>5, <2>1 DEF Rows
<1>9. QED
  BY <1>1, <1>2, <1>6, <1>7, <1>8 DEF o, r

----------------------------------------------------------------------------
(* Types.                                                                  *)

Typed == TypeOK /\ Busy /\ Asked

LEMMA TypedInit == Init => Typed
<1> SUFFICES ASSUME Init PROVE Typed
  OBVIOUS
<1>1. TypeOK
  <2>1. Idle \in Resolutions /\ NoRequest \in Requests
    BY DEF Idle, Resolutions, Pcs, NoRequest, Requests
  <2>2. /\ txns \in [Orders -> Seq(Rows)] /\ forfeits \in [Orders -> Seq(Nat)]
        /\ notices \in [Orders -> 0..2]
        /\ payoutJobs \subseteq Orders /\ refundJobs \subseteq Orders
    BY DEF Init
  <2>3. /\ completedAt \in [Orders -> Instants \cup {None}] /\ events \subseteq Orders
        /\ now \in Instants /\ fails \in 0..MaxFails
    BY EarnBackAssumption DEF Init
  <2>4. /\ resolver \in [Resolvers -> Resolutions]
        /\ request \in [Learners -> Requests]
    BY <2>1 DEF Init
  <2>5. /\ base \in [Orders -> Bases] /\ platformOwned \in [Orders -> BOOLEAN]
        /\ status \in [Orders -> {"paid", "earn_back_issued"}]
        /\ source \in [Orders -> {"creator", "provisional", "learner"}]
        /\ window \in [Orders -> Nat \ {0}]
    BY EarnBackAssumption DEF Init
  <2>6. QED
    BY <2>2, <2>3, <2>4, <2>5 DEF TypeOK
<1>2. Busy
  BY DEF Init, Busy, Idle
<1>3. Asked
  BY DEF Init, Asked
<1>4. QED
  BY <1>1, <1>2, <1>3 DEF Typed

\* A resolver that changes its own local state only, within its type.
LEMMA LocalStep ==
  ASSUME Typed, NEW w \in Resolvers, NEW local \in Resolutions, Become(w, local),
         local.pc \in {"flip", "enqueue", "announce"} => local.order \in Orders
  PROVE  resolver' \in [Resolvers -> Resolutions] /\ Busy'
BY DEF Typed, TypeOK, Busy, Become

LEMMA HandleCompletedTyped ==
  ASSUME Typed, NEW w \in Resolvers, NEW o \in Orders, HandleCompleted(w, o)
  PROVE  Typed'
<1> DEFINE local == [Idle EXCEPT !.pc = "flip", !.order = o,
                                 !.deadline = Deadline(o),
                                 !.completed = completedAt[o]]
<1>1. resolver' \in [Resolvers -> Resolutions] /\ Busy'
  <2>1. CASE status[o] = "paid"
    <3>1. Deadline(o) \in Nat
      BY DeadlineNat DEF Typed
    <3>2. completedAt[o] \in Nat \cup {None}
      BY EarnBackAssumption DEF Typed, TypeOK
    <3>3. local \in Resolutions /\ local.order = o
      BY <3>1, <3>2 DEF Idle, Resolutions, Pcs
    <3>4. Become(w, local)
      BY <2>1 DEF HandleCompleted
    <3>5. QED
      BY <3>3, <3>4, LocalStep
  <2>2. CASE status[o] # "paid"
    BY <2>2 DEF HandleCompleted, Typed, TypeOK, Busy
  <2>3. QED
    BY <2>1, <2>2
<1>2. TypeOK'
  BY <1>1 DEF HandleCompleted, Typed, TypeOK, orderVars, effectVars
<1>3. Asked'
  BY DEF HandleCompleted, Typed, Asked, orderVars
<1>4. QED
  BY <1>1, <1>2, <1>3 DEF Typed

LEMMA SweepStartTyped ==
  ASSUME Typed, NEW w \in Resolvers, SweepStart(w)
  PROVE  Typed'
<1>1. PICK page \in SUBSET Due : Become(w, [Idle EXCEPT !.pc = "check", !.todo = page])
  BY DEF SweepStart
<1>2. [Idle EXCEPT !.pc = "check", !.todo = page] \in Resolutions
  BY DEF Idle, Resolutions, Pcs, Due
<1>3. resolver' \in [Resolvers -> Resolutions] /\ Busy'
  BY <1>1, <1>2, LocalStep DEF Idle
<1>4. TypeOK'
  BY <1>3 DEF SweepStart, Typed, TypeOK, orderVars, effectVars, learnerVars
<1>5. Asked'
  BY DEF SweepStart, Typed, Asked, orderVars
<1>6. QED
  BY <1>3, <1>4, <1>5 DEF Typed

LEMMA SweepCheckTyped ==
  ASSUME Typed, NEW w \in Resolvers, SweepCheck(w)
  PROVE  Typed'
<1>1. resolver[w] \in Resolutions
  BY DEF Typed, TypeOK
<1>2. PICK o \in resolver[w].todo :
        LET rest == resolver[w].todo \ {o}
        IN  IF completedAt[o] # None
            THEN Become(w, IF rest = {} THEN Idle
                                        ELSE [resolver[w] EXCEPT !.todo = rest])
            ELSE Become(w, [resolver[w] EXCEPT !.pc = "flip", !.order = o,
                                               !.todo = rest])
  BY DEF SweepCheck
<1> DEFINE rest == resolver[w].todo \ {o}
<1>3. o \in Orders /\ rest \in SUBSET Orders
  BY <1>1 DEF Resolutions
<1>4. resolver' \in [Resolvers -> Resolutions] /\ Busy'
  <2>1. CASE completedAt[o] # None /\ rest = {}
    <3>1. Become(w, Idle)
      BY <1>2, <2>1
    <3>2. Idle \in Resolutions /\ Idle.pc = "idle"
      BY DEF Idle, Resolutions, Pcs
    <3>3. QED
      BY <3>1, <3>2, LocalStep
  <2>2. CASE completedAt[o] # None /\ rest # {}
    <3> DEFINE local == [resolver[w] EXCEPT !.todo = rest]
    <3>1. Become(w, local)
      BY <1>2, <2>2
    <3>2. local \in Resolutions /\ local.pc = "check"
      BY <1>1, <1>3 DEF Resolutions, SweepCheck, At
    <3>3. QED
      BY <3>1, <3>2, LocalStep
  <2>3. CASE completedAt[o] = None
    <3> DEFINE local == [resolver[w] EXCEPT !.pc = "flip", !.order = o, !.todo = rest]
    <3>1. Become(w, local)
      BY <1>2, <2>3
    <3>2. local \in Resolutions /\ local.order = o
      BY <1>1, <1>3 DEF Resolutions, Pcs
    <3>3. QED
      BY <1>3, <3>1, <3>2, LocalStep
  <2>4. QED
    BY <2>1, <2>2, <2>3
<1>5. TypeOK'
  BY <1>4 DEF SweepCheck, Typed, TypeOK, orderVars, effectVars, learnerVars
<1>6. Asked'
  BY DEF SweepCheck, Typed, Asked, orderVars
<1>7. QED
  BY <1>4, <1>5, <1>6 DEF Typed

\* Moving on with the same order.
LEMMA GotoStep ==
  ASSUME Typed, NEW w \in Resolvers, NEW pc \in {"enqueue", "announce"},
         resolver[w].pc \in {"flip", "enqueue", "announce"}, Goto(w, pc)
  PROVE  resolver' \in [Resolvers -> Resolutions] /\ Busy'
<1> DEFINE local == [resolver[w] EXCEPT !.pc = pc]
<1>1. resolver[w] \in Resolutions /\ resolver[w].order \in Orders
  BY DEF Typed, TypeOK, Busy
<1>2. local \in Resolutions /\ local.order = resolver[w].order
  BY <1>1 DEF Resolutions, Pcs
<1>3. Become(w, local)
  BY DEF Goto
<1>4. QED
  BY <1>1, <1>2, <1>3, LocalStep

LEMMA FlipTyped ==
  ASSUME Typed, NEW w \in Resolvers, Flip(w)
  PROVE  Typed'
<1> DEFINE o == resolver[w].order
           row == Result(w)
<1>1. o \in Orders /\ row \in Rows /\ row.instructor \in Nat
  <2>1. TypeOK /\ Busy /\ resolver[w].pc \in {"flip", "enqueue", "announce"}
    BY DEF Flip, At, Typed
  <2>2. o \in Orders /\ row \in Rows
    BY <2>1, ResultIsARow
  <2>3. QED
    BY <2>2 DEF Rows
<1>2. resolver' \in [Resolvers -> Resolutions] /\ Busy'
  BY GotoStep DEF Flip, At, ResolveOrder, AlreadyResolved
<1> HIDE DEF o, row
<1>3. status' \in [Orders -> {"paid", "earn_back_issued"}]
  BY <1>1 DEF Flip, ResolveOrder, AlreadyResolved, Typed, TypeOK
<1>4. txns' \in [Orders -> Seq(Rows)] /\ forfeits' \in [Orders -> Seq(Nat)]
  <2>1. CASE ResolveOrder(w)
    <3>1. txns' = [txns EXCEPT ![o] = Append(@, row)]
      BY <2>1 DEF ResolveOrder, o, row
    <3>2. \/ forfeits' = [forfeits EXCEPT ![o] = Append(@, row.instructor)]
          \/ forfeits' = forfeits
      BY <2>1 DEF ResolveOrder, o, row
    <3>3. Append(txns[o], row) \in Seq(Rows)
            /\ Append(forfeits[o], row.instructor) \in Seq(Nat)
      BY <1>1 DEF Typed, TypeOK
    <3>4. txns' \in [Orders -> Seq(Rows)]
      BY <1>1, <3>1, <3>3 DEF Typed, TypeOK
    <3>5. forfeits' \in [Orders -> Seq(Nat)]
      BY <1>1, <3>2, <3>3 DEF Typed, TypeOK
    <3>6. QED
      BY <3>4, <3>5
  <2>2. CASE AlreadyResolved(w)
    BY <2>2 DEF AlreadyResolved, Typed, TypeOK
  <2>3. QED
    BY <2>1, <2>2 DEF Flip
<1>5. TypeOK'
  BY <1>2, <1>3, <1>4 DEF Flip, Typed, TypeOK, learnerVars
<1>6. Asked'
  BY DEF Flip, Typed, Asked
<1>7. QED
  BY <1>2, <1>5, <1>6 DEF Typed

LEMMA EnqueuePayoutTyped ==
  ASSUME Typed, NEW w \in Resolvers, EnqueuePayout(w)
  PROVE  Typed'
<1>1. resolver' \in [Resolvers -> Resolutions] /\ Busy' /\ resolver[w].order \in Orders
  BY GotoStep DEF EnqueuePayout, At, Typed, Busy
<1>2. TypeOK'
  BY <1>1 DEF EnqueuePayout, Typed, TypeOK, orderVars, learnerVars
<1>3. Asked'
  BY DEF EnqueuePayout, Typed, Asked, orderVars
<1>4. QED
  BY <1>1, <1>2, <1>3 DEF Typed

LEMMA AnnounceTyped ==
  ASSUME Typed, NEW w \in Resolvers, Announce(w)
  PROVE  Typed'
<1> DEFINE o == resolver[w].order
           next == IF resolver[w].todo = {} THEN Idle
                   ELSE [Idle EXCEPT !.pc = "check", !.todo = resolver[w].todo]
<1>1. resolver[w] \in Resolutions /\ o \in Orders
  BY DEF Announce, At, Typed, TypeOK, Busy
<1>2. resolver' \in [Resolvers -> Resolutions] /\ Busy'
  <2>1. next \in Resolutions /\ next.pc \in {"idle", "check"}
    BY <1>1 DEF Idle, Resolutions, Pcs
  <2>2. Become(w, next)
    BY DEF Announce, Return
  <2>3. QED
    BY <2>1, <2>2, LocalStep
<1> HIDE DEF o
<1>3. refundJobs' \subseteq Orders /\ notices' \in [Orders -> 0..2]
  <2>1. \/ refundJobs' = refundJobs \/ refundJobs' = refundJobs \cup {o}
    BY DEF Announce, o
  <2>2. \/ notices' = notices
        \/ notices' = [notices EXCEPT ![o] = IF @ < 2 THEN @ + 1 ELSE @]
    BY DEF Announce, o
  <2>3. refundJobs' \subseteq Orders
    BY <1>1, <2>1 DEF Typed, TypeOK
  <2>4. notices' \in [Orders -> 0..2]
    <3>1. notices[o] \in 0..2
      BY <1>1 DEF Typed, TypeOK
    <3>2. (IF notices[o] < 2 THEN notices[o] + 1 ELSE notices[o]) \in 0..2
      BY <3>1
    <3>3. QED
      BY <1>1, <2>2, <3>2 DEF Typed, TypeOK
  <2>5. QED
    BY <2>3, <2>4
<1>4. TypeOK'
  BY <1>2, <1>3 DEF Announce, Typed, TypeOK, orderVars, learnerVars
<1>5. Asked'
  BY DEF Announce, Typed, Asked, orderVars
<1>6. QED
  BY <1>2, <1>4, <1>5 DEF Typed

LEMMA FailTyped ==
  ASSUME Typed, NEW w \in Resolvers, Fail(w)
  PROVE  Typed'
<1>1. Idle \in Resolutions /\ Idle.pc = "idle" /\ Become(w, Idle)
  BY DEF Idle, Resolutions, Pcs, Fail
<1>2. resolver' \in [Resolvers -> Resolutions] /\ Busy'
  BY <1>1, LocalStep
<1>3. fails' \in 0..MaxFails
  BY EarnBackAssumption DEF Fail, Typed, TypeOK
<1>4. TypeOK'
  BY <1>2, <1>3 DEF Fail, Typed, TypeOK, orderVars, effectVars, learnerVars
<1>5. Asked'
  BY DEF Fail, Typed, Asked, orderVars
<1>6. QED
  BY <1>2, <1>4, <1>5 DEF Typed

LEMMA AskDeadlineTyped ==
  ASSUME Typed, NEW l \in Learners, NEW o \in Orders, AskDeadline(l, o)
  PROVE  Typed'
<1>1. PICK days \in Windows \cup {1} :
        /\ MayCommit(o, days)
        /\ request' = [request EXCEPT ![l] = [order |-> o, days |-> days]]
  BY DEF AskDeadline
<1>2. /\ window[o] \in Nat /\ days \in Nat \ {0} /\ days <= window[o]
  BY <1>1 DEF MayCommit, Typed, TypeOK
<1>3. [order |-> o, days |-> days] \in Requests
  BY <1>2 DEF Requests
<1>4. TypeOK'
  BY <1>1, <1>3 DEF AskDeadline, Typed, TypeOK, orderVars, effectVars, learnerVars
<1>5. Busy'
  BY DEF AskDeadline, Typed, Busy
<1>6. Asked'
  <2> SUFFICES ASSUME NEW k \in Learners, request'[k] # NoRequest
               PROVE  /\ request'[k].order \in Orders
                      /\ request'[k].days \in Nat \ {0}
                      /\ source[request'[k].order] = "provisional"
                           => request'[k].days <= window[request'[k].order]
    BY DEF AskDeadline, Asked, orderVars
  <2>1. CASE k = l
    <3>1. request'[k] = [order |-> o, days |-> days]
      BY <1>1, <2>1 DEF Typed, TypeOK
    <3>2. QED
      BY <1>2, <3>1
  <2>2. CASE k # l
    <3>1. request'[k] = request[k]
      BY <1>1, <2>2 DEF Typed, TypeOK
    <3>2. QED
      BY <3>1 DEF Typed, Asked
  <2>3. QED
    BY <2>1, <2>2
<1>7. QED
  BY <1>4, <1>5, <1>6 DEF Typed

LEMMA SetDeadlineTyped ==
  ASSUME Typed, NEW l \in Learners, SetDeadline(l)
  PROVE  Typed'
<1> DEFINE o == request[l].order
           days == request[l].days
<1>1. o \in Orders /\ days \in Nat \ {0}
  BY DEF SetDeadline, Typed, Asked
<1>2. /\ request' = [request EXCEPT ![l] = NoRequest]
      /\ NoRequest \in Requests
  BY DEF SetDeadline, NoRequest, Requests
<1>3. \/ /\ window' = [window EXCEPT ![o] = days]
         /\ source' = [source EXCEPT ![o] = "learner"]
      \/ UNCHANGED <<window, source>>
  BY DEF SetDeadline
<1> HIDE DEF o, days
<1>4. /\ window' \in [Orders -> Nat \ {0}]
      /\ source' \in [Orders -> {"creator", "provisional", "learner"}]
  BY <1>1, <1>3 DEF Typed, TypeOK
<1>5. TypeOK'
  <2>1. request' \in [Learners -> Requests]
    BY <1>2 DEF Typed, TypeOK
  <2>2. QED
    BY <1>4, <2>1 DEF SetDeadline, Typed, TypeOK, effectVars, learnerVars
<1>6. Busy'
  BY DEF SetDeadline, Typed, Busy
<1>7. Asked'
  <2> SUFFICES ASSUME NEW k \in Learners, request'[k] # NoRequest
               PROVE  /\ request'[k].order \in Orders
                      /\ request'[k].days \in Nat \ {0}
                      /\ source'[request'[k].order] = "provisional"
                           => request'[k].days <= window'[request'[k].order]
    BY DEF Asked
  <2> DEFINE p == request[k].order
  <2>1. k # l /\ request'[k] = request[k]
    BY <1>2 DEF Typed, TypeOK
  <2>2. /\ p \in Orders /\ request[k].days \in Nat \ {0}
        /\ source[p] = "provisional" => request[k].days <= window[p]
    BY <2>1 DEF Typed, Asked
  <2> HIDE DEF p
  <2>3. source'[p] = "provisional" => source[p] = "provisional" /\ window'[p] = window[p]
    BY <1>1, <1>3, <2>2 DEF Typed, TypeOK
  <2>4. QED
    BY <2>1, <2>2, <2>3 DEF p
<1>8. QED
  BY <1>5, <1>6, <1>7 DEF Typed

LEMMA EnvironmentTyped ==
  ASSUME Typed, Tick \/ \E o \in Orders : Complete(o) \/ LoseEvent(o)
  PROVE  Typed'
<1>1. CASE Tick
  BY <1>1 DEF Tick, Typed, TypeOK, Busy, Asked, orderVars, effectVars, learnerVars
<1>2. ASSUME NEW o \in Orders, Complete(o) PROVE Typed'
  <2>1. completedAt' \in [Orders -> Instants \cup {None}] /\ events' \subseteq Orders
    BY <1>2 DEF Complete, Typed, TypeOK
  <2>2. QED
    BY <1>2, <2>1 DEF Complete, Typed, TypeOK, Busy, Asked, orderVars, effectVars
<1>3. ASSUME NEW o \in Orders, LoseEvent(o) PROVE Typed'
  <2>1. fails' \in 0..MaxFails /\ events' \subseteq Orders
    BY <1>3, EarnBackAssumption DEF LoseEvent, Typed, TypeOK
  <2>2. QED
    BY <1>3, <2>1 DEF LoseEvent, Typed, TypeOK, Busy, Asked, orderVars, effectVars
<1>4. QED
  BY <1>1, <1>2, <1>3

LEMMA TypedNext == Typed /\ [Next]_vars => Typed'
<1> SUFFICES ASSUME Typed, [Next]_vars PROVE Typed'
  OBVIOUS
<1>1. ASSUME NEW w \in Resolvers, Resolve(w) \/ SweepStart(w) \/ Fail(w)
      PROVE  Typed'
  BY <1>1, SweepCheckTyped, FlipTyped, EnqueuePayoutTyped, AnnounceTyped,
     SweepStartTyped, FailTyped DEF Resolve
<1>2. ASSUME NEW w \in Resolvers, NEW o \in Orders, HandleCompleted(w, o)
      PROVE  Typed'
  BY <1>2, HandleCompletedTyped
<1>3. ASSUME NEW l \in Learners, SetDeadline(l) \/ \E o \in Orders : AskDeadline(l, o)
      PROVE  Typed'
  BY <1>3, SetDeadlineTyped, AskDeadlineTyped
<1>4. CASE UNCHANGED vars
  BY <1>4 DEF vars, orderVars, effectVars, learnerVars, Typed, TypeOK, Busy, Asked
<1>5. QED
  BY <1>1, <1>2, <1>3, <1>4, EnvironmentTyped DEF Next

LEMMA TypedAlways == Spec => []Typed
BY TypedInit, TypedNext, PTL DEF Spec

(***************************************************************************)
(* Every variable keeps its type, for any number of orders and resolvers.  *)
(***************************************************************************)
THEOREM TypeCorrect == Spec => []TypeOK
<1>1. Typed => TypeOK
  BY DEF Typed
<1>2. QED
  BY <1>1, TypedAlways, PTL

----------------------------------------------------------------------------
(* One resolution.                                                         *)

IInv == Typed /\ ResolvedOnce /\ ForfeitMatchesRow

\* What the winning resolver writes.
LEMMA ResolveOrderWrites ==
  ASSUME IInv, NEW w \in Resolvers, At(w, "flip"), ResolveOrder(w)
  PROVE  LET o == resolver[w].order
             row == Result(w)
         IN  /\ o \in Orders
             /\ txns[o] = <<>> /\ forfeits[o] = <<>>
             /\ status' = [status EXCEPT ![o] = "earn_back_issued"]
             /\ txns' = [txns EXCEPT ![o] = <<row>>]
             /\ forfeits' = [forfeits EXCEPT ![o] =
                               IF row.instructor = 0 THEN <<>> ELSE <<row.instructor>>]
<1> DEFINE o == resolver[w].order
           row == Result(w)
<1>1. /\ o \in Orders /\ row.instructor \in Nat
      /\ platformOwned[o] => row.instructor = 0
  <2>1. TypeOK /\ Busy /\ resolver[w].pc \in {"flip", "enqueue", "announce"}
    BY DEF At, IInv, Typed
  <2>2. /\ o \in Orders /\ row \in Rows
        /\ platformOwned[o] => row.instructor = 0
    BY <2>1, ResultIsARow
  <2>3. QED
    BY <2>2 DEF Rows
<1>2. status[o] = "paid"
  BY DEF ResolveOrder
<1>3. txns[o] = <<>> /\ forfeits[o] = <<>>
  BY <1>1, <1>2 DEF IInv, ResolvedOnce, ForfeitMatchesRow
<1>4. /\ status' = [status EXCEPT ![o] = "earn_back_issued"]
      /\ txns' = [txns EXCEPT ![o] = Append(@, row)]
      /\ IF ~platformOwned[o] /\ row.instructor > 0
         THEN forfeits' = [forfeits EXCEPT ![o] = Append(@, row.instructor)]
         ELSE forfeits' = forfeits
  BY DEF ResolveOrder
<1> HIDE DEF o, row
<1>5. txns' = [txns EXCEPT ![o] = <<row>>]
  BY <1>3, <1>4
<1>6. forfeits' = [forfeits EXCEPT ![o] =
                    IF row.instructor = 0 THEN <<>> ELSE <<row.instructor>>]
  <2>1. CASE ~platformOwned[o] /\ row.instructor > 0
    BY <1>1, <1>3, <1>4, <2>1
  <2>2. CASE ~(~platformOwned[o] /\ row.instructor > 0)
    <3>1. row.instructor = 0
      BY <1>1, <2>2
    <3>2. forfeits' = forfeits
      BY <1>4, <2>2
    <3>3. forfeits = [forfeits EXCEPT ![o] = <<>>]
      BY <1>1, <1>3 DEF IInv, Typed, TypeOK
    <3>4. QED
      BY <3>1, <3>2, <3>3
  <2>3. QED
    BY <2>1, <2>2
<1>7. QED
  BY <1>1, <1>3, <1>4, <1>5, <1>6 DEF o, row

\* Only the flip of a paid order touches what a resolution is.
LEMMA OnlyFlipResolves ==
  ASSUME [Next]_vars
  PROVE  \/ \E w \in Resolvers : At(w, "flip") /\ ResolveOrder(w)
                                  /\ UNCHANGED <<base, platformOwned>>
         \/ UNCHANGED <<status, txns, forfeits, base, platformOwned>>
<1>1. ASSUME NEW w \in Resolvers, Resolve(w) \/ SweepStart(w) \/ Fail(w)
      PROVE  \/ At(w, "flip") /\ ResolveOrder(w) /\ UNCHANGED <<base, platformOwned>>
             \/ UNCHANGED <<status, txns, forfeits, base, platformOwned>>
  BY <1>1 DEF Resolve, SweepCheck, Flip, AlreadyResolved, EnqueuePayout, Announce,
              SweepStart, Fail, orderVars, effectVars
<1>2. ASSUME NEW w \in Resolvers, NEW o \in Orders, HandleCompleted(w, o)
      PROVE  UNCHANGED <<status, txns, forfeits, base, platformOwned>>
  BY <1>2 DEF HandleCompleted, orderVars, effectVars
<1>3. ASSUME NEW l \in Learners, SetDeadline(l) \/ \E o \in Orders : AskDeadline(l, o)
      PROVE  UNCHANGED <<status, txns, forfeits, base, platformOwned>>
  BY <1>3 DEF SetDeadline, AskDeadline, orderVars, effectVars
<1>4. ASSUME Tick \/ \E o \in Orders : Complete(o) \/ LoseEvent(o)
      PROVE  UNCHANGED <<status, txns, forfeits, base, platformOwned>>
  BY <1>4 DEF Tick, Complete, LoseEvent, orderVars, effectVars
<1>5. CASE UNCHANGED vars
  BY <1>5 DEF vars, orderVars, effectVars
<1>6. QED
  BY <1>1, <1>2, <1>3, <1>4, <1>5 DEF Next

LEMMA Inductive == IInv /\ [Next]_vars => IInv'
<1> SUFFICES ASSUME IInv, [Next]_vars PROVE IInv'
  OBVIOUS
<1>1. Typed'
  BY TypedNext DEF IInv
<1>2. ASSUME NEW w \in Resolvers, At(w, "flip"), ResolveOrder(w)
      PROVE  ResolvedOnce' /\ ForfeitMatchesRow'
  <2> DEFINE o == resolver[w].order
             row == Result(w)
  <2>1. /\ o \in Orders
        /\ status' = [status EXCEPT ![o] = "earn_back_issued"]
        /\ txns' = [txns EXCEPT ![o] = <<row>>]
        /\ forfeits' = [forfeits EXCEPT ![o] =
                          IF row.instructor = 0 THEN <<>> ELSE <<row.instructor>>]
    BY <1>2, ResolveOrderWrites
  <2> HIDE DEF o, row
  <2>2. /\ status \in [Orders -> {"paid", "earn_back_issued"}]
        /\ txns \in [Orders -> Seq(Rows)] /\ forfeits \in [Orders -> Seq(Nat)]
    BY DEF IInv, Typed, TypeOK
  <2>3. /\ status'[o] = "earn_back_issued" /\ txns'[o] = <<row>>
        /\ forfeits'[o] = IF row.instructor = 0 THEN <<>> ELSE <<row.instructor>>
    BY <2>1, <2>2
  <2>4. \A p \in Orders \ {o} : /\ status'[p] = status[p] /\ txns'[p] = txns[p]
                                 /\ forfeits'[p] = forfeits[p]
    BY <2>1, <2>2
  <2>5. ResolvedOnce'
    <3> SUFFICES ASSUME NEW p \in Orders
                 PROVE  /\ Len(txns'[p]) <= 1
                        /\ status'[p] = "earn_back_issued" <=> txns'[p] # <<>>
      BY DEF ResolvedOnce
    <3>1. CASE p = o
      <4>1. Len(<<row>>) = 1 /\ <<row>> # <<>>
        OBVIOUS
      <4>2. txns'[p] = <<row>> /\ status'[p] = "earn_back_issued"
        BY <2>3, <3>1
      <4>3. QED
        BY <4>1, <4>2
    <3>2. CASE p # o
      BY <2>4, <3>2 DEF IInv, ResolvedOnce
    <3>3. QED
      BY <3>1, <3>2
  <2>6. ForfeitMatchesRow'
    <3> SUFFICES ASSUME NEW p \in Orders
                 PROVE  forfeits'[p] = IF txns'[p] = <<>> \/ Newest(p)'.instructor = 0
                                       THEN <<>> ELSE <<Newest(p)'.instructor>>
      BY DEF ForfeitMatchesRow
    <3>1. CASE p = o
      <4>1. <<row>> # <<>> /\ <<row>>[Len(<<row>>)] = row
        OBVIOUS
      <4>2. txns'[p] = <<row>> /\ Newest(p)' = row
        BY <2>3, <3>1, <4>1 DEF Newest
      <4>3. QED
        BY <2>3, <3>1, <4>1, <4>2
    <3>2. CASE p # o
      BY <2>4, <3>2 DEF IInv, ForfeitMatchesRow, Newest
    <3>3. QED
      BY <3>1, <3>2
  <2>7. QED
    BY <2>5, <2>6
<1>3. ASSUME UNCHANGED <<status, txns, forfeits, base, platformOwned>>
      PROVE  ResolvedOnce' /\ ForfeitMatchesRow'
  BY <1>3 DEF IInv, ResolvedOnce, ForfeitMatchesRow, Newest
<1>4. ResolvedOnce' /\ ForfeitMatchesRow'
  BY <1>2, <1>3, OnlyFlipResolves
<1>5. QED
  BY <1>1, <1>4 DEF IInv

LEMMA IInvAlways == Spec => []IInv
<1>1. Init => IInv
  BY TypedInit DEF Init, IInv, ResolvedOnce, ForfeitMatchesRow
<1>2. QED
  BY <1>1, Inductive, PTL DEF Spec

(***************************************************************************)
(* However many handlers and sweeps race for an order, it gets one row,    *)
(* when and only when it is issued.                                        *)
(***************************************************************************)
THEOREM OneResolution == Spec => []ResolvedOnce
<1>1. IInv => ResolvedOnce
  BY DEF IInv
<1>2. QED
  BY <1>1, IInvAlways, PTL

(***************************************************************************)
(* The creator's payout row is what that one row gives the creator.        *)
(***************************************************************************)
THEOREM CreatorPaidTheCut == Spec => []ForfeitMatchesRow
<1>1. IInv => ForfeitMatchesRow
  BY DEF IInv
<1>2. QED
  BY <1>1, IInvAlways, PTL

----------------------------------------------------------------------------
(* Refinement, and the learner's deadline.                                 *)

\* The refinement mapping, as Escrows substitutes it.
Shares == [o \in Orders |->
             IF txns[o] = <<>> THEN None
             ELSE [learner |-> Newest(o).refund,
                   creator |-> Newest(o).instructor,
                   platform |-> Newest(o).platform]]

LEMMA StepDistributes ==
  ASSUME IInv, NEW w \in Resolvers, At(w, "flip"), ResolveOrder(w),
         UNCHANGED <<base, platformOwned>>
  PROVE  Escrows!Next
<1> DEFINE o == resolver[w].order
           row == Result(w)
           share == [learner |-> row.refund, creator |-> row.instructor,
                     platform |-> base[o] - row.refund - row.instructor]
<1>1. /\ o \in Orders /\ txns[o] = <<>>
      /\ txns' = [txns EXCEPT ![o] = <<row>>]
  BY ResolveOrderWrites
<1>2. /\ base[o] \in Nat
      /\ row.refund \in 0..base[o] /\ row.instructor \in 0..base[o]
      /\ row.platform \in Nat
      /\ row.platform = base[o] - row.refund - row.instructor
  <2>1. TypeOK /\ Busy /\ resolver[w].pc \in {"flip", "enqueue", "announce"}
    BY DEF At, IInv, Typed
  <2>2. /\ base[o] \in Nat /\ row \in Rows
        /\ row.refund \in 0..base[o] /\ row.instructor \in 0..base[o]
        /\ row.platform = base[o] - row.refund - row.instructor
    BY <2>1, ResultIsARow
  <2>3. QED
    BY <2>2 DEF Rows
<1> HIDE DEF o, row
<1>3. row.instructor \in 0..(base[o] - row.refund)
  BY <1>2
<1>4. txns \in [Orders -> Seq(Rows)]
  BY DEF IInv, Typed, TypeOK
<1>5. Shares[o] = None
  BY <1>1 DEF Shares
<1>6. Shares' = [Shares EXCEPT ![o] = share]
  <2>1. ASSUME NEW p \in Orders \ {o} PROVE txns'[p] = txns[p]
    BY <1>1, <1>4
  <2>2. txns'[o] = <<row>> /\ <<row>> # <<>> /\ <<row>>[Len(<<row>>)] = row
    BY <1>1, <1>4
  <2>3. Shares'[o] = share
    BY <1>1, <1>2, <2>2 DEF Shares, Newest
  <2>4. ASSUME NEW p \in Orders \ {o} PROVE Shares'[p] = Shares[p]
    BY <2>1, <2>4 DEF Shares, Newest
  <2>5. Shares = [p \in Orders |-> Shares[p]] /\ Shares' = [p \in Orders |-> Shares'[p]]
    BY DEF Shares
  <2> HIDE DEF Shares, share
  <2>6. QED
    BY <1>1, <2>3, <2>4, <2>5
<1>7. Escrows!Distribute(o)
  BY <1>2, <1>3, <1>5, <1>6 DEF Escrows!Distribute, Shares, o
<1>8. QED
  BY <1>1, <1>7 DEF Escrows!Next, Escrows!Distribute

(***************************************************************************)
(* Handlers, sweeps, crashes and deadline requests implement the escrow.   *)
(***************************************************************************)
THEOREM Implements == Spec => ImplementsEscrow
<1>1. Init => Escrows!Init
  BY EarnBackAssumption DEF Init, Escrows!Init
<1>2. IInv /\ [Next]_vars => [Escrows!Next]_<<base, Shares>>
  <2> SUFFICES ASSUME IInv, [Next]_vars
               PROVE  Escrows!Next \/ UNCHANGED <<base, Shares>>
    OBVIOUS
  <2>1. CASE UNCHANGED <<status, txns, forfeits, base, platformOwned>>
    BY <2>1 DEF Shares, Newest
  <2>2. QED
    BY <2>1, OnlyFlipResolves, StepDistributes
<1>3. QED
  BY <1>1, <1>2, IInvAlways, PTL DEF Spec, ImplementsEscrow, Escrows!Spec, Shares

(***************************************************************************)
(* A deadline is moved by the learner, once, and never to a later day.     *)
(***************************************************************************)
THEOREM DeadlineOnlyShortens == Spec => DeadlineLocked
<1> DEFINE Locked == \A o \in Orders : window'[o] # window[o] =>
                       source[o] = "provisional" /\ source'[o] = "learner"
                         /\ window'[o] <= window[o]
<1>1. ASSUME Typed, NEW l \in Learners, SetDeadline(l) PROVE Locked
  <2> DEFINE o == request[l].order
             days == request[l].days
  <2>1. /\ o \in Orders /\ days \in Nat
        /\ source[o] = "provisional" => days <= window[o]
    BY <1>1 DEF SetDeadline, Typed, Asked
  <2>2. CASE source[o] = "provisional"
    <3>1. /\ window' = [window EXCEPT ![o] = days]
          /\ source' = [source EXCEPT ![o] = "learner"]
      BY <1>1, <2>2 DEF SetDeadline
    <3> HIDE DEF o, days
    <3>2. QED
      BY <1>1, <2>1, <2>2, <3>1 DEF Typed, TypeOK
  <2>3. CASE source[o] # "provisional"
    BY <1>1, <2>3 DEF SetDeadline
  <2>4. QED
    BY <2>2, <2>3
<1>2. Typed /\ [Next]_vars => [Locked]_vars
  <2> SUFFICES ASSUME Typed, Next PROVE Locked
    OBVIOUS
  <2>1. ASSUME NEW w \in Resolvers, Resolve(w) \/ SweepStart(w) \/ Fail(w)
        PROVE  UNCHANGED window
    BY <2>1 DEF Resolve, SweepCheck, Flip, EnqueuePayout, Announce, SweepStart,
                Fail, orderVars
  <2>2. ASSUME NEW w \in Resolvers, NEW o \in Orders, HandleCompleted(w, o)
        PROVE  UNCHANGED window
    BY <2>2 DEF HandleCompleted, orderVars
  <2>3. ASSUME NEW l \in Learners, NEW o \in Orders, AskDeadline(l, o)
        PROVE  UNCHANGED window
    BY <2>3 DEF AskDeadline, orderVars
  <2>4. ASSUME Tick \/ \E o \in Orders : Complete(o) \/ LoseEvent(o)
        PROVE  UNCHANGED window
    BY <2>4 DEF Tick, Complete, LoseEvent, orderVars
  <2>5. UNCHANGED window => Locked
    OBVIOUS
  <2> HIDE DEF Locked
  <2>6. QED
    BY <1>1, <2>1, <2>2, <2>3, <2>4, <2>5 DEF Next
<1>3. QED
  BY <1>2, TypedAlways, PTL DEF Spec, DeadlineLocked

----------------------------------------------------------------------------
(* The refund is the one that was earned.                                  *)

\* A window of so many days as instants, and the grace a sweep leaves after it.
Days(n) == n * UnitsPerDay
Grace == MaxLateDays * UnitsPerDay

\* The refund of an escrow b whose learner, promised n days, finished at c.
Earned(b, n, c) == b - Forfeited(b, DaysLate(Days(n), c, UnitsPerDay))

LEMMA DaysNat == \A n \in Nat : Days(n) \in Nat
BY EarnBackAssumption, TimesMonotone DEF Days

LEMMA DaysMonotone ==
  ASSUME NEW n \in Nat, NEW m \in Nat, n <= m
  PROVE  Days(n) <= Days(m)
<1>1. UnitsPerDay * n <= UnitsPerDay * m
  BY EarnBackAssumption, TimesMonotone
<1>2. n * UnitsPerDay = UnitsPerDay * n /\ m * UnitsPerDay = UnitsPerDay * m
  BY EarnBackAssumption
<1>3. QED
  BY <1>1, <1>2 DEF Days

\* A shorter promise never earns more ...
LEMMA EarnedMonotone ==
  ASSUME NEW b \in Nat, NEW n \in Nat, NEW m \in Nat, n <= m, NEW c \in Nat
  PROVE  Earned(b, n, c) \in 0..b /\ Earned(b, n, c) <= Earned(b, m, c)
<1> DEFINE d == DaysLate(Days(n), c, UnitsPerDay)
           e == DaysLate(Days(m), c, UnitsPerDay)
<1>1. Days(n) \in Nat /\ Days(m) \in Nat /\ Days(n) <= Days(m)
  BY DaysNat, DaysMonotone
<1>2. d \in Nat /\ e \in Nat /\ e <= d
  BY <1>1, EarnBackAssumption, DaysLateNat, DaysLateMonotone
<1> HIDE DEF d, e
<1>3. /\ Forfeited(b, d) \in 0..b /\ Forfeited(b, e) \in 0..b
      /\ Forfeited(b, e) <= Forfeited(b, d)
  BY <1>2, ForfeitedBounds, ForfeitedMonotone
<1>4. QED
  BY <1>3 DEF Earned, d, e

\* ... and finishing after the grace earns nothing.
LEMMA NothingAfterGrace ==
  ASSUME NEW b \in Nat, NEW n \in Nat, NEW c \in Nat, Days(n) + Grace < c
  PROVE  Earned(b, n, c) = 0
<1> DEFINE x == AtLeastZero(c - Days(n))
<1>1. Days(n) \in Nat /\ UnitsPerDay \in Nat \ {0}
  BY DaysNat, EarnBackAssumption
<1>2. x \in Nat /\ UnitsPerDay * 50 <= x
  BY <1>1 DEF AtLeastZero, Grace, MaxLateDays
<1> HIDE DEF x
<1>3. 50 <= x \div UnitsPerDay /\ x \div UnitsPerDay \in Nat
  BY <1>1, <1>2, DivisionPasses, DivisionBounds
<1>4. Forfeited(b, x \div UnitsPerDay) = b
  BY <1>3, ForfeitedAtCap DEF MaxLateDays
<1>5. QED
  BY <1>4 DEF Earned, DaysLate, x

\* What a resolution refunds, from the snapshot it works on.
LEMMA ResolutionRefund ==
  ASSUME TypeOK, NEW o \in Orders, NEW deadline, NEW completed
  PROVE  Resolution(o, deadline, completed).refund =
           IF completed = None THEN 0
           ELSE base[o] - Forfeited(base[o], DaysLate(deadline, completed,
                                                      UnitsPerDay))
<1>1. base[o] \in Nat
  BY EarnBackAssumption DEF TypeOK
<1>2. Forfeited(base[o], MaxLateDays) = base[o]
  BY <1>1, ForfeitedAtCap DEF MaxLateDays
<1>3. QED
  BY <1>1, <1>2 DEF Resolution, CalculateEarnBack

\* The window win of an order lapsed, grace and all, before instant t, and
\* the learner did not finish before that (done, None while not finished).
Lapsed(win, done, t) ==
  Days(win) + Grace < t /\ (done # None => Days(win) + Grace < done)

\* What a resolver with locals l knows of the orders it works on, given the
\* orders' windows, sources and completions at instant t: a handler holds the
\* completion and a deadline that only the learner has shortened since; a
\* sweep holds orders that had lapsed before it looked.
Fits(l, win, src, done, t) ==
  /\ l.pc = "check" => l.completed = None
  /\ l.pc = "flip" /\ l.completed # None =>
       /\ l.completed = done[l.order]
       /\ Days(win[l.order]) <= l.deadline
       /\ src[l.order] # "learner" => l.deadline = Days(win[l.order])
  /\ l.pc = "flip" /\ l.completed = None => Lapsed(win[l.order], done[l.order], t)
  /\ \A o \in l.todo : Days(win[o]) + Grace < t

\* What the refund of a resolved order is worth.
Fair(refund, b, win, src, done, t) ==
  IF done = None
  THEN refund = 0 /\ Days(win) + Grace < t
  ELSE /\ refund >= Earned(b, win, done)
       /\ src # "learner" => refund = Earned(b, win, done)

FairRows == \A o \in Orders : txns[o] # <<>> =>
  Fair(Newest(o).refund, base[o], window[o], source[o], completedAt[o], now)

EInv == /\ IInv
        /\ \A o \in events : completedAt[o] # None
        /\ \A w \in Resolvers :
             Fits(resolver[w], window, source, completedAt, now)
        /\ FairRows

----------------------------------------------------------------------------
(* What any step does to the columns those facts are about.                *)

Drift ==
  /\ now \in Nat /\ now' \in Nat /\ now <= now'
  /\ \A o \in Orders :
       /\ base'[o] = base[o]
       /\ window[o] \in Nat /\ window'[o] \in Nat /\ window'[o] <= window[o]
       /\ source'[o] # "learner" => window'[o] = window[o] /\ source[o] # "learner"
       /\ completedAt[o] \in Nat \cup {None}
       /\ \/ completedAt'[o] = completedAt[o]
          \/ completedAt[o] = None /\ completedAt'[o] = now

LEMMA Drifts ==
  ASSUME Typed, [Next]_vars
  PROVE  Drift
<1>t. /\ now \in Nat /\ window \in [Orders -> Nat \ {0}]
      /\ source \in [Orders -> {"creator", "provisional", "learner"}]
      /\ completedAt \in [Orders -> Nat \cup {None}]
  BY EarnBackAssumption DEF Typed, TypeOK
<1>1. CASE UNCHANGED <<base, window, source, completedAt, now>>
  BY <1>t, <1>1 DEF Drift
<1>2. CASE Tick
  <2>1. UNCHANGED <<base, window, source, completedAt>>
    BY <1>2 DEF Tick, orderVars, learnerVars
  <2>2. now' \in Nat /\ now <= now'
    BY <1>t, <1>2, EarnBackAssumption DEF Tick
  <2>3. QED
    BY <1>t, <2>1, <2>2 DEF Drift
<1>3. ASSUME NEW o \in Orders, Complete(o) PROVE Drift
  <2>1. UNCHANGED <<base, window, source, now>>
    BY <1>3 DEF Complete, orderVars
  <2>2. completedAt[o] = None /\ completedAt' = [completedAt EXCEPT ![o] = now]
    BY <1>3 DEF Complete
  <2>3. QED
    BY <1>t, <2>1, <2>2 DEF Drift
<1>4. ASSUME NEW l \in Learners, SetDeadline(l) PROVE Drift
  <2> DEFINE o == request[l].order
             days == request[l].days
  <2>1. /\ o \in Orders /\ days \in Nat
        /\ source[o] = "provisional" => days <= window[o]
    BY <1>4 DEF SetDeadline, Typed, Asked
  <2>2. UNCHANGED <<base, completedAt, now>>
    BY <1>4 DEF SetDeadline, learnerVars
  <2>3. \/ UNCHANGED <<window, source>>
        \/ /\ source[o] = "provisional"
           /\ window' = [window EXCEPT ![o] = days]
           /\ source' = [source EXCEPT ![o] = "learner"]
    BY <1>4 DEF SetDeadline
  <2> HIDE DEF o, days
  <2>4. QED
    BY <1>t, <2>1, <2>2, <2>3 DEF Drift
<1>5. ASSUME NEW w \in Resolvers, Resolve(w) \/ SweepStart(w) \/ Fail(w)
      PROVE  UNCHANGED <<base, window, source, completedAt, now>>
  BY <1>5 DEF Resolve, SweepCheck, Flip, EnqueuePayout, Announce, SweepStart,
              Fail, orderVars, learnerVars
<1>6. ASSUME NEW w \in Resolvers, NEW o \in Orders, HandleCompleted(w, o)
      PROVE  UNCHANGED <<base, window, source, completedAt, now>>
  BY <1>6 DEF HandleCompleted, orderVars
<1>7. ASSUME NEW l \in Learners, NEW o \in Orders, AskDeadline(l, o)
      PROVE  UNCHANGED <<base, window, source, completedAt, now>>
  BY <1>7 DEF AskDeadline, orderVars, learnerVars
<1>8. ASSUME NEW o \in Orders, LoseEvent(o)
      PROVE  UNCHANGED <<base, window, source, completedAt, now>>
  BY <1>8 DEF LoseEvent, orderVars
<1>9. CASE UNCHANGED vars
  BY <1>1, <1>9 DEF vars, orderVars, learnerVars
<1>10. QED
  BY <1>1, <1>2, <1>3, <1>4, <1>5, <1>6, <1>7, <1>8, <1>9 DEF Next

LEMMA GraceNat == Grace \in Nat
BY EarnBackAssumption DEF Grace, MaxLateDays

LEMMA FitsKept ==
  ASSUME Drift, NEW l \in Resolutions, l.pc = "flip" => l.order \in Orders,
         Fits(l, window, source, completedAt, now)
  PROVE  Fits(l, window', source', completedAt', now')
<1> DEFINE o == l.order
<1>d. \A p \in Orders :
        /\ Days(window[p]) \in Nat /\ Days(window'[p]) \in Nat
        /\ Days(window'[p]) <= Days(window[p])
  BY DaysNat, DaysMonotone DEF Drift
<1>g. Grace \in Nat /\ now \in Nat /\ now' \in Nat /\ now <= now'
  BY GraceNat DEF Drift
<1>l. /\ l.deadline \in Nat /\ l.completed \in Nat \cup {None}
      /\ l.todo \subseteq Orders
  BY DEF Resolutions
<1>1. ASSUME l.pc = "flip", l.completed # None
      PROVE  /\ l.completed = completedAt'[o]
             /\ Days(window'[o]) <= l.deadline
             /\ source'[o] # "learner" => l.deadline = Days(window'[o])
  <2>1. /\ o \in Orders /\ l.completed = completedAt[o]
        /\ Days(window[o]) <= l.deadline
        /\ source[o] # "learner" => l.deadline = Days(window[o])
    BY <1>1 DEF Fits
  <2> HIDE DEF o
  <2>2. completedAt'[o] = completedAt[o]
    BY <1>1, <2>1 DEF Drift
  <2>3. source'[o] # "learner" => window'[o] = window[o] /\ source[o] # "learner"
    BY <2>1 DEF Drift
  <2>4. QED
    BY <1>d, <1>l, <2>1, <2>2, <2>3
<1>2. ASSUME l.pc = "flip", l.completed = None
      PROVE  Lapsed(window'[o], completedAt'[o], now')
  <2>1. o \in Orders /\ Lapsed(window[o], completedAt[o], now)
    BY <1>2 DEF Fits
  <2> HIDE DEF o
  <2>2. completedAt[o] \in Nat \cup {None}
    BY <2>1 DEF Drift
  <2>3. Days(window'[o]) + Grace < now'
    BY <1>d, <1>g, <2>1 DEF Lapsed
  <2>4. CASE completedAt[o] = None /\ completedAt'[o] = now
    BY <1>d, <1>g, <2>1, <2>3, <2>4 DEF Lapsed
  <2>5. CASE completedAt'[o] = completedAt[o]
    BY <1>d, <1>g, <2>1, <2>2, <2>3, <2>5 DEF Lapsed
  <2>6. QED
    BY <2>1, <2>4, <2>5 DEF Drift
<1>3. ASSUME NEW p \in l.todo
      PROVE  Days(window'[p]) + Grace < now'
  <2>1. p \in Orders /\ Days(window[p]) + Grace < now
    BY <1>l, <1>3 DEF Fits
  <2>2. QED
    BY <1>d, <1>g, <2>1
<1>4. l.pc = "check" => l.completed = None
  BY DEF Fits
<1>5. QED
  BY <1>1, <1>2, <1>3, <1>4 DEF Fits

LEMMA FairKept ==
  ASSUME Drift, NEW o \in Orders, NEW refund \in Nat, base[o] \in Nat,
         completedAt[o] \in Nat \cup {None},
         Fair(refund, base[o], window[o], source[o], completedAt[o], now)
  PROVE  Fair(refund, base'[o], window'[o], source'[o], completedAt'[o], now')
<1>d. /\ window[o] \in Nat /\ window'[o] \in Nat /\ window'[o] <= window[o]
      /\ base'[o] = base[o]
      /\ now \in Nat /\ now' \in Nat /\ now <= now'
      /\ source'[o] # "learner" => window'[o] = window[o] /\ source[o] # "learner"
      /\ Days(window[o]) \in Nat /\ Days(window'[o]) \in Nat
      /\ Days(window'[o]) <= Days(window[o])
      /\ Grace \in Nat
  BY DaysNat, DaysMonotone, GraceNat DEF Drift
<1>1. CASE completedAt[o] = None /\ completedAt'[o] = None
  BY <1>d, <1>1 DEF Fair
<1>2. CASE completedAt[o] = None /\ completedAt'[o] = now
  <2>1. refund = 0 /\ Days(window'[o]) + Grace < now /\ now # None
    BY <1>d, <1>2, EarnBackAssumption DEF Fair
  <2>2. Earned(base[o], window'[o], now) = 0
    BY <1>d, <2>1, NothingAfterGrace
  <2>3. QED
    BY <1>d, <1>2, <2>1, <2>2 DEF Fair
<1>3. CASE completedAt[o] # None /\ completedAt'[o] = completedAt[o]
  <2> DEFINE old == Earned(base[o], window[o], completedAt[o])
             new == Earned(base[o], window'[o], completedAt[o])
  <2>1. old \in 0..base[o] /\ new \in 0..base[o] /\ new <= old
    <3>1. completedAt[o] \in Nat
      BY <1>3
    <3>2. old \in 0..base[o]
      <4>1. window[o] <= window[o]
        BY <1>d
      <4>2. QED
        BY <1>d, <3>1, <4>1, EarnedMonotone
    <3>3. new \in 0..base[o] /\ new <= old
      BY <1>d, <3>1, EarnedMonotone
    <3>4. QED
      BY <3>2, <3>3
  <2>2. refund >= old /\ (source[o] # "learner" => refund = old)
    BY <1>3 DEF Fair
  <2>3. source'[o] # "learner" => new = old /\ refund = old
    BY <1>d, <2>2
  <2> HIDE DEF old, new
  <2>4. refund >= new /\ (source'[o] # "learner" => refund = new)
    BY <2>1, <2>2, <2>3
  <2>5. QED
    BY <1>d, <1>3, <2>4 DEF Fair, new
<1>4. QED
  BY <1>1, <1>2, <1>3 DEF Drift

LEMMA BecomeFits ==
  ASSUME EInv, Drift, NEW w \in Resolvers, NEW l, Become(w, l),
         Fits(l, window', source', completedAt', now')
  PROVE  \A v \in Resolvers :
           Fits(resolver'[v], window', source', completedAt', now')
<1>1. \A v \in Resolvers : resolver'[v] = IF v = w THEN l ELSE resolver[v]
  BY DEF EInv, IInv, Typed, TypeOK, Become
<1>2. \A v \in Resolvers :
        Fits(resolver[v], window', source', completedAt', now')
  BY FitsKept DEF EInv, IInv, Typed, TypeOK, Busy
<1>3. QED
  BY <1>1, <1>2

LEMMA OthersFit ==
  ASSUME EInv, Drift, UNCHANGED resolver
  PROVE  \A v \in Resolvers :
           Fits(resolver'[v], window', source', completedAt', now')
BY FitsKept DEF EInv, IInv, Typed, TypeOK, Busy

\* What is busy with nothing, or with the announcements only, needs no facts.
LEMMA IdleFits ==
  ASSUME NEW win, NEW src, NEW done, NEW t
  PROVE  Fits(Idle, win, src, done, t)
BY DEF Idle, Fits

LEMMA ResolverFits ==
  ASSUME EInv, Drift, NEW w \in Resolvers,
         \/ Resolve(w) \/ SweepStart(w) \/ Fail(w)
         \/ \E o \in Orders : HandleCompleted(w, o)
  PROVE  \A v \in Resolvers :
           Fits(resolver'[v], window', source', completedAt', now')
<1>t. /\ resolver[w] \in Resolutions /\ TypeOK
      /\ Fits(resolver[w], window, source, completedAt, now)
  BY DEF EInv, IInv, Typed, TypeOK
<1>m. UNCHANGED <<window, source, completedAt, now>>
  BY DEF Resolve, SweepCheck, Flip, EnqueuePayout, Announce, SweepStart, Fail,
         HandleCompleted, orderVars, learnerVars
<1> DEFINE fits(l) == Fits(l, window, source, completedAt, now)
           sweeping(todo) == [Idle EXCEPT !.pc = "check", !.todo = todo]
           to(pc) == [resolver[w] EXCEPT !.pc = pc]
<1>s. \A todo : (\A o \in todo : Days(window[o]) + Grace < now)
                  => fits(sweeping(todo))
  <2> SUFFICES ASSUME NEW todo, \A o \in todo : Days(window[o]) + Grace < now
               PROVE  fits(sweeping(todo))
    OBVIOUS
  <2>1. /\ sweeping(todo).pc = "check" /\ sweeping(todo).todo = todo
        /\ sweeping(todo).completed = None
    BY DEF Idle
  <2> HIDE DEF sweeping
  <2>2. QED
    BY <2>1 DEF Fits
<1>g. \A pc : pc \notin {"check", "flip"} => fits(to(pc))
  <2> SUFFICES ASSUME NEW pc, pc \notin {"check", "flip"} PROVE fits(to(pc))
    OBVIOUS
  <2>1. to(pc).pc = pc /\ to(pc).todo = resolver[w].todo
    BY <1>t DEF Resolutions
  <2> HIDE DEF to
  <2>2. QED
    BY <1>t, <2>1 DEF Fits
<1>i. fits(Idle)
  BY IdleFits
<1> SUFFICES UNCHANGED resolver \/ \E l : Become(w, l) /\ fits(l)
  BY <1>m, OthersFit, BecomeFits
<1>1. ASSUME NEW o \in Orders, HandleCompleted(w, o)
      PROVE  UNCHANGED resolver \/ \E l : Become(w, l) /\ fits(l)
  <2>1. CASE status[o] # "paid"
    BY <1>1, <2>1 DEF HandleCompleted
  <2>2. CASE status[o] = "paid"
    <3> DEFINE l == [Idle EXCEPT !.pc = "flip", !.order = o,
                                 !.deadline = Deadline(o),
                                 !.completed = completedAt[o]]
    <3>1. Become(w, l)
      BY <1>1, <2>2 DEF HandleCompleted
    <3>2. completedAt[o] # None
      BY <1>1 DEF HandleCompleted, EInv
    <3>3. /\ l.pc = "flip" /\ l.order = o /\ l.deadline = Days(window[o])
          /\ l.completed = completedAt[o] /\ l.todo = {}
      BY DEF Idle, Deadline, Days
    <3>4. Days(window[o]) \in Nat
      BY <1>t, DaysNat DEF TypeOK
    <3> HIDE DEF l
    <3>5. fits(l)
      BY <3>2, <3>3, <3>4 DEF Fits
    <3>6. QED
      BY <3>1, <3>5
  <2>3. QED
    BY <2>1, <2>2
<1>2. CASE SweepStart(w)
  <2>1. PICK page \in SUBSET Due : Become(w, sweeping(page))
    BY <1>2 DEF SweepStart
  <2>2. \A o \in Due : Days(window[o]) + Grace < now
    <3> SUFFICES ASSUME NEW o \in Due PROVE Days(window[o]) + Grace < now
      OBVIOUS
    <3>1. o \in Orders /\ Days(window[o]) < now - Grace
      BY DEF Due, Deadline, Days, Grace
    <3>2. Days(window[o]) \in Nat /\ now \in Nat /\ Grace \in Nat
      BY <1>t, <3>1, DaysNat, GraceNat, EarnBackAssumption DEF TypeOK
    <3>3. QED
      BY <3>1, <3>2
  <2>3. fits(sweeping(page))
    BY <1>s, <2>2
  <2>4. QED
    BY <2>1, <2>3
<1>3. CASE SweepCheck(w)
  <2>1. PICK o \in resolver[w].todo :
          LET rest == resolver[w].todo \ {o}
          IN  IF completedAt[o] # None
              THEN Become(w, IF rest = {} THEN Idle
                                          ELSE [resolver[w] EXCEPT !.todo = rest])
              ELSE Become(w, [resolver[w] EXCEPT !.pc = "flip", !.order = o,
                                                 !.todo = rest])
    BY <1>3 DEF SweepCheck
  <2> DEFINE rest == resolver[w].todo \ {o}
  <2>2. \A p \in resolver[w].todo : Days(window[p]) + Grace < now
    BY <1>t DEF Fits
  <2>c. resolver[w].completed = None
    BY <1>t, <1>3 DEF Fits, SweepCheck, At
  <2>3. fits([resolver[w] EXCEPT !.todo = rest])
    <3> DEFINE l == [resolver[w] EXCEPT !.todo = rest]
    <3>1. /\ l.pc = "check" /\ l.todo = rest
          /\ l.completed = resolver[w].completed
      BY <1>t, <1>3 DEF Resolutions, SweepCheck, At
    <3> HIDE DEF l
    <3>2. fits(l)
      BY <2>2, <2>c, <3>1 DEF Fits
    <3>3. QED
      BY <3>2 DEF l
  <2>4. ASSUME completedAt[o] = None,
               Become(w, [resolver[w] EXCEPT !.pc = "flip", !.order = o,
                                             !.todo = rest])
        PROVE  \E l : Become(w, l) /\ fits(l)
    <3> DEFINE l == [resolver[w] EXCEPT !.pc = "flip", !.order = o, !.todo = rest]
    <3>p. l.pc = "flip"
      BY <1>t DEF Resolutions
    <3>1. /\ l.order = o /\ l.todo = rest /\ l.completed = resolver[w].completed
      BY <1>t DEF Resolutions
    <3>2. l.completed = None
      BY <2>c, <3>1
    <3>3. Become(w, l)
      BY <2>4
    <3> HIDE DEF l
    <3>4. fits(l)
      BY <2>2, <2>4, <3>1, <3>2, <3>p DEF Fits, Lapsed
    <3>5. QED
      BY <3>3, <3>4
  <2>5. QED
    BY <1>i, <2>1, <2>3, <2>4
<1>4. CASE Flip(w) \/ EnqueuePayout(w)
  BY <1>4, <1>g DEF Flip, ResolveOrder, AlreadyResolved, EnqueuePayout, Goto
<1>5. CASE Announce(w)
  <2>1. fits(sweeping(resolver[w].todo))
    BY <1>s, <1>t DEF Fits
  <2>2. QED
    BY <1>5, <1>i, <2>1 DEF Announce, Return
<1>6. CASE Fail(w)
  BY <1>6, <1>i DEF Fail
<1>7. QED
  BY <1>1, <1>2, <1>3, <1>4, <1>5, <1>6 DEF Resolve

LEMMA EventsCompleted ==
  ASSUME EInv, [Next]_vars
  PROVE  \A o \in events' : completedAt'[o] # None
<1>t. /\ \A o \in events : completedAt[o] # None
      /\ completedAt \in [Orders -> Instants \cup {None}]
      /\ now \in Nat /\ events \subseteq Orders
  BY EarnBackAssumption DEF EInv, IInv, Typed, TypeOK
<1>1. CASE completedAt' = completedAt /\ events' \subseteq events
  BY <1>t, <1>1
<1>2. ASSUME NEW o \in Orders, Complete(o)
      PROVE  \A p \in events' : completedAt'[p] # None
  BY <1>t, <1>2, EarnBackAssumption DEF Complete
<1>3. ASSUME NEW w \in Resolvers, Resolve(w) \/ SweepStart(w) \/ Fail(w)
      PROVE  UNCHANGED <<completedAt, events>>
  BY <1>3 DEF Resolve, SweepCheck, Flip, EnqueuePayout, Announce, SweepStart,
              Fail, learnerVars
<1>4. ASSUME NEW w \in Resolvers, NEW o \in Orders, HandleCompleted(w, o)
      PROVE  completedAt' = completedAt /\ events' \subseteq events
  BY <1>4 DEF HandleCompleted
<1>5. ASSUME NEW l \in Learners, SetDeadline(l) \/ \E o \in Orders : AskDeadline(l, o)
      PROVE  UNCHANGED <<completedAt, events>>
  BY <1>5 DEF SetDeadline, AskDeadline, learnerVars
<1>6. ASSUME Tick \/ UNCHANGED vars \/ \E o \in Orders : LoseEvent(o)
      PROVE  completedAt' = completedAt /\ events' \subseteq events
  BY <1>6 DEF Tick, LoseEvent, vars, learnerVars
<1>7. QED
  BY <1>1, <1>2, <1>3, <1>4, <1>5, <1>6 DEF Next

LEMMA AllFit ==
  ASSUME EInv, Drift, [Next]_vars
  PROVE  \A v \in Resolvers :
           Fits(resolver'[v], window', source', completedAt', now')
<1>1. ASSUME NEW l \in Learners, SetDeadline(l) \/ \E o \in Orders : AskDeadline(l, o)
      PROVE  UNCHANGED resolver
  BY <1>1 DEF SetDeadline, AskDeadline
<1>2. ASSUME Tick \/ UNCHANGED vars \/ \E o \in Orders : Complete(o) \/ LoseEvent(o)
      PROVE  UNCHANGED resolver
  BY <1>2 DEF Tick, Complete, LoseEvent, vars
<1>3. QED
  BY <1>1, <1>2, OthersFit, ResolverFits DEF Next

\* The row a flip writes refunds what its resolver's snapshot is worth.
LEMMA FlipIsFair ==
  ASSUME EInv, NEW w \in Resolvers, At(w, "flip")
  PROVE  LET o == resolver[w].order
         IN  Fair(Result(w).refund, base[o], window[o], source[o],
                  completedAt[o], now)
<1> DEFINE o == resolver[w].order
           d == resolver[w].deadline
           c == resolver[w].completed
<1>1. /\ o \in Orders /\ d \in Nat /\ c \in Nat \cup {None} /\ TypeOK
      /\ Fits(resolver[w], window, source, completedAt, now)
      /\ resolver[w].pc = "flip"
  BY DEF EInv, IInv, Typed, TypeOK, Busy, At, Resolutions
<1>2. /\ base[o] \in Nat /\ window[o] \in Nat /\ now \in Nat
      /\ completedAt[o] \in Nat \cup {None}
  BY <1>1, EarnBackAssumption DEF TypeOK
<1>3. Result(w).refund =
        IF c = None THEN 0
        ELSE base[o] - Forfeited(base[o], DaysLate(d, c, UnitsPerDay))
  BY <1>1, ResolutionRefund DEF Result
<1>4. CASE c = None
  <2>1. Lapsed(window[o], completedAt[o], now) /\ Result(w).refund = 0
    BY <1>1, <1>3, <1>4 DEF Fits
  <2>2. ASSUME completedAt[o] # None
        PROVE  Earned(base[o], window[o], completedAt[o]) = 0
    BY <1>2, <2>1, <2>2, NothingAfterGrace DEF Lapsed
  <2>3. QED
    BY <2>1, <2>2 DEF Fair, Lapsed
<1>5. CASE c # None
  <2> DEFINE n == Days(window[o])
  <2>1. /\ c = completedAt[o] /\ n <= d
        /\ source[o] # "learner" => d = n
    BY <1>1, <1>5 DEF Fits
  <2>2. n \in Nat /\ c \in Nat /\ UnitsPerDay \in Nat \ {0}
    BY <1>1, <1>2, <1>5, DaysNat, EarnBackAssumption
  <2> DEFINE mine == DaysLate(d, c, UnitsPerDay)
             due == DaysLate(n, c, UnitsPerDay)
  <2>3. mine \in Nat /\ due \in Nat /\ mine <= due
    <3> HIDE DEF n, c, d
    <3>1. mine \in Nat /\ due \in Nat
      BY <1>1, <2>2, DaysLateNat
    <3>2. mine <= due
      BY <1>1, <2>1, <2>2, DaysLateMonotone
    <3>3. QED
      BY <3>1, <3>2
  <2>4. source[o] # "learner" => mine = due
    BY <2>1
  <2>5. Result(w).refund = base[o] - Forfeited(base[o], mine)
        /\ Earned(base[o], window[o], completedAt[o])
             = base[o] - Forfeited(base[o], due)
    BY <1>3, <1>5, <2>1 DEF Earned
  <2> HIDE DEF mine, due
  <2>6. /\ Forfeited(base[o], mine) <= Forfeited(base[o], due)
        /\ Forfeited(base[o], mine) \in 0..base[o]
        /\ Forfeited(base[o], due) \in 0..base[o]
    BY <1>2, <2>3, ForfeitedMonotone, ForfeitedBounds
  <2>7. /\ Result(w).refund >= Earned(base[o], window[o], completedAt[o])
        /\ source[o] # "learner" =>
             Result(w).refund = Earned(base[o], window[o], completedAt[o])
    BY <1>2, <2>4, <2>5, <2>6
  <2>8. completedAt[o] # None
    BY <1>5, <2>1
  <2>9. QED
    BY <2>7, <2>8 DEF Fair
<1>6. QED
  BY <1>4, <1>5

LEMMA RowsStayFair ==
  ASSUME EInv, Drift, [Next]_vars
  PROVE  FairRows'
<1>t. IInv /\ FairRows /\ TypeOK
  BY DEF EInv, IInv, Typed
<1> DEFINE fair(o, refund) == Fair(refund, base'[o], window'[o], source'[o],
                                   completedAt'[o], now')
<1>1. ASSUME NEW o \in Orders, txns[o] # <<>> PROVE fair(o, Newest(o).refund)
  <2>1. Newest(o).refund \in Nat
    <3>1. txns[o] \in Seq(Rows) /\ Len(txns[o]) \in 1..Len(txns[o])
      BY <1>t, <1>1 DEF TypeOK
    <3>2. Newest(o) \in Rows
      BY <3>1 DEF Newest
    <3>3. QED
      BY <3>2 DEF Rows
  <2>2. base[o] \in Nat /\ completedAt[o] \in Nat \cup {None}
    BY <1>t, EarnBackAssumption DEF TypeOK
  <2>3. QED
    BY <1>t, <1>1, <2>1, <2>2, FairKept DEF FairRows
<1> SUFFICES ASSUME NEW o \in Orders, txns'[o] # <<>>
             PROVE  fair(o, txns'[o][Len(txns'[o])].refund)
  BY DEF FairRows, Newest
<1>2. CASE txns'[o] = txns[o]
  BY <1>1, <1>2 DEF Newest
<1>3. ASSUME NEW w \in Resolvers, At(w, "flip"), ResolveOrder(w), Flip(w)
      PROVE  fair(o, txns'[o][Len(txns'[o])].refund)
  <2> DEFINE p == resolver[w].order
             row == Result(w)
  <2>1. p \in Orders /\ txns' = [txns EXCEPT ![p] = <<row>>]
    BY <1>t, <1>3, ResolveOrderWrites
  <2>2. CASE o # p
    BY <1>t, <1>2, <2>1, <2>2 DEF TypeOK
  <2>3. CASE o = p
    <3>1. <<row>>[Len(<<row>>)] = row
      OBVIOUS
    <3>2. txns'[o] = <<row>>
      BY <1>t, <2>1, <2>3 DEF TypeOK
    <3>3. UNCHANGED <<base, window, source, completedAt, now>>
      BY <1>3 DEF Flip, learnerVars
    <3>4. Fair(row.refund, base[o], window[o], source[o], completedAt[o], now)
      BY <1>3, <2>3, FlipIsFair
    <3> HIDE DEF row
    <3>5. QED
      BY <3>1, <3>2, <3>3, <3>4
  <2>4. QED
    BY <2>2, <2>3
<1>4. \/ \E w \in Resolvers : At(w, "flip") /\ ResolveOrder(w) /\ Flip(w)
      \/ UNCHANGED txns
  <2>1. ASSUME NEW w \in Resolvers, Flip(w), ResolveOrder(w)
        PROVE  At(w, "flip")
    BY <2>1 DEF Flip
  <2>2. ASSUME NEW w \in Resolvers,
               Resolve(w) \/ SweepStart(w) \/ Fail(w), ~(Flip(w) /\ ResolveOrder(w))
        PROVE  UNCHANGED txns
    BY <2>2 DEF Resolve, SweepCheck, Flip, AlreadyResolved, EnqueuePayout,
                Announce, SweepStart, Fail, effectVars
  <2>3. ASSUME NEW w \in Resolvers, NEW q \in Orders, HandleCompleted(w, q)
        PROVE  UNCHANGED txns
    BY <2>3 DEF HandleCompleted, effectVars
  <2>4. ASSUME NEW l \in Learners, SetDeadline(l) \/ \E q \in Orders : AskDeadline(l, q)
        PROVE  UNCHANGED txns
    BY <2>4 DEF SetDeadline, AskDeadline, effectVars
  <2>5. ASSUME Tick \/ UNCHANGED vars \/ \E q \in Orders : Complete(q) \/ LoseEvent(q)
        PROVE  UNCHANGED txns
    BY <2>5 DEF Tick, Complete, LoseEvent, vars, effectVars
  <2>6. QED
    BY <2>1, <2>2, <2>3, <2>4, <2>5 DEF Next
<1>5. QED
  BY <1>2, <1>3, <1>4

LEMMA EInvInit == Init => EInv
<1> SUFFICES ASSUME Init PROVE EInv
  OBVIOUS
<1>1. IInv
  BY TypedInit DEF Init, IInv, ResolvedOnce, ForfeitMatchesRow
<1>2. \A w \in Resolvers : Fits(resolver[w], window, source, completedAt, now)
  BY IdleFits DEF Init
<1>3. FairRows /\ events = {}
  BY DEF Init, FairRows
<1>4. QED
  BY <1>1, <1>2, <1>3 DEF EInv

LEMMA EInvNext == EInv /\ [Next]_vars => EInv'
<1> SUFFICES ASSUME EInv, [Next]_vars PROVE EInv'
  OBVIOUS
<1>1. Drift
  BY Drifts DEF EInv, IInv
<1>2. IInv'
  BY Inductive DEF EInv
<1>3. QED
  BY <1>1, <1>2, EventsCompleted, AllFit, RowsStayFair DEF EInv

(***************************************************************************)
(* No sweep forfeits what a learner earned, and no handler pays a learner  *)
(* who kept the deadline more: whatever resolvers race with completions,   *)
(* deadline requests, crashes and the passing of time.                     *)
(***************************************************************************)
THEOREM RefundEarned == Spec => []RefundIsEarned
<1>1. EInv => RefundIsEarned
  <2> SUFFICES ASSUME EInv, NEW o \in Orders, txns[o] # <<>>,
                      completedAt[o] # None
               PROVE  LET earned == Resolution(o, Deadline(o), completedAt[o]).refund
                      IN  /\ Newest(o).refund >= earned
                          /\ source[o] # "learner" => Newest(o).refund = earned
    BY DEF RefundIsEarned
  <2>1. TypeOK /\ FairRows
    BY DEF EInv, IInv, Typed
  <2>2. Resolution(o, Deadline(o), completedAt[o]).refund
          = Earned(base[o], window[o], completedAt[o])
    BY <2>1, ResolutionRefund DEF Earned, Deadline, Days
  <2>3. Fair(Newest(o).refund, base[o], window[o], source[o], completedAt[o], now)
    BY <2>1 DEF FairRows
  <2>4. QED
    BY <2>2, <2>3 DEF Fair
<1>2. QED
  BY <1>1, EInvInit, EInvNext, PTL DEF Spec
=============================================================================
